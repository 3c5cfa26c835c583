------------------------------ MODULE Application -------------------------------
(***************************************************************************)
(* The graphical application (app.py): the event loop of the main thread,  *)
(* the user, and the worker threads.  The event loop takes the first       *)
(* queued signal, also under an open dialog; the user answers the          *)
(* innermost dialog, or, when none is open, uses a control of the window.  *)
(* When the window closes, Qt's quit rejects the dialogs that are open.    *)
(***************************************************************************)
EXTENDS Operations

vars == windowVars

Init == WindowInit

-----------------------------------------------------------------------------
(* Worker threads. *)

Downloads == {"linux", "freedos", "windows"}
OfImage == {"checksums", "editions", "overlay"}
IsoRoutes == {"constructed", "uefi", "casper"}
Simple == {"backup", "format", "erase", "optical", "extract"}

\* The signal of a worker that ends.
Reports(job, outcome) ==
  IF job.kind \in Downloads \cup OfImage THEN "result"
  ELSE IF job.kind = "media" /\ outcome = "ok" THEN "media_finished"
  ELSE IF job.kind \in Simple \cup {"media"} \/ job.step \in {"stage", "review", "write"}
    THEN "finished"
  ELSE IF job.step = "prepare" THEN "prepared" ELSE "executed"

Unfinished == {"confirm", "stage", "review"}

\* A worker, a daemon thread, ends as it should, or was cancelled and says so, or fails.
\* The worker of an ISO write removes its private directory, and leaves a review that it
\* waits for stale.  What nobody awaits any more is one outcome.
WorkerEnds(s, outcome) ==
  LET job == jobs[s] IN
  /\ window = "open" /\ job.step # "none"
  /\ outcome = "ok" => job.step \notin Unfinished
  /\ outcome = "cancelled" => job.cancelled \/ job.review = "declined"
  /\ job.step = "review" => outcome = "cancelled"
  /\ job.kind \in OfImage /\ s \notin ReferredBy(owner, DOMAIN owner) => outcome = "cancelled"
  /\ jobs' = [jobs EXCEPT
       ![s].step = "none",
       ![s].open = @ /\ ~(job.kind \in IsoRoutes /\ job.step \in {"stage", "review", "write"}),
       ![s].review = IF @ = "asked" THEN "stale" ELSE @]
  /\ LET to == Reports(job, outcome) IN
     signals' = Append(signals, Signal(to, s, IF to = "finished" THEN "ok" ELSE outcome))
  /\ UNCHANGED <<window, asks, owner, busy, image, inspection, shown>>

Worker(s) ==
  \/ GrubConfirmed(s)
  \/ CheckFinalStagedDbx(s)
  \/ DbxDecided(s)
  \/ \E outcome \in {"ok", "failed", "cancelled"} : WorkerEnds(s, outcome)

-----------------------------------------------------------------------------
(* The event loop. *)

Prepared(under, s, outcome) ==
  \/ jobs[s].kind = "raw" /\ OnRawPreparationFinished(under, s, outcome)
  \/ jobs[s].kind = "fast_zero" /\ OnFastZeroPreparationFinished(under, s, outcome)
  \/ jobs[s].kind = "restore" /\ OnRestorePreparationFinished(under, s, outcome)
  \/ jobs[s].kind = "grub" /\ OnGrubRescuePreparationFinished(under, s, outcome)
  \/ jobs[s].kind = "shell" /\ OnUefiShellPreparationFinished(under, s, outcome)
  \/ jobs[s].kind = "iso" /\ OnIsoStagingPreparationFinished(under, s, outcome)
  \/ jobs[s].kind = "uefi" /\ OnUefiPreparationFinished(under, s, outcome)
  \/ jobs[s].kind = "casper" /\ OnCasperPreparationFinished(under, s, outcome)
  \/ jobs[s].kind = "syslinux" /\ OnSyslinuxPreparationFinished(under, s, outcome)
  \/ jobs[s].kind = "dual" /\ OnWindowsDualPreparationFinished(under, s, outcome)

Executed(under, s, outcome) ==
  \/ jobs[s].kind = "raw" /\ OnRawExecutionFinished(under, s, outcome)
  \/ jobs[s].kind = "fast_zero" /\ OnFastZeroExecutionFinished(under, s, outcome)
  \/ jobs[s].kind = "restore" /\ OnRestoreExecutionFinished(under, s, outcome)
  \/ jobs[s].kind = "grub" /\ OnGrubRescueExecutionFinished(under, s)
  \/ jobs[s].kind = "syslinux" /\ OnSyslinuxExecutionFinished(under, s)
  \/ jobs[s].kind = "dual" /\ OnWindowsDualExecutionFinished(under, s)

Result(under, s, outcome) ==
  \/ jobs[s].kind = "linux" /\ OnLinuxDownloadFinished(under, s, outcome)
  \/ jobs[s].kind = "freedos" /\ OnFreeDosDownloadFinished(under, s, outcome)
  \/ jobs[s].kind = "windows" /\ OnWindowsDownloadFinished(under, s, outcome)
  \/ jobs[s].kind = "checksums" /\ OnChecksumsFinished(under, s, outcome)
  \/ jobs[s].kind = "editions" /\ OnWindowsMetadataFinished(under, s, outcome)
  \/ jobs[s].kind = "overlay" /\ OnZipOverlayFinished(under, s, outcome)

Dispatch ==
  /\ window = "open" /\ signals # <<>>
  /\ signals' = Tail(signals)
  /\ LET m == Head(signals) IN
     \/ m.to = "prepared" /\ Prepared(asks, m.job, m.outcome)
     \/ m.to = "executed" /\ Executed(asks, m.job, m.outcome)
     \/ m.to = "result" /\ Result(asks, m.job, m.outcome)
     \/ m.to = "finished" /\ OnFinished(asks, jobs)
     \/ m.to = "media_finished" /\ OnMediaFinished(asks)
     \/ m.to = "dbx_requested" /\ OnStagedDbxConfirmationRequested(asks, m.job)
     \/ m.to = "inspection_finished" /\ OnInspectionFinished(asks, m.outcome)
     \/ m.to = "inspection_worker_finished" /\ OnInspectionWorkerFinished(asks)

-----------------------------------------------------------------------------
(* The user. *)

\* The questions of a starter are answered with yes.
Starts(ask, under) ==
  \/ ask = "start_raw" /\ StartWrite(under)
  \/ ask = "drive_tools" /\ AnswerDriveTools(under)
  \/ ask = "start_grub" /\ StartGrub(under)
  \/ ask = "start_shell" /\ StartUefiShell(under)
  \/ ask = "start_optical" /\ SaveOpticalDisc(under)
  \/ ask = "start_extract" /\ StartIsoExtraction(under)
  \/ ask = "start_linux" /\ StartLinuxDownload(under)
  \/ ask = "start_freedos" /\ StartFreeDosDownload(under)
  \/ ask = "start_windows" /\ StartWindowsDownload(under)
  \/ ask = "start_editions" /\ StartWindowsWimInspection(under)
  \/ ask = "start_overlay" /\ StartZipOverlay(under)
  \/ ask = "start_iso" /\ StartConstructedIsoWrite(under, FALSE)
  \/ ask = "start_iso_overlay" /\ StartConstructedIsoWrite(under, TRUE)

Starters ==
  {"start_raw", "drive_tools", "start_grub", "start_shell", "start_optical", "start_extract",
   "start_linux", "start_freedos", "start_windows", "start_editions", "start_overlay",
   "start_iso", "start_iso_overlay"}

\* A handler goes on after the dialog of its job.
GoesOn(ask, under, s, yes) ==
  \/ ask = "raw" /\ ConfirmRawWritePlan(under, s, yes)
  \/ ask = "fast_zero" /\ ConfirmFastZeroPlan(under, s, yes)
  \/ ask = "restore" /\ ConfirmRestorePlan(under, s, yes)
  \/ ask = "grub" /\ ConfirmAndWriteGrubRescue(under, s, yes)
  \/ ask = "shell" /\ ConfirmAndWriteUefiShell(under, s, yes)
  \/ ask = "uefi_helper" /\ AnswerUefiHelper(under, s, yes)
  \/ ask = "iso_write" /\ ConfirmAndStartIsoWrite(under, s, yes)
  \/ ask = "dbx" /\ AnswerDbx(under, s, yes)
  \/ ask = "syslinux" /\ PromptSyslinuxConfirmation(under, s, yes)
  \/ ask = "dual" /\ PromptWindowsDualConfirmation(under, s, yes)

Answer ==
  /\ window # "aborted" /\ asks # <<>>
  /\ UNCHANGED signals
  /\ LET a == Last(asks)
         under == Front(asks)
     IN \E yes \in BOOLEAN :
        /\ yes => window = "open" /\ ~a.no
        /\ \/ a.ask \in Starters /\ yes /\ Starts(a.ask, under)
           \/ a.ask \in Starters \cup {"notice"} /\ ~yes /\ Dismissed(under)
           \/ GoesOn(a.ask, under, a.job, yes)
           \/ a.ask = "downloaded" /\ AnswerDownloaded(under)
           \/ a.ask = "image" /\ AnswerImage(under, yes)
           \/ a.ask \in {"close", "close_inspecting"} /\ AnswerClose(a, under, yes)

User ==
  \/ ConfirmWrite \/ ShowDriveTools \/ CreateGrubRescueMedia \/ CreateUefiShellMedia
  \/ OpticalDisc \/ Extraction
  \/ DownloadLinuxImage \/ DownloadFreeDosImage \/ DownloadWindowsImage
  \/ CalculateImageChecksums \/ ChooseWindowsOptions \/ ChooseZipOverlay \/ ClearZipOverlay
  \/ PreviewIsoPlan
  \/ ChooseImage \/ DropEvent
  \/ CancelPressed \/ CloseRequested

Next ==
  \/ User \/ Answer \/ Dispatch
  \/ \E s \in Slots : Worker(s)
  \/ \E n \in 1..MaxImages : InspectionWorkerEnds(n)

\* Workers end, the event loop goes on, and dialogs are answered.  The user starts nothing
\* that must start, and an inspection may take for ever.
Fairness ==
  /\ WF_vars(Answer) /\ WF_vars(Dispatch)
  /\ \A s \in Slots : WF_vars(Worker(s))

Spec == Init /\ [][Next]_vars /\ Fairness

-----------------------------------------------------------------------------
(* Properties. *)

\* At most one operation runs that was not cancelled, and cancel() and closeEvent reach it:
\* an attribute that they read refers to it (app.py, operation_active).  While it runs the
\* controls that start another are disabled.  Nothing goes on uncancelled when the window is
\* closed.
OneOperation ==
  LET running == {s \in Slots : jobs[s].step # "none" /\ ~jobs[s].cancelled}
      operations == {s \in running : jobs[s].kind # "overlay"}
  IN
  /\ Cardinality(operations) <= 1
  /\ operations \subseteq ReferredBy(owner, OperationFields)
  /\ OperationActive(owner) /\ asks = <<>> /\ window = "open" => busy
  /\ window = "closed" => running = {}

\* Every workflow that is not closed and every private directory that is not removed is in
\* somebody's hands: an attribute, a dialog, a queued signal or a worker.  No handler
\* returns, for a stale signal, a refused dialog or a failed step, without closing it.
NothingLeaks ==
  window # "aborted" =>
    \A s \in Slots : jobs[s].open => jobs[s].step # "none" \/ Held(s)

\* The inspection, the ZIP overlay and the Windows editions that are shown, and that an
\* ISO write would use, are those of the selected image, whatever results arrive late.
ResultsAreCurrent ==
  /\ shown.inspection \in {0, image}
  /\ shown.overlay \in {0, image} /\ shown.editions \in {0, image}
  /\ shown.overlay # 0 => Inspected

\* An operation that is cancelled before its destructive step never takes it, however its
\* dialog was answered and whatever signal was queued.
CancelIsHeard ==
  [][\A s \in Slots :
       jobs[s].cancelled /\ jobs[s].step \notin {"execute", "write"}
         => jobs'[s].step \notin {"execute", "write"}]_vars

\* A cancelled operation ends, and everything it held is closed, or the application has
\* ended: no worker waits for a review and no dialog for an operation that is gone.
CancelEnds ==
  \A s \in Slots :
    jobs[s].cancelled ~> (jobs[s].step = "none" /\ ~jobs[s].open) \/ window # "open"
==================================================================================
