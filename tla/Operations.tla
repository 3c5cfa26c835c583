------------------------------- MODULE Operations -------------------------------
(***************************************************************************)
(* The main window of the graphical application (app.py) as far as it is   *)
(* shared by all operations.  Its handlers run on one thread, one at a     *)
(* time, but a handler that opens a dialog runs the event loop inside      *)
(* itself: while the dialog is open, queued signals are handled on top of  *)
(* it, and the handler goes on only when its dialog is the innermost one.  *)
(* The user can reach nothing but the innermost dialog.  Every operation   *)
(* has a worker thread, which ends by queuing a signal, and an attribute   *)
(* of the window that refers to the object to cancel.                      *)
(*                                                                         *)
(* Abstracted: the drive list and its scans, the recommended method, the   *)
(* progress and the texts.  The file behind an image does not change.      *)
(*                                                                         *)
(* An operation has a starter, whose questions are one dialog here, a      *)
(* worker, and a handler for every signal of its worker.  `under` is the   *)
(* dialogs left when the handler runs.  What a worker does to a drive or a *)
(* file is in the workflow, executor and publication modules.              *)
(***************************************************************************)
EXTENDS Naturals, Sequences, FiniteSets, SequencesExt

CONSTANTS
  MaxJobs,    \* bound: operations and planners that can exist at a time
  MaxImages,  \* bound: images the user selects
  MaxThreads  \* bound: jobs and inspections with which the user starts nothing more

ASSUME BoundsAssumption ==
  MaxJobs \in Nat \ {0} /\ MaxImages \in Nat \ {0} /\ MaxThreads \in Nat \ {0}

VARIABLES
  window,     \* open; closed; aborted: an exception left a handler, which ends PyQt
  asks,       \* the open dialogs, the innermost last
  signals,    \* signals queued for the main thread
  owner,      \* the attributes that are not None, and the job each refers to
  jobs,       \* the operations
  busy,       \* set_busy: the cards are disabled and the Cancel button is shown
  image,      \* how many images were selected: the last one is self.image
  inspection, \* the attributes of the inspection, see InspectionInit
  shown       \* for which image inspection, zip_overlay_plan and wim_editions are

windowVars ==
  <<window, asks, signals, owner, jobs, busy, image, inspection, shown>>

Slots == 1..MaxJobs

\* A job: its kind; image and overlay: what was selected when it began, where that matters;
\* step: what its worker does, or "none"; cancelled: its cancel() was called; open: its
\* workflow is not closed, or its private directory is there; review: the final DBX review.
NoJob == [kind |-> "none", image |-> 0, overlay |-> FALSE, step |-> "none",
          cancelled |-> FALSE, open |-> FALSE, review |-> "none"]

\* The attributes that operation_active reads; the others are the planner of a ZIP
\* overlay and the references that only serve the clean-up.
OperationFields ==
  {"raw_workflow", "fast_zero_workflow", "restore_workflow", "grub_rescue_workflow",
   "imager", "formatter", "media_runner", "eraser", "optical_runner", "extractor",
   "iso_stager", "syslinux_workflow", "windows_device_runner", "windows_wim_extractor",
   "constructed_writer", "uefi_ntfs_writer", "uefi_preparer", "uefi_shell_preparer",
   "casper_preparer", "casper_stager", "casper_writer", "checksum_preparer",
   "iso_staging_preparer", "linux_downloader", "freedos_downloader",
   "windows_downloader"}

InspectionInit ==
  [busy |-> FALSE,      \* inspection_busy
   cancelled |-> FALSE, \* inspection_cancel_event, while the newest worker runs
   workers |-> {},      \* the images whose worker runs; older ones than image are cancelled
   count |-> 0,         \* inspection_worker_count
   closeAfter |-> FALSE]

WindowInit ==
  /\ window = "open" /\ asks = <<>> /\ signals = <<>> /\ owner = <<>>
  /\ jobs = [s \in Slots |-> NoJob]
  /\ busy = FALSE /\ image = 0
  /\ inspection = InspectionInit
  /\ shown = [inspection |-> 0, overlay |-> 0, editions |-> 0]

-----------------------------------------------------------------------------
(* References, dialogs and signals. *)

OperationActive(refs) == DOMAIN refs \cap OperationFields # {}

Without(refs, fields) == [f \in DOMAIN refs \ fields |-> refs[f]]
With(refs, fields, s) == [f \in DOMAIN refs \cup fields |-> IF f \in fields THEN s ELSE refs[f]]
Refers(refs, field, s) == field \in DOMAIN refs /\ refs[field] = s
ReferredBy(refs, fields) == {refs[f] : f \in fields \cap DOMAIN refs}

\* `no`: the dialog was rejected by the program.
Ask(name, s) == [ask |-> name, job |-> s, no |-> FALSE]
Opened(under, name, s) == Append(under, Ask(name, s))

Signal(to, s, outcome) == [to |-> to, job |-> s, outcome |-> outcome]

Held(s) ==
  \/ s \in ReferredBy(owner, DOMAIN owner)
  \/ \E i \in DOMAIN asks : asks[i].job = s
  \/ \E i \in DOMAIN signals : signals[i].job = s

\* A job that nothing refers to any more is forgotten, unless it has leaked something.
Tidied(js) ==
  [s \in Slots |-> IF Held(s)' \/ js[s].step # "none" \/ js[s].open THEN js[s] ELSE NoJob]

Changed(js, slots, field, value) ==
  [s \in Slots |-> IF s \in slots THEN [js[s] EXCEPT ![field] = value] ELSE js[s]]
Cancelled(js, slots) == Changed(js, slots, "cancelled", TRUE)
Closed(js, slots) == Changed(js, slots, "open", FALSE)
Stepped(js, s, step) == Changed(js, {s}, "step", step)

\* The slot of a new job.
FreeSlots == {s \in Slots : jobs[s] = NoJob /\ ~Held(s)}
FreeSlot == CHOOSE s \in FreeSlots : \A t \in FreeSlots : s <= t

ThreadsLeft == Cardinality({s \in Slots : jobs[s] # NoJob}) + inspection.count < MaxThreads

\* A handler goes on after its dialog, or returns at once, with nothing else to do.
Dismissed(under) ==
  /\ asks' = under
  /\ UNCHANGED <<window, owner, busy, image, inspection, shown>>
  /\ jobs' = Tidied(jobs)

\* A handler's last act is a message box.
Tells(under) == Dismissed(Opened(under, "notice", 0))

-----------------------------------------------------------------------------
(* Clean-up and cancellation. *)

WorkflowFields == {"raw_workflow", "fast_zero_workflow", "restore_workflow",
                   "grub_rescue_workflow", "syslinux_workflow"}
WorkspaceFields == {"iso_workspace", "uefi_shell_workspace"}

\* The attributes that on_finished resets: all but the checksums', the downloads' and the
\* overlay planner's.
FinishedFields ==
  (OperationFields \ {"checksum_preparer", "linux_downloader", "freedos_downloader",
                      "windows_downloader"})
  \cup WorkspaceFields \cup {"pending_iso_write"}

\* on_finished: whichever operation it is called for, everything is reset and closed.  It
\* then shows a box, and scans the drives when the box is answered.
OnFinished(under, js) ==
  /\ owner' = Without(owner, FinishedFields)
  /\ asks' = Opened(under, "notice", 0)
  /\ busy' = FALSE
  /\ UNCHANGED <<window, image, inspection, shown>>
  /\ jobs' = Tidied(Closed(js, ReferredBy(owner, WorkflowFields \cup WorkspaceFields)))

\* An operation ends without on_finished: its attributes are reset, what the jobs hold is
\* closed, and the window is usable again.
Ends(under, slots, fields) ==
  /\ owner' = Without(owner, fields)
  /\ asks' = under
  /\ busy' = FALSE
  /\ UNCHANGED <<window, image, inspection, shown>>
  /\ jobs' = Tidied(Closed(jobs, slots))

\* The dialogs that cancel() rejects.
Confirmations == {"raw", "fast_zero", "restore", "grub", "syslinux", "dual"}

\* Mutation: cancel() forgets the operation it has cancelled.
ForgetfulCancels(under, after) ==
  LET reached == ReferredBy(owner, OperationFields \cup {"zip_overlay_preparer"}) IN
  /\ owner' = Without(owner, OperationFields \cup {"zip_overlay_preparer"})
  /\ asks' = [i \in DOMAIN under |->
                [under[i] EXCEPT !.no = @ \/ (under[i].ask \in Confirmations
                                              /\ under[i].job \in reached)]]
  /\ inspection' = [inspection EXCEPT !.cancelled = image \in inspection.workers,
                                      !.busy = FALSE, !.closeAfter = after]
  /\ UNCHANGED <<window, busy, image, shown>>
  /\ jobs' = Tidied(Cancelled(jobs, reached))

\* cancel()
Cancels(under, after) ==
  LET operations == ReferredBy(owner, OperationFields)
      planner    == ReferredBy(owner, {"zip_overlay_preparer"})
  IN
  /\ owner' = Without(owner, {"zip_overlay_preparer"})
  /\ asks' = [i \in DOMAIN under |->
                [under[i] EXCEPT !.no = @ \/ (under[i].ask \in Confirmations
                                              /\ under[i].job \in operations)]]
  /\ inspection' = [inspection EXCEPT !.cancelled = image \in inspection.workers,
                                      !.busy = FALSE, !.closeAfter = after]
  /\ UNCHANGED <<window, busy, image, shown>>
  /\ jobs' = Tidied(Cancelled(jobs, operations \cup planner))

\* The Cancel button, or Escape.
CancelPressed ==
  /\ window = "open" /\ asks = <<>> /\ (owner # <<>> \/ inspection.busy)
  /\ UNCHANGED signals
  /\ Cancels(asks, inspection.closeAfter)

-----------------------------------------------------------------------------
(* Closing the window. *)

\* closeEvent: idle, the window closes; otherwise it asks, and remembers whether an
\* inspection was running when it asked.
CloseEvent(under, insp) ==
  IF ~OperationActive(owner) /\ insp.count = 0
    THEN /\ window' = "closed"
         /\ inspection' = insp
         /\ asks' = under
         /\ UNCHANGED <<owner, busy, image, shown>>
         /\ jobs' = Tidied(Cancelled(jobs, ReferredBy(owner, {"zip_overlay_preparer"})))
    ELSE /\ asks' = Opened(under, IF insp.count > 0 THEN "close_inspecting" ELSE "close", 0)
         /\ inspection' = insp
         /\ UNCHANGED <<window, owner, busy, image, shown>>
         /\ jobs' = Tidied(jobs)

CloseRequested ==
  /\ window = "open" /\ asks = <<>>
  /\ UNCHANGED signals
  /\ CloseEvent(asks, inspection)

\* The answer to that question.
AnswerClose(a, under, yes) ==
  IF yes
    THEN Cancels(under, \/ inspection.closeAfter
                        \/ a.ask = "close_inspecting" /\ ~OperationActive(owner))
    ELSE Dismissed(under)

-----------------------------------------------------------------------------
(* Selecting and inspecting an image. *)

\* load_image: the checksum worker and the overlay planner are cancelled and forgotten,
\* an inspection of Windows editions is cancelled, the inspection of the previous image is
\* cancelled and a new one begins.
LoadImage(under, refs, js, shownBusy) ==
  /\ owner' = Without(refs, {"zip_overlay_preparer", "checksum_preparer"})
  /\ asks' = under
  /\ busy' = IF "checksum_preparer" \in DOMAIN refs /\ ~OperationActive(owner')
               THEN FALSE ELSE shownBusy
  /\ image' = image + 1
  /\ inspection' = [inspection EXCEPT !.busy = TRUE, !.cancelled = FALSE,
                                      !.workers = @ \cup {image + 1}, !.count = @ + 1]
  /\ shown' = [inspection |-> 0, overlay |-> 0, editions |-> 0]
  /\ UNCHANGED window
  /\ jobs' = Tidied(Cancelled(js, ReferredBy(refs,
               {"zip_overlay_preparer", "checksum_preparer", "windows_wim_extractor"})))

\* Ctrl+O, at any time, and the answer to the file dialog.
ChooseImage ==
  /\ window = "open" /\ asks = <<>> /\ image < MaxImages /\ ThreadsLeft
  /\ asks' = Opened(asks, "image", 0)
  /\ UNCHANGED <<window, signals, owner, jobs, busy, image, inspection, shown>>

AnswerImage(under, yes) ==
  IF yes /\ image < MaxImages THEN LoadImage(under, owner, jobs, busy) ELSE Dismissed(under)

\* A file is dropped on the window.
DropEvent ==
  /\ window = "open" /\ asks = <<>> /\ image < MaxImages /\ ThreadsLeft
  /\ ~OperationActive(owner)
  /\ UNCHANGED signals
  /\ LoadImage(asks, owner, jobs, busy)

\* An inspection ends.  Unless it saw its cancellation it queues its result, and always,
\* in a second signal, that it has ended.
InspectionWorkerEnds(n) ==
  /\ n \in inspection.workers
  /\ \/ signals' = signals \o <<Signal("inspection_finished", 0, n),
                                 Signal("inspection_worker_finished", 0, n)>>
     \/ /\ n < image \/ inspection.cancelled
        /\ signals' = Append(signals, Signal("inspection_worker_finished", 0, n))
  /\ inspection' = [inspection EXCEPT !.workers = @ \ {n},
                                      !.cancelled = @ /\ n # image]
  /\ UNCHANGED <<window, asks, owner, jobs, busy, image, shown>>

\* Mutation: the generation of a result is not compared.
UncheckedInspectionFinished(under, generation) ==
  /\ inspection' = [inspection EXCEPT !.busy = FALSE]
  /\ shown' = [shown EXCEPT !.inspection = generation]
  /\ asks' = under
  /\ UNCHANGED <<window, owner, jobs, busy, image>>

\* A result of an older selection is dropped.
OnInspectionFinished(under, generation) ==
  /\ IF generation # image
       THEN UNCHANGED <<inspection, shown>>
       ELSE /\ inspection' = [inspection EXCEPT !.busy = FALSE]
            /\ shown' = [shown EXCEPT !.inspection = generation]
  /\ asks' = under
  /\ UNCHANGED <<window, owner, jobs, busy, image>>

\* The last worker makes the close that was put off.
OnInspectionWorkerFinished(under) ==
  LET insp == [inspection EXCEPT !.count = IF @ > 0 THEN @ - 1 ELSE 0] IN
  IF insp.count = 0 /\ insp.closeAfter
    THEN CloseEvent(under, [insp EXCEPT !.closeAfter = FALSE])
    ELSE /\ inspection' = insp
         /\ asks' = under
         /\ UNCHANGED <<window, owner, busy, image, shown>>
         /\ jobs' = Tidied(jobs)

-----------------------------------------------------------------------------
(* The operations. *)

\* A starter is reached from an enabled control, and returns at once while an operation is
\* active.
Asks(name, ready) ==
  /\ window = "open" /\ asks = <<>> /\ ~busy /\ ~OperationActive(owner) /\ ready
  /\ FreeSlots # {} /\ ThreadsLeft
  /\ asks' = Opened(asks, name, 0)
  /\ UNCHANGED <<window, signals, owner, jobs, busy, image, inspection, shown>>

Inspected == shown.inspection # 0

NewJob(kind, step, open) == [NoJob EXCEPT !.kind = kind, !.step = step, !.open = open]

BeginsAs(under, fields, job) ==
  /\ owner' = With(owner, fields, FreeSlot)
  /\ asks' = under
  /\ busy' = TRUE
  /\ UNCHANGED <<window, image, inspection, shown>>
  /\ jobs' = [Tidied(jobs) EXCEPT ![FreeSlot] = job]

Begins(under, kind, field, step, open) == BeginsAs(under, {field}, NewJob(kind, step, open))

\* A handler starts the next worker of its job.
Continues(under, s, step) ==
  /\ asks' = under
  /\ UNCHANGED <<window, owner, busy, image, inspection, shown>>
  /\ jobs' = Tidied(Stepped(jobs, s, step))

\* A signal of a workflow that is not the window's any more only closes that workflow.
ClosesStale(under, s) ==
  /\ asks' = under
  /\ UNCHANGED <<window, owner, busy, image, inspection, shown>>
  /\ jobs' = Tidied(Closed(jobs, {s}))

-----------------------------------------------------------------------------
(* Raw write, fast zero and verified restore: one pattern, three copies. *)

Releases(under, field) == Ends(under, ReferredBy(owner, {field}), {field})

\* A prepared plan opens the dialog that asks for the typed phrase.
PreparationFinished(kind, field, under, s, outcome) ==
  IF ~Refers(owner, field, s) THEN ClosesStale(under, s)
  ELSE CASE outcome = "cancelled" -> Releases(under, field)
         [] outcome = "failed" -> OnFinished(under, jobs)
         [] OTHER -> Dismissed(Opened(under, kind, s))

\* The phrase goes to the workflow's confirm, which refuses a cancelled or closed workflow,
\* and a target that has changed.
Confirmed(field, under, s, yes) ==
  IF ~yes \/ (jobs[s].open /\ jobs[s].cancelled) THEN Releases(under, field)
  ELSE \/ jobs[s].open /\ Continues(under, s, "execute")
       \/ OnFinished(under, jobs)

ExecutionFinished(field, under, s, outcome) ==
  IF ~Refers(owner, field, s) THEN ClosesStale(under, s)
  ELSE \/ outcome = "cancelled" /\ Releases(under, field)
       \/ OnFinished(under, jobs)

ConfirmWrite == Asks("start_raw", Inspected)
StartWrite(under) ==
  IF OperationActive(owner) \/ ~Inspected THEN Tells(under)
  ELSE Begins(under, "raw", "raw_workflow", "prepare", TRUE)
OnRawPreparationFinished(under, s, outcome) ==
  PreparationFinished("raw", "raw_workflow", under, s, outcome)
ConfirmRawWritePlan(under, s, yes) == Confirmed("raw_workflow", under, s, yes)
OnRawExecutionFinished(under, s, outcome) ==
  ExecutionFinished("raw_workflow", under, s, outcome)

StartFastZero(under) ==
  IF OperationActive(owner) THEN Dismissed(under)
  ELSE Begins(under, "fast_zero", "fast_zero_workflow", "prepare", TRUE)
OnFastZeroPreparationFinished(under, s, outcome) ==
  PreparationFinished("fast_zero", "fast_zero_workflow", under, s, outcome)
ConfirmFastZeroPlan(under, s, yes) == Confirmed("fast_zero_workflow", under, s, yes)
OnFastZeroExecutionFinished(under, s, outcome) ==
  ExecutionFinished("fast_zero_workflow", under, s, outcome)

StartVerifiedRestore(under) ==
  IF OperationActive(owner) THEN Dismissed(under)
  ELSE Begins(under, "restore", "restore_workflow", "prepare", TRUE)
OnRestorePreparationFinished(under, s, outcome) ==
  PreparationFinished("restore", "restore_workflow", under, s, outcome)
ConfirmRestorePlan(under, s, yes) == Confirmed("restore_workflow", under, s, yes)
OnRestoreExecutionFinished(under, s, outcome) ==
  ExecutionFinished("restore_workflow", under, s, outcome)

-----------------------------------------------------------------------------
(* GRUB rescue media: the phrase is confirmed by the second worker. *)

CreateGrubRescueMedia == Asks("start_grub", TRUE)
StartGrub(under) == Begins(under, "grub", "grub_rescue_workflow", "prepare", TRUE)

OnGrubRescuePreparationFinished(under, s, outcome) ==
  IF ~Refers(owner, "grub_rescue_workflow", s) THEN ClosesStale(under, s)
  ELSE IF outcome = "ok" THEN Dismissed(Opened(under, "grub", s))
  ELSE Ends(IF outcome = "failed" THEN Opened(under, "notice", 0) ELSE under,
            {s}, {"grub_rescue_workflow"})

ConfirmAndWriteGrubRescue(under, s, yes) ==
  IF yes THEN Continues(under, s, "confirm")
  ELSE Ends(under, {s}, {"grub_rescue_workflow"})

\* The worker: confirm refuses a cancelled or closed workflow, then the write begins.
GrubConfirmed(s) ==
  /\ jobs[s].kind = "grub" /\ jobs[s].step = "confirm"
  /\ jobs[s].open /\ ~jobs[s].cancelled
  /\ jobs' = Stepped(jobs, s, "execute")
  /\ UNCHANGED <<window, asks, signals, owner, busy, image, inspection, shown>>

OnGrubRescueExecutionFinished(under, s) ==
  IF ~Refers(owner, "grub_rescue_workflow", s) THEN ClosesStale(under, s)
  ELSE OnFinished(under, jobs)

-----------------------------------------------------------------------------
(* Operations of one worker that end in on_finished. *)

SaveDrive(under) == Begins(under, "backup", "imager", "work", FALSE)
FormatDrive(under) == Begins(under, "format", "formatter", "work", FALSE)
EraseDrive(under) == Begins(under, "erase", "eraser", "work", FALSE)
SaveOpticalDisc(under) == Begins(under, "optical", "optical_runner", "work", FALSE)
TestMedia(under) == Begins(under, "media", "media_runner", "work", FALSE)
StartIsoExtraction(under) == Begins(under, "extract", "extractor", "work", FALSE)

ShowDriveTools == Asks("drive_tools", TRUE)
OpticalDisc == Asks("start_optical", TRUE)
Extraction == Asks("start_extract", Inspected)

\* The drive tools: a tool is started when its own questions are answered.
AnswerDriveTools(under) ==
  \/ SaveDrive(under)
  \/ FormatDrive(under)
  \/ StartVerifiedRestore(under)
  \/ EraseDrive(under)
  \/ StartFastZero(under)
  \/ TestMedia(under)

\* A completed media test does not go through on_finished.
OnMediaFinished(under) ==
  /\ owner' = Without(owner, {"media_runner"})
  /\ asks' = Opened(under, "notice", 0)
  /\ busy' = FALSE
  /\ UNCHANGED <<window, image, inspection, shown>>
  /\ jobs' = Tidied(jobs)

-----------------------------------------------------------------------------
(* UEFI shell media: between preparation and writing no attribute refers to it. *)

CreateUefiShellMedia == Asks("start_shell", TRUE)
StartUefiShell(under) == Begins(under, "shell", "uefi_shell_preparer", "prepare", TRUE)

\* Mutation: a preparation that was cancelled too late is put to the user.
UnheardUefiShellPreparation(under, s, outcome) ==
  IF ~Refers(owner, "uefi_shell_preparer", s) THEN ClosesStale(under, s)
  ELSE IF outcome # "ok"
    THEN Ends(Opened(under, "notice", 0), {s}, {"uefi_shell_preparer"})
    ELSE /\ owner' = Without(owner, {"uefi_shell_preparer"})
         /\ asks' = Opened(under, "shell", s)
         /\ UNCHANGED <<window, busy, image, inspection, shown>>
         /\ jobs' = Tidied(jobs)

OnUefiShellPreparationFinished(under, s, outcome) ==
  IF ~Refers(owner, "uefi_shell_preparer", s) THEN ClosesStale(under, s)
  ELSE IF outcome # "ok" \/ jobs[s].cancelled
    THEN Ends(IF jobs[s].cancelled THEN under ELSE Opened(under, "notice", 0),
              {s}, {"uefi_shell_preparer"})
    ELSE /\ owner' = Without(owner, {"uefi_shell_preparer"})
         /\ asks' = Opened(under, "shell", s)
         /\ UNCHANGED <<window, busy, image, inspection, shown>>
         /\ jobs' = Tidied(jobs)

\* Mutation: the window is not told of the writer.
UnownedUefiShellWrite(under, s, yes) ==
  IF ~yes
    THEN Ends(under, {s}, {})
    ELSE /\ owner' = With(owner, {"uefi_shell_workspace"}, s)
         /\ asks' = under
         /\ busy' = TRUE
         /\ UNCHANGED <<window, image, inspection, shown>>
         /\ jobs' = Tidied(Stepped(jobs, s, "write"))

ConfirmAndWriteUefiShell(under, s, yes) ==
  IF ~yes
    THEN Ends(under, {s}, {})
    ELSE /\ owner' = With(owner, {"uefi_shell_workspace", "constructed_writer"}, s)
         /\ asks' = under
         /\ busy' = TRUE
         /\ UNCHANGED <<window, image, inspection, shown>>
         /\ jobs' = Tidied(Stepped(jobs, s, "write"))

-----------------------------------------------------------------------------
(* Downloads, which select what they downloaded. *)

DownloadLinuxImage == Asks("start_linux", ~inspection.busy)
DownloadFreeDosImage == Asks("start_freedos", ~inspection.busy)
DownloadWindowsImage == Asks("start_windows", ~inspection.busy)
StartLinuxDownload(under) == Begins(under, "linux", "linux_downloader", "work", FALSE)
StartFreeDosDownload(under) == Begins(under, "freedos", "freedos_downloader", "work", FALSE)
StartWindowsDownload(under) == Begins(under, "windows", "windows_downloader", "work", FALSE)

DownloadFinished(field, under, s, outcome) ==
  IF ~Refers(owner, field, s) THEN Dismissed(under)
  ELSE Ends(CASE outcome = "ok" -> Opened(under, "downloaded", 0)
              [] outcome = "failed" -> Opened(under, "notice", 0)
              [] OTHER -> under,
            {}, {field})

OnLinuxDownloadFinished(under, s, outcome) ==
  DownloadFinished("linux_downloader", under, s, outcome)

\* The image was inspected before the signal: a failure or a cancellation after the file was
\* published is told in a box.
PublishedDownloadFinished(field, under, s, outcome) ==
  \/ DownloadFinished(field, under, s, outcome)
  \/ outcome = "cancelled" /\ DownloadFinished(field, under, s, "failed")
OnFreeDosDownloadFinished(under, s, outcome) ==
  PublishedDownloadFinished("freedos_downloader", under, s, outcome)
OnWindowsDownloadFinished(under, s, outcome) ==
  PublishedDownloadFinished("windows_downloader", under, s, outcome)

AnswerDownloaded(under) ==
  IF image < MaxImages THEN LoadImage(under, owner, jobs, busy) ELSE Dismissed(under)

-----------------------------------------------------------------------------
(* Checksums, Windows editions and the ZIP overlay of the selected image. *)

CalculateImageChecksums ==
  /\ window = "open" /\ asks = <<>> /\ ~busy /\ ~OperationActive(owner) /\ Inspected
  /\ FreeSlots # {} /\ ThreadsLeft
  /\ UNCHANGED signals
  /\ Begins(asks, "checksums", "checksum_preparer", "work", FALSE)

OnChecksumsFinished(under, s, outcome) ==
  IF ~Refers(owner, "checksum_preparer", s) THEN Dismissed(under)
  ELSE Ends(IF outcome = "cancelled" \/ jobs[s].cancelled \/ ~Inspected THEN under
            ELSE Opened(under, "notice", 0),
            {}, {"checksum_preparer"})

OfSelection(kind, step) == [NewJob(kind, step, FALSE) EXCEPT !.image = image]

ChooseWindowsOptions == Asks("start_editions", Inspected)
StartWindowsWimInspection(under) ==
  IF OperationActive(owner) \/ ~Inspected THEN Dismissed(under)
  ELSE BeginsAs(under, {"windows_wim_extractor"}, OfSelection("editions", "work"))

\* While an image is inspected the window stays as it is.
OnWindowsMetadataFinished(under, s, outcome) ==
  IF ~Refers(owner, "windows_wim_extractor", s) THEN Dismissed(under)
  ELSE /\ owner' = Without(owner, {"windows_wim_extractor"})
       /\ asks' = under
       /\ busy' = (busy /\ (inspection.busy \/ OperationActive(owner')))
       /\ shown' = [shown EXCEPT !.editions =
                      IF jobs[s].image # image THEN @ ELSE IF outcome = "ok" THEN image ELSE 0]
       /\ UNCHANGED <<window, image, inspection>>
       /\ jobs' = Tidied(jobs)

ChooseZipOverlay == Asks("start_overlay", Inspected)

\* A planner is not an operation: the window stays usable, and a planner that runs is
\* cancelled by the next.
StartZipOverlay(under) ==
  /\ owner' = With(owner, {"zip_overlay_preparer"}, FreeSlot)
  /\ asks' = under
  /\ shown' = [shown EXCEPT !.overlay = 0]
  /\ UNCHANGED <<window, busy, image, inspection>>
  /\ jobs' = [Tidied(Cancelled(jobs, ReferredBy(owner, {"zip_overlay_preparer"})))
                EXCEPT ![FreeSlot] = OfSelection("overlay", "work")]

ClearZipOverlay ==
  /\ window = "open" /\ asks = <<>> /\ ~OperationActive(owner)
  /\ shown.overlay # 0 \/ "zip_overlay_preparer" \in DOMAIN owner
  /\ UNCHANGED <<window, asks, signals, busy, image, inspection>>
  /\ owner' = Without(owner, {"zip_overlay_preparer"})
  /\ shown' = [shown EXCEPT !.overlay = 0]
  /\ jobs' = Tidied(Cancelled(jobs, ReferredBy(owner, {"zip_overlay_preparer"})))

OnZipOverlayFinished(under, s, outcome) ==
  IF ~Refers(owner, "zip_overlay_preparer", s) THEN Dismissed(under)
  ELSE LET current == jobs[s].image = image /\ Inspected IN
       /\ owner' = Without(owner, {"zip_overlay_preparer"})
       /\ asks' = IF current /\ outcome = "failed" THEN Opened(under, "notice", 0) ELSE under
       /\ shown' = [shown EXCEPT !.overlay =
                      IF current /\ outcome = "ok" /\ ~jobs[s].cancelled THEN image ELSE @]
       /\ UNCHANGED <<window, busy, image, inspection>>
       /\ jobs' = Tidied(jobs)

-----------------------------------------------------------------------------
(* The ISO write: a staging plan is prepared for the selected image, then one of five     *)
(* routes is taken.  Two end in a confirmation of a prepared device plan (syslinux,       *)
(* Windows dual).  Three end in one final question and one worker that stages the tree,   *)
(* has its EFI programs reviewed on the main thread, and writes the drive.  From the      *)
(* staging plan on a private directory belongs to the operation.                          *)

Routes == {"constructed", "uefi", "casper", "syslinux", "dual"}

\* The job takes its route: attributes, dialog and worker.
Goes(under, s, route, fields, step, isBusy) ==
  /\ owner' = With(Without(owner, {"iso_staging_preparer"}), fields, s)
  /\ asks' = under
  /\ busy' = isBusy
  /\ UNCHANGED <<window, image, inspection, shown>>
  /\ jobs' = Tidied([jobs EXCEPT ![s].kind = route, ![s].step = step])

-----------------------------------------------------------------------------
(* The staging plan. *)

\* What is selected is read before the questions.
PreviewIsoPlan ==
  \/ Asks("start_iso", Inspected /\ shown.overlay = 0)
  \/ Asks("start_iso_overlay", Inspected /\ shown.overlay # 0)

StartConstructedIsoWrite(under, overlay) ==
  BeginsAs(under, {"iso_staging_preparer"},
           [NewJob("iso", "prepare", TRUE) EXCEPT !.image = image, !.overlay = overlay])

-----------------------------------------------------------------------------
(* The routes. *)

StartSyslinuxPreparation(under, s) ==
  \/ "syslinux_workflow" \notin DOMAIN owner
     /\ Goes(under, s, "syslinux", {"pending_iso_write", "syslinux_workflow"},
             "prepare", TRUE)
  \/ Ends(Opened(under, "notice", 0), {s}, {"iso_staging_preparer"})

StartWindowsDualPreparation(under, s) ==
  \/ "windows_device_runner" \notin DOMAIN owner
     /\ Goes(under, s, "dual",
             {"pending_iso_write", "iso_workspace", "windows_device_runner", "iso_stager"},
             "prepare", TRUE)
  \/ Ends(Opened(under, "notice", 0), {s}, {"iso_staging_preparer"})

StartCasperPreparation(under, s) ==
  Goes(under, s, "casper", {"pending_iso_write", "casper_preparer"}, "prepare", TRUE)

StartUefiPreparation(under, s) ==
  Goes(under, s, "uefi", {"pending_iso_write", "uefi_preparer"}, "prepare", TRUE)

\* While the boot helper's question is open no attribute refers to the job.
ContinuePreparedIsoWrite(under, s) ==
  \/ StartSyslinuxPreparation(under, s)
  \/ StartWindowsDualPreparation(under, s)
  \/ StartCasperPreparation(under, s)
  \/ Goes(Opened(under, "uefi_helper", s), s, "uefi", {}, "none", FALSE)
  \/ Goes(Opened(under, "iso_write", s), s, "constructed", {}, "none", FALSE)

AnswerUefiHelper(under, s, yes) ==
  IF yes THEN StartUefiPreparation(under, s) ELSE ClosesStale(under, s)

\* Mutation: a preparation that was cancelled, or failed, leaves the private directory.
LeavingHelperPreparation(field, under, s, outcome) ==
  IF ~Refers(owner, field, s) THEN Dismissed(under)
  ELSE IF outcome # "ok" \/ jobs[s].cancelled
    THEN Ends(under, {}, {field, "pending_iso_write"})
    ELSE /\ owner' = Without(owner, {field, "pending_iso_write"})
         /\ asks' = Opened(under, "iso_write", s)
         /\ UNCHANGED <<window, busy, image, inspection, shown>>
         /\ jobs' = Tidied(jobs)

\* UEFI:NTFS and casper: the attributes are reset before the final question.
HelperPreparationFinished(field, under, s, outcome) ==
  IF ~Refers(owner, field, s) THEN Dismissed(under)
  ELSE IF outcome # "ok" \/ jobs[s].cancelled
    THEN Ends(IF jobs[s].cancelled THEN under ELSE Opened(under, "notice", 0),
              {s}, {field, "pending_iso_write"})
    ELSE /\ owner' = Without(owner, {field, "pending_iso_write"})
         /\ asks' = Opened(under, "iso_write", s)
         /\ UNCHANGED <<window, busy, image, inspection, shown>>
         /\ jobs' = Tidied(jobs)

OnUefiPreparationFinished(under, s, outcome) ==
  HelperPreparationFinished("uefi_preparer", under, s, outcome)
OnCasperPreparationFinished(under, s, outcome) ==
  HelperPreparationFinished("casper_preparer", under, s, outcome)

\* The selection must still be that of the request.
Current(s) ==
  jobs[s].image = image /\ Inspected /\ jobs[s].overlay = (shown.overlay # 0)

OnIsoStagingPreparationFinished(under, s, outcome) ==
  IF ~Refers(owner, "iso_staging_preparer", s) THEN ClosesStale(under, s)
  ELSE IF outcome = "cancelled" \/ jobs[s].cancelled
    THEN Ends(under, {s}, {"iso_staging_preparer"})
  ELSE IF outcome = "failed" \/ ~Current(s)
    THEN Ends(Opened(under, "notice", 0), {s}, {"iso_staging_preparer"})
  ELSE ContinuePreparedIsoWrite(under, s)

-----------------------------------------------------------------------------
(* One worker: stage, review, write. *)

WriterFields(route) ==
  CASE route = "casper" -> {"casper_stager", "casper_writer"}
    [] route = "uefi" -> {"uefi_ntfs_writer"}
    [] OTHER -> {"constructed_writer"}

ConfirmAndStartIsoWrite(under, s, yes) ==
  \/ /\ yes
     /\ owner' = With(owner, {"iso_workspace", "iso_stager"} \cup WriterFields(jobs[s].kind), s)
     /\ asks' = under
     /\ busy' = TRUE
     /\ UNCHANGED <<window, image, inspection, shown>>
     /\ jobs' = Tidied(Stepped(jobs, s, "stage"))
  \/ Ends(IF yes THEN Opened(under, "notice", 0) ELSE under, {s}, {})

\* The tree is staged and assessed.  A new match, or an incomplete assessment, is put to the
\* user: the worker queues the request and waits.
CheckFinalStagedDbx(s) ==
  /\ jobs[s].step = "stage" /\ ~jobs[s].cancelled
  /\ \/ jobs' = Stepped(jobs, s, "write") /\ UNCHANGED signals
     \/ /\ jobs' = Changed(Stepped(jobs, s, "review"), {s}, "review", "asked")
        /\ signals' = Append(signals, Signal("dbx_requested", s, "ok"))
  /\ UNCHANGED <<window, asks, owner, busy, image, inspection, shown>>

\* The main thread asks, unless the request is stale or the operation is cancelled.
OnStagedDbxConfirmationRequested(under, s) ==
  IF jobs[s].review # "asked" THEN Dismissed(under)
  ELSE IF jobs[s].cancelled
    THEN /\ asks' = under
         /\ UNCHANGED <<window, owner, busy, image, inspection, shown>>
         /\ jobs' = Tidied(Changed(jobs, {s}, "review", "declined"))
  ELSE Dismissed(Opened(under, "dbx", s))

AnswerDbx(under, s, yes) ==
  /\ asks' = under
  /\ UNCHANGED <<window, owner, busy, image, inspection, shown>>
  /\ jobs' = Tidied(Changed(jobs, {s}, "review",
               IF yes /\ ~jobs[s].cancelled THEN "accepted" ELSE "declined"))

\* The worker sees the decision; it looks for a cancellation before and after.
DbxDecided(s) ==
  /\ jobs[s].step = "review" /\ jobs[s].review = "accepted" /\ ~jobs[s].cancelled
  /\ jobs' = Stepped(jobs, s, "write")
  /\ UNCHANGED <<window, asks, signals, owner, busy, image, inspection, shown>>

-----------------------------------------------------------------------------
(* Syslinux. *)

OnSyslinuxPreparationFinished(under, s, outcome) ==
  IF ~Refers(owner, "syslinux_workflow", s) THEN ClosesStale(under, s)
  ELSE \/ outcome = "ok" /\ "pending_iso_write" \in DOMAIN owner
          /\ Dismissed(Opened(under, "syslinux", s))
       \/ OnFinished(under, jobs)

StartSyslinuxDeviceWrite(under, s) ==
  IF Refers(owner, "syslinux_workflow", s) THEN Continues(under, s, "execute")
  ELSE ClosesStale(under, s)

PromptSyslinuxConfirmation(under, s, yes) ==
  IF ~yes
    THEN Ends(under, {s}, {"pending_iso_write", "iso_workspace"}
                \cup (IF Refers(owner, "syslinux_workflow", s)
                        THEN {"syslinux_workflow"} ELSE {}))
    ELSE \/ jobs[s].open /\ ~jobs[s].cancelled /\ StartSyslinuxDeviceWrite(under, s)
         \/ OnFinished(under, jobs)

OnSyslinuxExecutionFinished(under, s) ==
  IF ~Refers(owner, "syslinux_workflow", s) THEN ClosesStale(under, s)
  ELSE OnFinished(under, jobs)

-----------------------------------------------------------------------------
(* Windows for BIOS and UEFI. *)

CancelsStale(under, s) ==
  /\ asks' = under
  /\ UNCHANGED <<window, owner, busy, image, inspection, shown>>
  /\ jobs' = Tidied(Cancelled(jobs, {s}))

OnWindowsDualPreparationFinished(under, s, outcome) ==
  IF ~Refers(owner, "windows_device_runner", s) THEN CancelsStale(under, s)
  ELSE IF outcome = "ok"
    THEN /\ owner' = Without(owner, {"iso_stager"})
         /\ asks' = Opened(under, "dual", s)
         /\ UNCHANGED <<window, busy, image, inspection, shown>>
         /\ jobs' = Tidied(jobs)
    ELSE OnFinished(under, jobs)

StartWindowsDualDeviceWrite(under, s) ==
  IF Refers(owner, "windows_device_runner", s) THEN Continues(under, s, "execute")
  ELSE CancelsStale(under, s)

\* The phrase is checked together with the runner's cancellation, whose exception nobody
\* catches.
PromptWindowsDualConfirmation(under, s, yes) ==
  IF ~yes
    THEN Ends(under, {s}, {"windows_device_runner", "pending_iso_write", "iso_workspace"})
  ELSE IF jobs[s].cancelled
    THEN window' = "aborted"
         /\ UNCHANGED <<asks, owner, jobs, busy, image, inspection, shown>>
  ELSE \/ StartWindowsDualDeviceWrite(under, s)
       \/ OnFinished(under, jobs)

OnWindowsDualExecutionFinished(under, s) ==
  IF ~Refers(owner, "windows_device_runner", s) THEN CancelsStale(under, s)
  ELSE OnFinished(under, jobs)
==================================================================================
