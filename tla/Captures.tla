-------------------------------- MODULE Captures ---------------------------------
(***************************************************************************)
(* What is read into a private file: from a drive or a disc, which gets    *)
(* its name by a hard link, and out of a compressed container.             *)
(*                                                                         *)
(* Drive...: DriveImager of isopropyl/backup.py.  A dd started through     *)
(* pkexec is read into a private file beside the destination.  dd may hang *)
(* with the drive; it may run as root, and then no signal of this process  *)
(* stops it.                                                               *)
(*                                                                         *)
(* Virtual...: VirtualDriveImager of isopropyl/backup.py.  A raw capture   *)
(* in a private directory (the first part, which is one step here, with    *)
(* the outcomes that it shows), converted and compared by two qemu-img     *)
(* children, published by the same link, and removed whatever happened.    *)
(*                                                                         *)
(* Optical...: isopropyl/optical.py.  dd, through pkexec, writes to the    *)
(* private file itself.                                                    *)
(*                                                                         *)
(* Container...: CompressedVirtualDiskPreparer of isopropyl/virtual.py     *)
(* with the ImageSource of isopropyl/sources.py that it reads: a virtual   *)
(* disk is decoded, by a library or by a gzip or zstd child, into a        *)
(* private file that is handed over with its descriptor.                   *)
(***************************************************************************)
EXTENDS Publisher

DriveNames == {"partial"}
DriveInit == PublisherInit({"read"}, DriveNames)

\* Up to the private file: validation, the destination, the unmount.
DriveBegins ==
  \/ Interrupted({"idle"}, "done")
  \/ ~cancelled /\ entry # "absent" /\ Ends("idle", "done", "failure")
  \/ ~cancelled /\ entry = "absent" /\ Keeps("idle", "revalidate", {"partial"})

\* _revalidate: the cancellation, then the identity of the drive.
Revalidates(from, to, failed) ==
  \/ Interrupted({from}, failed)
  \/ ~cancelled /\ input = "bound" /\ Passes(from, to)

RevalidateBefore == Revalidates("revalidate", "spawn", "finally")

SpawnReader ==
  \/ Ends("spawn", "finally", "failure")
  \/ \E killable \in BOOLEAN :
       HasChild("spawn", "register", [child EXCEPT !.state = "running", !.killable = killable])

RegisterReader == HasChild("register", "check", [child EXCEPT !.known = TRUE])

\* Mutation: the event is not looked at.
ReadAnyway == Passes("check", IF image.done = Size THEN "sync" ELSE "read")

\* copy_exact: the event is looked at before each read, which may block.
CheckBeforeRead ==
  IF image.done = Size THEN Passes("check", "sync")
  ELSE IF cancelled THEN Ends("check", "reap", "cancelled")
  ELSE Passes("check", "read")

ReadEnd == child.state # "running" /\ Ends("read", "reap", "failure")

\* The drive gives a block, which is another drive's if it was replaced.
ReaderGives ==
  child.state = "running"
    /\ Makes("read", "check", [image EXCEPT !.done = @ + 1, !.right = @ /\ input = "bound"])

ReaderEnds ==
  /\ child.state = "running" /\ child' = [child EXCEPT !.state = "ended"]
  /\ UNCHANGED <<pc, signal, cancelled, entry, image, private, stubborn, input, told>>

SyncFile ==
  \/ Makes("sync", "drain", [image EXCEPT !.durable = TRUE])
  \/ Ends("sync", "reap", "failure")

\* The end of both pipes, and the exit code, which is unsigned by the checks below.
Drain == child.state # "running" /\ Passes("drain", "reap")

\* _terminate_process, the registration, and the report of a reader that stays.
Reap ==
  /\ pc = "reap"
  /\ child' = [Stopped(child) EXCEPT !.known = FALSE]
  /\ told' = IF child'.state = "running" THEN [told EXCEPT !.outcome = "failure"] ELSE told
  /\ pc' = IF told'.outcome = "none" THEN "verdict" ELSE "finally"
  /\ UNCHANGED <<signal, cancelled, entry, image, private, stubborn, input>>

\* The event, the diagnostics, the exit code, bytes past the size of the drive.
Verdict ==
  \/ Interrupted({"verdict"}, "finally")
  \/ ~cancelled /\ child.state = "ended" /\ Passes("verdict", "rebind")

RevalidateAfter == Revalidates("rebind", "bind", "finally")

CheckBinding == Interrupted({"bind"}, "finally") \/ (~cancelled /\ Passes("bind", "link"))

DriveLink == GivesName("link", "unlink", "finally")

UnlinkTemporary(file, to) ==
  IF file \in stubborn THEN EndsPublished("unlink", to) ELSE Keeps("unlink", "sync-parent", private \ {file})

\* Mutation: an error of fsync() is an ordinary failure.
SyncForgets(to) == Ends("sync-parent", to, "success") \/ Ends("sync-parent", to, "failure")

SyncDirectories(to) == Ends("sync-parent", to, "success") \/ EndsPublished("sync-parent", to)

Commit == DriveLink \/ UnlinkTemporary("partial", "finally") \/ SyncDirectories("finally")

\* The finally clause: whatever happened, the private file is removed, or told of.
CleanupPartial ==
  /\ Goto("finally", "done")
  /\ private' = private \cap stubborn
  /\ told' = IF private' = {} THEN told
             ELSE [outcome |-> "failure", published |-> entry = "ours", leftover |-> TRUE]
  /\ UNCHANGED <<signal, cancelled, entry, image, stubborn, input, child>>

DriveWorks ==
  \/ DriveBegins \/ RevalidateBefore \/ SpawnReader \/ RegisterReader \/ CheckBeforeRead \/ ReadEnd
  \/ SyncFile \/ Drain \/ Reap \/ Verdict \/ RevalidateAfter \/ CheckBinding \/ Commit \/ CleanupPartial

DriveChildWorks == ReaderGives \/ ReaderEnds

DriveEnvironment ==
  \/ SomebodyCreates \/ InputChanges \/ Killed
  \/ PowerLost({"unlink", "sync-parent"})

DriveNext == DriveWorks \/ DriveChildWorks \/ CancelSets \/ Cancels \/ DriveEnvironment

-----------------------------------------------------------------------------
VirtualNames == {"raw", "output"}
VirtualInit == PublisherInit({"convert"}, VirtualNames)

\* Up to the private directory: the destination, the tool, the free space.
VirtualBegins ==
  \/ Interrupted({"idle"}, "done")
  \/ ~cancelled /\ entry # "absent" /\ Ends("idle", "done", "failure")
  \/ ~cancelled /\ entry = "absent" /\ Keeps("idle", "capture", {"directory"})

\* The capture is published as capture.raw; a failure to make that name durable
\* is a BackupPublishError as well.
Capture ==
  \/ Interrupted({"capture"}, "cleanup")
  \/ Keeps("capture", "start", private \cup {"raw"})
  \/ /\ Goto("capture", "cleanup")
     /\ private' = private \cup {"raw"}
     /\ told' = [told EXCEPT !.outcome = "failure", !.published = TRUE]
     /\ UNCHANGED <<signal, cancelled, entry, image, stubborn, input, child>>

Unchanged == input = "bound"

\* _run_qemu: what has to be unchanged, the child, and its registration.
StartQemu ==
  \/ Interrupted({"start"}, "cleanup")
  \/ /\ ~cancelled /\ Unchanged /\ image.bound
     /\ Goto("start", "register")
     /\ \E killable \in BOOLEAN :
          child' = [child EXCEPT !.state = "running", !.killable = killable]
     /\ private' = private \cup {"output"}
     /\ UNCHANGED <<signal, cancelled, entry, image, stubborn, input, told>>

\* The event is looked at again: cancel() may have come before the registration.
RegisterQemu ==
  LET known == [child EXCEPT !.known = TRUE]
  IN HasChild("register", "watch", IF cancelled THEN Stopped(known) ELSE known)

\* The loop that polls the child and the event, and the bounded wait after it.
\* _terminate_process ran already in Stopped; a child that stays is forgotten.
WatchQemu ==
  /\ pc = "watch" /\ (cancelled \/ child.state # "running")
  /\ child' = [Stopped(child) EXCEPT !.known = FALSE]
  /\ \/ /\ child'.state = "running" \/ child.state = "killed"
        /\ pc' = "cleanup" /\ told' = [told EXCEPT !.outcome = "failure"]
     \/ /\ cancelled /\ child'.state # "running"
        /\ pc' = "cleanup" /\ told' = [told EXCEPT !.outcome = "cancelled"]
     \/ ~cancelled /\ child.state = "ended" /\ pc' = child.task /\ UNCHANGED told
  /\ UNCHANGED <<signal, cancelled, entry, image, private, stubborn, input>>

\* qemu-img writes what it read, or something else, and ends.
QemuEnds ==
  /\ child.state = "running" /\ child' = [child EXCEPT !.state = "ended"]
  /\ IF child.task = "convert" /\ pc \in {"register", "watch"}
       THEN \E right \in BOOLEAN :
              image' = [done |-> Size, right |-> right /\ Unchanged, durable |-> FALSE, bound |-> TRUE]
       ELSE UNCHANGED image
  /\ UNCHANGED <<pc, signal, cancelled, entry, private, stubborn, input, told>>

\* Its bounds, its format, its size, and its identity from now on.
InspectOutput ==
  \/ Interrupted({"convert"}, "cleanup")
  \/ /\ ~cancelled /\ Unchanged
     /\ Goto("convert", "start")
     /\ image' = [image EXCEPT !.durable = TRUE, !.bound = TRUE]
     /\ child' = [NoChild EXCEPT !.task = "compare"]
     /\ UNCHANGED <<signal, cancelled, entry, private, stubborn, input, told>>

\* The comparison saw the two files as they are, if both are as they were bound.
CompareOutput ==
  \/ Interrupted({"compare"}, "cleanup")
  \/ ~cancelled /\ Unchanged /\ image.bound /\ Complete /\ Passes("compare", "recheck")

RecheckOutput ==
  \/ Interrupted({"recheck"}, "cleanup")
  \/ ~cancelled /\ image.bound /\ Passes("recheck", "link")

VirtualLink == GivesName("link", "unlink", "cleanup")

UnlinkOutput ==
  IF "output" \in stubborn THEN EndsPublished("unlink", "cleanup")
  ELSE Keeps("unlink", "sync-parent", private \ {"output"})

SyncVirtualDirectories == Ends("sync-parent", "cleanup", "success") \/ EndsPublished("sync-parent", "cleanup")

\* _cleanup_virtual_backup, and the report that becomes of what it leaves.
CleanupPrivate ==
  /\ Goto("cleanup", "done")
  /\ LET left == private \cap stubborn IN
       /\ private' = IF left = {} THEN {} ELSE left \cup {"directory"}
       /\ told' = IF left = {} THEN told
                  ELSE [outcome |-> "failure", published |-> entry = "ours", leftover |-> TRUE]
  /\ UNCHANGED <<signal, cancelled, entry, image, stubborn, input, child>>

VirtualWorks ==
  \/ VirtualBegins \/ Capture \/ StartQemu \/ RegisterQemu \/ WatchQemu \/ InspectOutput
  \/ CompareOutput \/ RecheckOutput \/ VirtualLink \/ UnlinkOutput \/ SyncVirtualDirectories \/ CleanupPrivate

VirtualChildWorks == QemuEnds

VirtualEnvironment ==
  \/ SomebodyCreates \/ Killed \/ PowerLost({"unlink", "sync-parent", "cleanup"})
  \/ pc # "capture" /\ "raw" \in private /\ InputChanges
  \/ Complete /\ FileChanges({"convert", "start", "register", "watch", "compare", "recheck"})

VirtualNext == VirtualWorks \/ VirtualChildWorks \/ CancelSets \/ Cancels \/ VirtualEnvironment

-----------------------------------------------------------------------------
OpticalNames == {"partial"}
OpticalInit == PublisherInit({"capture"}, OpticalNames)

\* The disc, by its identity and by two reports of its size.
SameDisc == input = "bound"
FreeDestination == entry = "absent"

\* build_optical_capture_plan.
PlanCapture ==
  \/ Ends("idle", "done", "failure")
  \/ FreeDestination /\ Passes("idle", "planned")

\* run(): the event, the plan, the destination and the disc.
CaptureBegins ==
  \/ Interrupted({"planned"}, "done")
  \/ ~cancelled /\ FreeDestination /\ SameDisc /\ Passes("planned", "unmount")

UnmountDisc == Ends("unmount", "done", "failure") \/ Passes("unmount", "look")

\* The same looks after the unmount, and no look after this one at the disc.
LookAgain ==
  \/ Interrupted({"look"}, "done")
  \/ ~cancelled /\ FreeDestination /\ SameDisc /\ Keeps("look", "spawn-optical", {"partial"})

SpawnOptical ==
  \/ Interrupted({"spawn-optical"}, "remove")
  \/ ~cancelled /\ \E killable \in BOOLEAN :
       HasChild("spawn-optical", "register-optical", [child EXCEPT !.state = "running", !.killable = killable])

RegisterOptical == HasChild("register-optical", "event", [child EXCEPT !.known = TRUE])

\* dd writes to the descriptor; the worker waits for its diagnostics, a moment at a time,
\* and looks at the event between.  On the way out dd is stopped and forgotten; what it is
\* does not let itself be stopped is not told of.
AbandonCapture(from, outcome) ==
  /\ Goto(from, "remove")
  /\ child' = [Stopped(child) EXCEPT !.known = FALSE]
  /\ told' = [told EXCEPT !.outcome = outcome]
  /\ UNCHANGED <<signal, cancelled, entry, image, private, stubborn, input>>

LookAtEvent ==
  \/ cancelled /\ AbandonCapture("event", "cancelled")
  \/ AbandonCapture("event", "failure")
  \/ ~cancelled /\ Passes("event", "follow")

FollowReader ==
  \/ cancelled /\ AbandonCapture("follow", "cancelled")
  \/ AbandonCapture("follow", "failure")
  \/ child.state # "running" /\ HasChild("follow", "collect", [child EXCEPT !.known = FALSE])

OpticalWrites ==
  /\ child.state = "running" /\ image.done < Size
  /\ image' = [image EXCEPT !.done = @ + 1, !.right = @ /\ SameDisc]
  /\ UNCHANGED <<pc, signal, cancelled, entry, private, stubborn, input, child, told>>

OpticalEnds ==
  /\ child.state = "running" /\ child' = [child EXCEPT !.state = "ended"]
  /\ UNCHANGED <<pc, signal, cancelled, entry, image, private, stubborn, input, told>>

\* The event for the last time, and the exit code.
CollectReader ==
  \/ Interrupted({"collect"}, "remove")
  \/ ~cancelled /\ child.state = "ended" /\ Passes("collect", "sync-capture")

SyncCapture ==
  \/ Ends("sync-capture", "remove", "failure")
  \/ Makes("sync-capture", "size", [image EXCEPT !.durable = TRUE])

CheckSize ==
  \/ Ends("size", "remove", "failure")
  \/ image.done = Size /\ FreeDestination /\ Passes("size", "link-capture")

OpticalLink == GivesName("link-capture", "unlink-capture", "remove")

\* An error here is one like any other, although the image has its name.
UnlinkCapture ==
  IF "partial" \in stubborn THEN Ends("unlink-capture", "remove", "failure")
  ELSE Keeps("unlink-capture", "return", {})

CaptureReturns == Ends("return", "remove", "success")

\* The finally clause; an error of unlink(), which names the file, takes the place of all others.
RemovePartial ==
  /\ Goto("remove", "done")
  /\ private' = private \cap stubborn
  /\ told' = IF private' = {} THEN told ELSE [told EXCEPT !.outcome = "failure", !.leftover = TRUE]
  /\ UNCHANGED <<signal, cancelled, entry, image, stubborn, input, child>>

OpticalWorks ==
  \/ PlanCapture \/ CaptureBegins \/ UnmountDisc \/ LookAgain \/ SpawnOptical \/ RegisterOptical \/ LookAtEvent
  \/ FollowReader \/ CollectReader \/ SyncCapture \/ CheckSize \/ OpticalLink \/ UnlinkCapture
  \/ CaptureReturns \/ RemovePartial

OpticalChildWorks == OpticalWrites \/ OpticalEnds

\* The disc stays in the drive once the last look was taken.
OpticalEnvironment ==
  \/ SomebodyCreates \/ Killed \/ PowerLost({"unlink-capture", "return", "remove"})
  \/ pc \in {"idle", "planned", "unmount", "look"} /\ InputChanges

OpticalNext == OpticalWorks \/ OpticalChildWorks \/ CancelSets \/ Cancels \/ OpticalEnvironment

-----------------------------------------------------------------------------
ContainerNames == {"output", "directory"}
ContainerInit == PublisherInit({"library", "decoder"}, ContainerNames) /\ entry = "absent"

\* A check of the cancellation, or an error, while the source is open.
ContainerFails(steps) == Interrupted(steps, "container-finally")

\* The bounds, the expectations, the root and its free space.
ContainerBegins == Interrupted({"idle"}, "done") \/ (~cancelled /\ Passes("idle", "open"))

\* The descriptor stays open; its identity is that of the confirmed source.
OpenContainer ==
  ContainerFails({"open"}) \/ (~cancelled /\ input = "bound" /\ Keeps("open", "name", {"source"}))

\* The decoded name, and the format that its suffix stands for.
NameContainer == ContainerFails({"name"}) \/ (~cancelled /\ input = "bound" /\ Passes("name", "stage"))

MakeStage ==
  \/ Ends("stage", "container-finally", "failure")
  \/ Keeps("stage", "create", private \cup {"directory"})
CreateOutput ==
  \/ Ends("create", "container-finally", "failure")
  \/ Keeps("create", "decode", private \cup {"output", "descriptor"})

\* ImageSource._open: a library reads the descriptor, or a child inherits it.
OpenLibrary == child.task = "library" /\ ~cancelled /\ input = "bound" /\ Passes("decode", "read-block")
StartDecoder ==
  /\ child.task = "decoder" /\ ~cancelled /\ input = "bound"
  /\ \E killable \in BOOLEAN :
       HasChild("decode", "read-block", [child EXCEPT !.state = "running", !.killable = killable])

\* A block in hand is one of the bound source, or of what took its place.
GivesBlock == image.done < Size /\ Makes("read-block", "block", [image EXCEPT !.bound = input = "bound"])

ReadLibrary ==
  /\ child.task = "library"
  /\ \/ GivesBlock
     \/ Interrupted({"read-block"}, "stop-decoder")
     \/ image.done = Size /\ input = "bound" /\ Passes("read-block", "sync-output")

\* The reader of the pipe looks at the cancellation each time it has waited a moment, and
\* the end of the pipe is the end of the child, or only of its output.
ReadPipe ==
  /\ child.task = "decoder"
  /\ \/ cancelled /\ Ends("read-block", "stop-decoder", "cancelled")
     \/ (child.state # "running" \/ image.done = Size) /\ Passes("read-block", "exit-status")

DecoderGives == child.state = "running" /\ GivesBlock

\* A decoder that fails has written less than everything, or something wrong.
DecoderEnds ==
  /\ child.state = "running"
  /\ \/ child' = [child EXCEPT !.state = "ended"] /\ image.done = Size /\ UNCHANGED image
     \/ child' = [child EXCEPT !.state = "failed"] /\ image' = [image EXCEPT !.right = FALSE]
  /\ UNCHANGED <<pc, signal, cancelled, entry, private, stubborn, input, told>>

\* After each read: the cancellation, the source, the limit, the free space.
WriteBlock ==
  \/ Interrupted({"block"}, "stop-decoder")
  \/ /\ ~cancelled /\ input = "bound"
     /\ Makes("block", "read-block", [image EXCEPT !.done = @ + 1, !.right = @ /\ image.bound])

\* A bounded wait for the end of the child, its status, and the source.
DecoderStatus ==
  \/ Ends("exit-status", "stop-decoder", "failure")
  \/ child.state = "ended" /\ input = "bound" /\ Passes("exit-status", "sync-output")

\* terminate(), kill(), and no word of a child that survives both.
StopDecoder == HasChild("stop-decoder", "container-finally", Stopped(child))

\* The file is durable, and bound as it is now.
SyncOutput ==
  \/ ContainerFails({"sync-output"})
  \/ ~cancelled /\ Makes("sync-output", "reopen", [image EXCEPT !.durable = TRUE, !.bound = TRUE])

ReopenOutput == ContainerFails({"reopen"}) \/ (image.bound /\ Passes("reopen", "describe"))

\* qemu-img info, for a limited time.
DescribeOutput == HasChild("describe", "described", [child EXCEPT !.state = "asking"])
DescriptionComes ==
  /\ child.state = "asking" /\ child' = [child EXCEPT !.state = "answered"]
  /\ UNCHANGED <<pc, signal, cancelled, entry, image, private, stubborn, input, told>>

\* The private file by descriptor and by path, the source, the format and the size.
RecheckContainer ==
  \/ ContainerFails({"described"})
  \/ /\ child.state = "answered" /\ ~cancelled /\ image.bound /\ input = "bound"
     /\ Passes("described", "give")

GiveContainer ==
  /\ Goto("give", "given") /\ entry' = "ours"
  /\ UNCHANGED <<signal, cancelled, image, private, stubborn, input, child, told>>
ContainerReturns == Ends("given", "container-finally", "success")

\* _cleanup_stage says nothing of what it cannot remove.
Remaining ==
  LET output == private \cap stubborn \cap {"output"}
  IN output \cup {n \in private \cap {"directory"} : output # {} \/ n \in stubborn}

ContainerFinally ==
  Keeps("container-finally", "done", IF told.outcome = "success" THEN private \ {"source"} ELSE Remaining)

\* PreparedCompressedVirtualDisk.close(), which the workflow calls.
CloseContainer == "descriptor" \in private /\ Keeps("done", "done", Remaining)

ContainerWorks ==
  \/ ContainerBegins \/ OpenContainer \/ NameContainer \/ MakeStage \/ CreateOutput
  \/ OpenLibrary \/ StartDecoder \/ ContainerFails({"decode"}) \/ ReadLibrary \/ ReadPipe \/ WriteBlock
  \/ DecoderStatus \/ StopDecoder \/ SyncOutput \/ ReopenOutput \/ DescribeOutput \/ RecheckContainer
  \/ GiveContainer \/ ContainerReturns \/ ContainerFinally

ContainerChildWorks == DecoderGives \/ DecoderEnds \/ DescriptionComes

ContainerEnvironment ==
  CloseContainer \/ InputChanges \/ Killed \/ FileChanges({"reopen", "describe", "described"})

ContainerNext == ContainerWorks \/ ContainerChildWorks \/ CancelSets \/ Cancels \/ ContainerEnvironment
=============================================================================
