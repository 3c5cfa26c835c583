------------------------------- MODULE IsoStaging -------------------------------
(***************************************************************************)
(* IsoStagingExecutor of isopropyl/iso_staging.py and, as the operation it *)
(* runs, SafeIsoExtractor of isopropyl/extraction.py: the tree of an ISO   *)
(* is extracted member by member into a private directory, transformed by  *)
(* further operations (the WIM splitter, the WIM extractor), compared with *)
(* the plan, and renamed to the destination in one step.  The executor and *)
(* each operation have an event of their own.                              *)
(*                                                                         *)
(* Wim...: the two later operations by themselves, WimSplitExecutor and    *)
(* WimExtractExecutor of isopropyl/wim.py.  A bounded wimlib-imagex works  *)
(* in a private directory, which then gets the requested name.             *)
(***************************************************************************)
EXTENDS Publisher

Names == {"root"}
Init == PublisherInit({"extract"}, Names)

StageBegins ==
  \/ Interrupted({"idle"}, "done")
  \/ ~cancelled /\ entry # "absent" /\ Ends("idle", "done", "failure")
  \/ ~cancelled /\ entry = "absent" /\ Keeps("idle", "activate", {"root"})

\* _set_active: what is registered after cancel() is cancelled here.
Activate ==
  IF cancelled THEN Ends("activate", "finally", "cancelled")
  ELSE HasChild("activate", "operate", [child EXCEPT !.known = TRUE])

\* The operation: its own event, the identity of the ISO, and a child per member.
OperationStarts ==
  \/ child.heard /\ Ends("operate", "finally", "cancelled")
  \/ Ends("operate", "finally", "failure")
  \/ ~child.heard /\ (child.task = "extract" => input = "bound")
       /\ HasChild("operate", "adopt", [child EXCEPT !.state = "running"])

\* From here on the operation's cancel() finds the child.
AdoptChild == Passes("adopt", "stream")

\* The pipes are polled, the event before each poll; the child is stopped on the way out.
StreamMember ==
  \/ /\ child.heard /\ Goto("stream", "finally")
     /\ told' = [told EXCEPT !.outcome = "cancelled"] /\ child' = Stopped(child)
     /\ UNCHANGED <<signal, cancelled, entry, image, private, stubborn, input>>
  \/ /\ child.state # "running" /\ ~child.heard
     /\ \/ Ends("stream", "finally", "failure")
        \/ child.state = "ended" /\ Passes("stream", "deactivate")

\* The child ends; what it read of an ISO that was replaced is not the ISO's.
ChildEnds ==
  /\ child.state = "running"
  /\ child' = [child EXCEPT !.state = "ended"]
  /\ image' = IF child.task = "extract"
                THEN [image EXCEPT !.done = Size - 1, !.right = input = "bound"]
                ELSE image
  /\ UNCHANGED <<pc, signal, cancelled, entry, private, stubborn, input, told>>

\* The operation returned.
Deactivate == HasChild("deactivate", "compare", [child EXCEPT !.known = FALSE])

\* The event, then the ISO's identity and the catalog, or the WIM's after a split.
CompareResult ==
  \/ Interrupted({"compare"}, "finally")
  \/ /\ ~cancelled
     /\ \/ child.task = "extract" /\ input = "bound" /\ Passes("compare", "embedded")
        \/ child.task = "bootex" /\ Passes("compare", "replace")
        \/ child.task = "split" /\ Makes("compare", "answer", [image EXCEPT !.done = Size])

\* The transforms without a child: each looks at the event and at what it binds.
Transforms(from, to) ==
  Interrupted({from}, "finally") \/ (~cancelled /\ Passes(from, to))

ExpandEmbedded == Transforms("embedded", "overlay")
AddOverlay == Transforms("overlay", "syslinux")
PlaceSyslinux == Transforms("syslinux", "inspect")

\* The image index was chosen for this WIM: its identity is bound from now on.
InspectEditions ==
  Interrupted({"inspect"}, "finally") \/ (~cancelled /\ Makes("inspect", "bootex", [image EXCEPT !.bound = TRUE]))

\* An operation is a new object, with an event of its own.
NewOperation(from, task) == HasChild(from, "activate", [NoChild EXCEPT !.task = task])

ExtractBootEx == Transforms("bootex", "split") \/ (~cancelled /\ NewOperation("bootex", "bootex"))
ReplaceBootFiles == Transforms("replace", "split")

\* The WIM is split, its parts take its place; or it stays.
SplitWim == Transforms("split", "answer") \/ (~cancelled /\ image.bound /\ NewOperation("split", "split"))

AddAnswer ==
  \/ Interrupted({"answer"}, "finally")
  \/ ~cancelled /\ (child.task = "split" \/ image.bound) /\ Makes("answer", "scan", [image EXCEPT !.done = Size])

\* The scan of the final tree, the identities once more, the private manifest.
ScanTree ==
  \/ Interrupted({"scan"}, "finally")
  \/ ~cancelled /\ input = "bound" /\ (child.task = "split" \/ image.bound) /\ Passes("scan", "publish")

CheckDestination ==
  \/ Interrupted({"publish"}, "finally")
  \/ ~cancelled /\ entry = "absent" /\ Passes("publish", "rename")

Rename == GivesName("rename", "sync-parent", "finally")

\* Publication is the commit point: from here on cancellation is not looked at.
SyncParent == Passes("sync-parent", "receipt") \/ Ends("sync-parent", "finally", "failure")

\* The manifest of the tree under its final name.
CompareManifest == Ends("receipt", "finally", "success") \/ Ends("receipt", "finally", "failure")

\* The finally clause; an error of rmtree() takes the place of every other outcome.
RemovePrivate ==
  /\ Goto("finally", "done")
  /\ private' = private \cap stubborn
  /\ told' = IF private' = {} THEN told ELSE [told EXCEPT !.outcome = "failure", !.leftover = TRUE]
  /\ child' = [child EXCEPT !.known = FALSE]
  /\ UNCHANGED <<signal, cancelled, entry, image, stubborn, input>>

\* cancel() of the operation that was found: its event, then its child.
CancelOperation ==
  /\ signal = "stop" /\ signal' = "done"
  /\ child' = IF ~child.known THEN child
              ELSE IF pc = "stream" THEN [Stopped(child) EXCEPT !.heard = TRUE]
              ELSE [child EXCEPT !.heard = TRUE]
  /\ UNCHANGED <<pc, cancelled, entry, image, private, stubborn, input, told>>

Works ==
  \/ StageBegins \/ Activate \/ OperationStarts \/ AdoptChild \/ StreamMember \/ Deactivate
  \/ CompareResult \/ ExpandEmbedded \/ AddOverlay \/ PlaceSyslinux \/ InspectEditions
  \/ ExtractBootEx \/ ReplaceBootFiles \/ SplitWim \/ AddAnswer \/ ScanTree \/ CheckDestination \/ Rename \/ SyncParent \/ CompareManifest
  \/ RemovePrivate

ChildWorks == ChildEnds
CancelGoesOn == CancelReads \/ CancelOperation
\* Another process changes the WIM whose edition the user chose.
Tampers ==
  FileChanges({"bootex", "replace", "split"} \cup IF child.task = "split" THEN {} ELSE {"answer", "scan"})

Environment == SomebodyCreates \/ InputChanges \/ Tampers \/ Killed

Next == Works \/ ChildWorks \/ CancelSets \/ CancelGoesOn \/ Environment

-----------------------------------------------------------------------------
WimNames == {"staging"}
WimInit == PublisherInit({"split", "extract"}, WimNames)

\* The WIM is bound, and the destination must not be there.
PlanSplit == child.task = "split" /\ input = "bound" /\ entry = "absent" /\ Passes("idle", "planned")
PlanExtract == child.task = "extract" /\ input = "bound" /\ entry = "absent" /\ Passes("idle", "planned")
PlanRefused == Ends("idle", "done", "failure")

\* The plan once more, and the WIM by path and by the descriptor that the child inherits.
OpenWim == ~cancelled /\ input = "bound" /\ Passes("planned", "make")
ExecuteRefused == Interrupted({"planned"}, "done")

MakeStaging ==
  \/ Ends("make", "wim-finally", "failure")
  \/ entry = "absent" /\ Keeps("make", "command", WimNames)

\* run_bounded_command: from the registration on, cancel() finds the child.
StartWim ==
  \/ Interrupted({"command"}, "wim-finally")
  \/ ~cancelled /\ \E killable \in BOOLEAN :
       HasChild("command", "register", [child EXCEPT !.state = "running", !.killable = killable])
RegisterWim == HasChild("register", "readers", [child EXCEPT !.known = TRUE])

StartReaders == Passes("readers", "poll") \/ Ends("readers", "give-up", "failure")

\* A failure that is met at this moment; _stop_process has a limit, and may itself fail.
Meets(from, to) ==
  \E outcome \in {"failure"} \cup IF cancelled THEN {"cancelled"} ELSE {} : Ends(from, to, outcome)

\* The child, the event, too much output, the clock.
PollWim ==
  IF child.state # "running" THEN Passes("poll", "join") ELSE pc = "poll" /\ Meets("poll", "stop")

StopsWim(from, to) ==
  /\ Goto(from, IF Stopped(child).state = "running" THEN "wim-finally" ELSE to)
  /\ child' = Stopped(child)
  /\ told' = IF Stopped(child).state = "running" THEN [told EXCEPT !.outcome = "failure"] ELSE told
  /\ UNCHANGED <<signal, cancelled, entry, image, private, stubborn, input>>

StopWim == StopsWim("stop", "join") \/ StopsWim("give-up", "wim-finally")

\* The pipes are read to their end, and the event is looked at a last time.
JoinReaders ==
  \/ Ends("join", "wim-finally", "failure")
  \/ cancelled /\ Ends("join", "wim-finally", "cancelled")
  \/ ~cancelled /\ told.outcome # "none" /\ Passes("join", "wim-finally")
  \/ ~cancelled /\ told.outcome = "none" /\ HasChild("join", "exit-code", [child EXCEPT !.known = FALSE])

\* wimlib-imagex reads the WIM that is there; it may fail, or end without every file.
WimChildEnds ==
  /\ child.state = "running"
  /\ \E state \in {"ended", "failed"}, done \in 0..Size :
       /\ child' = [child EXCEPT !.state = state]
       /\ image' = [image EXCEPT !.done = done, !.right = input = "bound"]
  /\ UNCHANGED <<pc, signal, cancelled, entry, private, stubborn, input, told>>

\* Its exit status, and the WIM again.
CheckExit ==
  \/ Interrupted({"exit-code"}, "wim-finally")
  \/ ~cancelled /\ child.state = "ended" /\ input = "bound" /\ Passes("exit-code", "tree")

\* A complete sequence of parts, or every path that was asked for; each file is made durable.
ValidateParts == child.task = "split" /\ image.done = Size /\ Makes("tree", "directory", [image EXCEPT !.durable = TRUE])
ValidateTree == child.task = "extract" /\ image.done = Size /\ Makes("tree", "directory", [image EXCEPT !.durable = TRUE])

TreeRefused == Ends("tree", "wim-finally", "failure")

CheckNewDirectory ==
  \/ Interrupted({"directory"}, "wim-finally")
  \/ ~cancelled /\ entry = "absent" /\ Passes("directory", "move")

\* The commit point.  rename(2) refuses whatever appeared meanwhile, but an empty directory.
MoveStaging ==
  /\ Goto("move", IF entry = "absent" THEN "parent" ELSE "wim-finally")
  /\ IF entry = "absent"
       THEN entry' = "ours" /\ private' = {} /\ UNCHANGED told
       ELSE told' = [told EXCEPT !.outcome = "failure"] /\ UNCHANGED <<entry, private>>
  /\ UNCHANGED <<signal, cancelled, image, stubborn, input, child>>

SyncWimParent == Ends("parent", "wim-finally", "success") \/ Ends("parent", "wim-finally", "failure")

\* The finally clause: a child that cannot be stopped keeps its directory, and either
\* error takes the place of every other outcome.
WimFinally ==
  /\ Goto("wim-finally", "done")
  /\ child' = IF child.known THEN [Stopped(child) EXCEPT !.known = FALSE] ELSE child
  /\ private' = IF child'.state = "running" THEN private ELSE private \cap stubborn
  /\ told' = IF private' = {} THEN told ELSE [told EXCEPT !.outcome = "failure"]
  /\ UNCHANGED <<signal, cancelled, entry, image, stubborn, input>>

WimWorks ==
  \/ PlanSplit \/ PlanExtract \/ PlanRefused \/ OpenWim \/ ExecuteRefused \/ MakeStaging
  \/ StartWim \/ RegisterWim \/ StartReaders \/ PollWim \/ StopWim \/ JoinReaders \/ CheckExit
  \/ ValidateParts \/ ValidateTree \/ TreeRefused \/ CheckNewDirectory \/ MoveStaging
  \/ SyncWimParent \/ WimFinally

WimEnvironment == SomebodyCreates \/ InputChanges \/ Killed

WimNext == WimWorks \/ WimChildEnds \/ CancelSets \/ Cancels \/ WimEnvironment
=============================================================================
