------------------------------ MODULE RawSnapshot -------------------------------
(***************************************************************************)
(* RawSnapshotBuilder and PreparedRawSnapshot of isopropyl/raw_snapshot.py *)
(* The "name" is the helper's: the anonymous file gets it with the one     *)
(* packet that carries its descriptor.  private holds the open             *)
(* descriptors.  close() can come from another thread while transfer is    *)
(* under way; the lifecycle lock is between them.                          *)
(***************************************************************************)
EXTENDS Publisher

VARIABLE owner  \* the PreparedRawSnapshot, and the thread that calls its close()

snapshotVars == <<publisherVars, owner>>

Nobody == [state |-> "none", holds |-> FALSE, lock |-> "free", closer |-> "idle", misclosed |-> FALSE]

Tasks == {"file", "stream", "materialize"}

Init ==
  /\ PublisherInit(Tasks, {}) /\ entry = "absent"
  /\ owner = Nobody

\* The steps of the builder leave the owner alone.
Builder(step) == step /\ UNCHANGED owner

Unchanged == ~cancelled /\ input = "bound"

\* A plan is made of a file that is opened by its path, or of a source that is open; it
\* binds the selected source, the private workspace and the devices of the target.
BuildFilePlan == child.task = "file" /\ input = "bound" /\ Passes("idle", "planned")

\* The profile is that of the open source: plain, compressed, VTSI, or a virtual disk.
MatchProfile == child.task # "file" /\ ~cancelled /\ Passes("idle", "profile")
BindOuterSource == Unchanged /\ Passes("profile", "outer")
BuildBoundPlan == input = "bound" /\ Passes("outer", "planned")

CheckPlanShape == Passes("planned", "validate")

\* Everything is bound again when the plan is used, and once more when it is opened.
ValidatePlan == input = "bound" /\ Passes("validate", "run")

Run == ~cancelled /\ child.task # "materialize" /\ Passes("run", IF child.task = "file" THEN "open" ELSE "workspace")
RunMaterialized == ~cancelled /\ child.task = "materialize" /\ Passes("run", "workspace")

PlanRefused == Interrupted({"idle", "profile", "outer", "planned", "validate", "run"}, "done")

OpenSource == child.task = "file" /\ input = "bound" /\ Keeps("open", "workspace", {"source"})
OpenWorkspace == Keeps("workspace", "residence", private \cup {"workspace"})
RequireNonresident == input = "bound" /\ Passes("residence", "create")

OpenRefused == Interrupted({"open", "workspace", "residence", "create"}, "close-all")

\* O_TMPFILE and the exclusive lock; the blocks are allocated now, or after the callback.
WithSnapshot(task, to) == child.task = task /\ Keeps("create", to, private \cup {"snapshot"})

CreateForFile == ~cancelled /\ WithSnapshot("file", "copy")
CreateForStream == Unchanged /\ WithSnapshot("stream", "copy")
CreateForCallback == Unchanged /\ WithSnapshot("materialize", "callback")

InHand == [image EXCEPT !.bound = input = "bound"]

\* The builder reads its own source, or takes a chunk of the decoder.
ReadBlock == child.task = "file" /\ ~cancelled /\ image.done < Size /\ Makes("copy", "check", InHand)
NextChunk == child.task = "stream" /\ ~cancelled /\ image.done < Size /\ Makes("copy", "check", InHand)

\* No byte obtained after a change of the source reaches the snapshot.
WritesBlock ==
  input = "bound" /\ ~cancelled
    /\ Makes("check", "copy", [image EXCEPT !.done = @ + 1, !.right = @ /\ image.bound])

WriteCopied == child.task = "file" /\ WritesBlock
WriteDecoded == child.task = "stream" /\ WritesBlock

CopyRefused == Interrupted({"copy", "check"}, "close-all")

CopyEnds == child.task = "file" /\ image.done = Size /\ input = "bound" /\ Passes("copy", "sync")
StreamEnds == child.task = "stream" /\ image.done = Size /\ input = "bound" /\ Passes("copy", "sync")

\* The materializer borrows a duplicate; it may close it, or fail, and has to be heard
\* by check_continuity().
LendDescriptor == ~cancelled /\ input = "bound" /\ Keeps("callback", "materialize", private \cup {"callback"})

MaterializerCloses ==
  "callback" \in private /\ Keeps("returned", "returned", private \ {"callback"})

\* What is still the snapshot's own file is closed; anything else under that number is not.
MaterializerReturns ==
  IF "callback" \in private THEN Keeps("returned", "continuity", private \ {"callback"})
                            ELSE Ends("returned", "close-all", "failure")

MaterializerFails == Interrupted({"materialize", "returned"}, "borrowed")

CloseBorrowed == Keeps("borrowed", "close-all", private \ {"callback"})

\* Cancellation, source, workspace, topology, the file and its lock; and its length.
CheckContinuity == Unchanged /\ image.done = Size /\ Passes("continuity", "allocate")

AllocateMaterialized == Unchanged /\ Passes("allocate", "sync")

MaterializerRefused == Interrupted({"callback", "continuity", "allocate", "second"}, "close-all")

-----------------------------------------------------------------------------
(* The materializer of a virtual disk: convert_into_descriptor of isopropyl/virtual.py,  *)
(* with two qemu-img children, one that describes the disk and one that converts it.     *)

\* The selected disk and qemu-img, by path and by descriptor.
SameDisk == input = "bound"

\* Both descriptors are the one anonymous file of the caller, with nothing in it yet, or
\* with the whole disk.
AnonymousOutput(size) == {"snapshot", "destination"} \subseteq private /\ image.done = size

BindDisk == ~cancelled /\ SameDisk /\ Keeps("materialize", "inspect", private \cup {"disk", "destination"})

\* _run_info_limited: no more than twenty seconds, and the child may survive them.
AskInfo ==
  AnonymousOutput(0) /\ HasChild("inspect", "info", [child EXCEPT !.state = "asking"])
InfoAnswers ==
  /\ child.state = "asking" /\ child' = [child EXCEPT !.state = "answered"]
  /\ UNCHANGED <<pc, signal, cancelled, entry, image, private, stubborn, input, told>>
RunInfoLimited == Interrupted({"info"}, "converted")

\* The format and the size are those of the inspection.
SameDescription ==
  /\ child.state = "answered" /\ AnonymousOutput(0) /\ ~cancelled /\ SameDisk
  /\ HasChild("info", "spawn", [child EXCEPT !.state = "none"])

SpawnConverter ==
  \/ Ends("spawn", "converted", "failure")
  \/ \E killable \in BOOLEAN :
       HasChild("spawn", "register", [child EXCEPT !.state = "running", !.killable = killable])

\* From here on cancel() finds the child.
RegisterConverter == HasChild("register", "watch", [child EXCEPT !.known = TRUE])

\* qemu-img gives the anonymous file its length first, through its own copy of the
\* descriptor; the contents are those of the disk when it has ended well.
ConverterSizes ==
  /\ child.state = "running" /\ child.task = "materialize" /\ image.done = 0
  /\ image' = [image EXCEPT !.done = Size, !.right = FALSE]
  /\ UNCHANGED <<pc, signal, cancelled, entry, private, stubborn, input, child, told>>

ConverterExits ==
  /\ child.state = "running" /\ child.task = "materialize"
  /\ \/ child' = [child EXCEPT !.state = "ended"]
        /\ image' = [image EXCEPT !.right = image.done = Size /\ SameDisk]
     \/ child' = [child EXCEPT !.state = "failed"] /\ UNCHANGED image
  /\ UNCHANGED <<pc, signal, cancelled, entry, private, stubborn, input, told>>

\* A reading thread that gets too much output terminates the child.
TooMuchOutput ==
  /\ child.state = "running" /\ child.task = "materialize" /\ child.known
  /\ child' = Stopped(child)
  /\ UNCHANGED <<pc, signal, cancelled, entry, image, private, stubborn, input, told>>

\* The loop of the worker: the child has ended, the event is set, or nothing was heard of
\* the child for too long.
StopProcess(to) == HasChild("watch", to, Stopped(child))
WatchConverter ==
  \/ child.state # "running" /\ Passes("watch", "collect")
  \/ cancelled /\ StopProcess("collect")
  \/ child.state = "running" /\ StopProcess("stalled")
GiveUp == Ends("stalled", "converted", "failure")

\* wait() without a limit.
Collect == child.state # "running" /\ Passes("collect", "verdict")

Verdict ==
  \/ Interrupted({"verdict"}, "converted")
  \/ ~cancelled /\ child.state = "ended" /\ SameDisk /\ AnonymousOutput(Size) /\ Passes("verdict", "converted")

\* The finally clause.
CloseConversion ==
  /\ Goto("converted", IF told.outcome = "none" THEN "returned" ELSE "borrowed")
  /\ child' = [Stopped(child) EXCEPT !.known = FALSE]
  /\ private' = private \ {"disk", "destination"}
  /\ UNCHANGED <<signal, cancelled, entry, image, stubborn, input, told>>

Converts ==
  \/ BindDisk \/ AskInfo \/ RunInfoLimited \/ SameDescription \/ SpawnConverter \/ RegisterConverter
  \/ WatchConverter \/ GiveUp \/ Collect \/ Verdict \/ CloseConversion

ConverterWorks == InfoAnswers \/ ConverterSizes \/ ConverterExits \/ TooMuchOutput

-----------------------------------------------------------------------------
(* The snapshot is complete. *)

SyncSnapshot ==
  \/ Interrupted({"sync"}, "close-all")
  \/ ~cancelled /\ Makes("sync", "attest", [image EXCEPT !.durable = TRUE])

AttestRefused == Interrupted({"attest"}, "close-all")

\* The digest is kept: of what is right, or of what is not.
Attests(from, to) == HasChild(from, to, [child EXCEPT !.heard = image.right])
SameDigest == image.done = Size /\ image.right = child.heard

\* The complete read-back, compared with what was copied, and the source once more.
AttestCopy == child.task = "file" /\ ~cancelled /\ image.right /\ input = "bound" /\ Attests("attest", "hand-over")
AttestStream == child.task = "stream" /\ Unchanged /\ image.right /\ Attests("attest", "hand-over")

\* What a callback wrote has no digest: it is read back twice, and compared with itself.
FirstReadBack == child.task = "materialize" /\ Unchanged /\ Attests("attest", "second")
SecondReadBack == Unchanged /\ SameDigest /\ Attests("second", "hand-over")

HandOver ==
  /\ Goto("hand-over", "ready")
  /\ owner' = [owner EXCEPT !.state = "ready", !.holds = TRUE]
  /\ private' = {"snapshot"}
  /\ UNCHANGED <<signal, cancelled, entry, image, stubborn, input, child, told>>

CloseAll == Keeps("close-all", "done", {})

-----------------------------------------------------------------------------
(* _duplicate_for_transfer and transfer_to_helper. *)

TransferLocks ==
  /\ owner.lock = "free" /\ owner' = [owner EXCEPT !.lock = "worker"]
  /\ Passes("ready", "duplicate")

Release(o) == [o EXCEPT !.lock = "free"]

NotTransferable ==
  owner.state # "ready" /\ Ends("duplicate", "done", "failure") /\ owner' = Release(owner)

Duplicate ==
  owner.state = "ready" /\ owner.holds
    /\ Keeps("duplicate", "rehash", private \cup {"duplicate"}) /\ UNCHANGED owner

\* One close(): of a descriptor that is open, or of a number that is no longer this file's.
Closes(o, has) == [o EXCEPT !.holds = FALSE, !.misclosed = @ \/ (has /\ "snapshot" \notin private)]

\* Everything between dup() and the verdict, then the poisoned owner.
RehashFails ==
  /\ Goto("rehash", "done")
  /\ private' = {}
  /\ owner' = Release([Closes(owner, owner.holds) EXCEPT !.state = "poisoned"])
  /\ \E outcome \in {"failure"} \cup IF cancelled THEN {"cancelled"} ELSE {} :
       told' = [told EXCEPT !.outcome = outcome]
  /\ UNCHANGED <<signal, cancelled, entry, image, stubborn, input, child>>

Rehash == ~cancelled /\ SameDigest /\ Passes("rehash", "detach") /\ UNCHANGED owner

\* The original is closed by the number that the owner held; the duplicate goes on.
Detach ==
  /\ Keeps("detach", "send", private \ {"snapshot"})
  /\ owner' = Release([Closes(owner, TRUE) EXCEPT !.state = "transferred"])

SendPacket == GivesName("send", "sent", "sent") /\ UNCHANGED owner
SendFails == Ends("send", "poison", "failure") /\ UNCHANGED owner

PoisonAfterSend ==
  owner.lock = "free" /\ owner' = [owner EXCEPT !.state = "poisoned"] /\ Passes("poison", "sent")

CloseDuplicate ==
  /\ Goto("sent", "done")
  /\ private' = private \ {"duplicate"}
  /\ told' = IF told.outcome = "none" THEN [told EXCEPT !.outcome = "success"] ELSE told
  /\ UNCHANGED <<signal, cancelled, entry, image, stubborn, input, child, owner>>

-----------------------------------------------------------------------------
(* close(), in another thread. *)

Closing(from, to, o) ==
  /\ owner.closer = from /\ owner' = [o EXCEPT !.closer = to]
  /\ UNCHANGED <<pc, signal, cancelled, entry, image, stubborn, input, child, told>>

CloseCalled == owner.state # "none" /\ Closing("idle", "wait", owner) /\ UNCHANGED private

\* Mutation: the lock is not taken.
CloseUnlocked ==
  UNCHANGED private /\ Closing("wait", IF owner.holds THEN "close" ELSE "mark", owner)

CloseLocks ==
  owner.lock = "free" /\ UNCHANGED private
    /\ Closing("wait", IF owner.holds THEN "close" ELSE "mark", [owner EXCEPT !.lock = "closer"])

CloseDescriptor ==
  Closing("close", "mark", Closes(owner, TRUE)) /\ private' = private \ {"snapshot"}

CloseMarks ==
  Closing("mark", "done", [owner EXCEPT !.state = "closed", !.lock = IF @ = "closer" THEN "free" ELSE @])
    /\ UNCHANGED private

BuilderWorks ==
  \/ BuildFilePlan \/ MatchProfile \/ BindOuterSource \/ BuildBoundPlan \/ CheckPlanShape \/ ValidatePlan
  \/ Run \/ RunMaterialized \/ PlanRefused
  \/ OpenSource \/ OpenWorkspace \/ RequireNonresident \/ OpenRefused
  \/ CreateForFile \/ CreateForStream \/ CreateForCallback
  \/ ReadBlock \/ NextChunk \/ WriteCopied \/ WriteDecoded \/ CopyRefused \/ CopyEnds \/ StreamEnds
  \/ LendDescriptor \/ Converts \/ MaterializerReturns \/ MaterializerFails \/ CloseBorrowed
  \/ CheckContinuity \/ AllocateMaterialized \/ MaterializerRefused
  \/ SyncSnapshot \/ AttestRefused \/ AttestCopy \/ AttestStream \/ FirstReadBack \/ SecondReadBack
  \/ CloseAll

Works ==
  \/ Builder(BuilderWorks) \/ HandOver \/ TransferLocks \/ NotTransferable \/ Duplicate
  \/ RehashFails \/ Rehash \/ Detach \/ SendPacket \/ SendFails \/ PoisonAfterSend
  \/ CloseDuplicate

CloseGoesOn == CloseLocks \/ CloseDescriptor \/ CloseMarks

\* A storage that does not return what was written; what a materializer wrote has no
\* digest before the read-back.
StorageErrs ==
  FileChanges({"ready", "duplicate"} \cup IF child.task = "materialize" THEN {"second"} ELSE {"copy", "check", "sync"})

Environment == Builder(InputChanges \/ StorageErrs \/ MaterializerCloses \/ ConverterWorks)

Next == Works \/ CloseCalled \/ CloseGoesOn \/ Builder(CancelSets \/ Cancels) \/ Environment
=============================================================================
