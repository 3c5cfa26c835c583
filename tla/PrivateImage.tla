------------------------------ MODULE PrivateImage ------------------------------
(***************************************************************************)
(* The private FAT32 image: the plan of private_fat32.py, its builder, the *)
(* patches of windows_iso_fat32.py, syslinux_iso_fat32.py (with            *)
(* syslinux_transaction.py) and grub_rescue.py, and the owner that sends   *)
(* it.  child.task is the profile, "vm" a Windows image that is reopened   *)
(* for a virtual machine.  The name is the receiver's; the blocks are the  *)
(* files of the tree and, last, the boot code.  image.bound says that what *)
(* was read is what was planned, and later that nobody has written to the  *)
(* image since it was inspected; owner.attested, what its digest is of.    *)
(***************************************************************************)
EXTENDS Publisher

VARIABLE owner  \* the AnonymousFat32Image, and the thread that calls its close()

imageVars == <<publisherVars, owner>>

NoImage == [state |-> "none", holds |-> FALSE, attested |-> TRUE, lock |-> "free", closer |-> "idle",
            misclosed |-> FALSE, readable |-> TRUE, misread |-> FALSE]

Volume == INSTANCE FatImage

Tasks == {"windows", "syslinux", "grub", "vm"}

Init ==
  /\ PublisherInit(Tasks, {}) /\ entry = "absent"
  /\ \E readable \in Volume!Readings(IF child.task = "vm" THEN "windows" ELSE child.task) :
       owner = [NoImage EXCEPT !.readable = readable]

-----------------------------------------------------------------------------
(* The plan: the tree is scanned, hashed and scanned again. *)

Building(step) == step /\ UNCHANGED owner

Unchanged == ~cancelled /\ input = "bound"

PlanRefused == Interrupted({"idle", "hash", "rescan", "bind", "revalidate"}, "done")

BindTree == Unchanged /\ Passes("idle", "hash")
HashTree == ~cancelled /\ Passes("hash", "rescan")
RescanTree == Unchanged /\ Passes("rescan", "bind")
BindPlan == Unchanged /\ Passes("bind", "revalidate")

\* The complete tree once more, before the first byte is written.
RevalidatePlan == Unchanged /\ Passes("revalidate", "create")

-----------------------------------------------------------------------------
(* PrivateFat32Builder.execute. *)

Construction == {"create", "metadata", "copy", "digest", "rescan-tree", "sync", "read-back", "zeros", "inspect", "hash-image"}

CreateImage == ~cancelled /\ Keeps("create", "metadata", {"workspace", "image"})

WriteMetadata == ~cancelled /\ Passes("metadata", "copy")

CopyFile ==
  ~cancelled /\ image.done < Size - 1 /\ Makes("copy", "digest", [image EXCEPT !.bound = input = "bound"])

\* The digest of what was copied is the one of the plan.
DigestAgrees == image.bound /\ Makes("digest", "copy", [image EXCEPT !.done = @ + 1])

CopyEnds == image.done = Size - 1 /\ Passes("copy", "rescan-tree")

TreeUnchanged == input = "bound" /\ Passes("rescan-tree", "sync")

SyncImage == Makes("sync", "read-back", [image EXCEPT !.durable = TRUE])

MetadataReadBack == Passes("read-back", "zeros")
ZeroExtents == ~cancelled /\ Passes("zeros", "inspect")

\* The independent parser finds every entry of the plan where it was laid, whatever the
\* size of the image and the names in it, and hashes every file.
Inspect ==
  /\ ~cancelled /\ image.right
  /\ IF owner.readable
       THEN Makes("inspect", "hash-image", [image EXCEPT !.bound = TRUE]) /\ UNCHANGED owner
       ELSE Ends("inspect", "done", "failure") /\ owner' = [owner EXCEPT !.misread = TRUE]

\* The digest is of whatever is there now.
HashImage ==
  /\ ~cancelled
  /\ Keeps("hash-image", "built", private \ {"workspace"})
  /\ owner' = [owner EXCEPT !.state = "unpatched", !.holds = TRUE, !.attested = image.right]

ConstructionFails ==
  /\ pc \in Construction /\ pc' = "done"
  /\ private' = {}
  /\ \E outcome \in {"failure"} \cup IF cancelled THEN {"cancelled"} ELSE {} :
       told' = [told EXCEPT !.outcome = outcome]
  /\ UNCHANGED <<signal, cancelled, entry, image, stubborn, input, child, owner>>

-----------------------------------------------------------------------------
(* The patch, under the lifecycle lock from its beginning to its end. *)

Patching == {"built", "preimage", "rebuild", "patch", "activate", "attest", "reinspect", "final-hash"}

BeginPatch ==
  /\ ~cancelled /\ owner.state = "unpatched" /\ owner.lock = "free"
  /\ owner' = [owner EXCEPT !.state = "patching", !.lock = "worker"]
  /\ Passes("built", "preimage")

Is(profiles) == child.task \in profiles

\* The complete image is still the one that was built; a transaction looks twice.
StillBuilt == ~cancelled /\ image.right = owner.attested

WindowsPreimage == Is({"windows", "vm"}) /\ StillBuilt /\ Building(Passes("preimage", "patch"))
SyslinuxPreimage == Is({"syslinux"}) /\ StillBuilt /\ Building(Passes("preimage", "rebuild"))
SyslinuxRebuilt == StillBuilt /\ Building(Passes("rebuild", "patch"))
GrubPreimage == Is({"grub"}) /\ StillBuilt /\ Building(Passes("preimage", "patch"))

\* Everything but sector zero, then sector zero; each record is compared before it is
\* written and read back after.  A Syslinux transaction that has begun is not interrupted.
PatchRecords == Building(Makes("patch", "activate", [image EXCEPT !.bound = FALSE]))
PatchMbr == Building(Makes("activate", "attest", [image EXCEPT !.done = Size, !.bound = FALSE]))

WindowsRecords == Is({"windows", "vm"}) /\ ~cancelled /\ PatchRecords
WindowsMbr == Is({"windows", "vm"}) /\ ~cancelled /\ PatchMbr
SyslinuxRecords == Is({"syslinux"}) /\ PatchRecords
SyslinuxMbr == Is({"syslinux"}) /\ PatchMbr
GrubCore == Is({"grub"}) /\ ~cancelled /\ PatchRecords
GrubMbr == Is({"grub"}) /\ ~cancelled /\ PatchMbr

\* The independent parser finds the tree that was built, and binds the result to its times.
Inspected(from) == image.right /\ Building(Makes(from, "final-hash", [image EXCEPT !.bound = TRUE]))

WindowsAttested == Is({"windows", "vm"}) /\ ~cancelled /\ Inspected("attest")

\* The transaction's own digest, before anybody asks for a cancellation again.
SyslinuxVerified == Is({"syslinux"}) /\ image.right /\ Building(Passes("attest", "reinspect"))
SyslinuxAttested == ~cancelled /\ Inspected("reinspect")

\* An active GRUB image is read to its end before a cancellation is heard.
GrubAttested == Is({"grub"}) /\ Inspected("attest")

\* Windows and Syslinux know the digest in advance; GRUB takes what it reads.
DigestIsExpected == Is({"grub"}) \/ (image.right /\ image.bound)

FinalHash ==
  /\ ~cancelled /\ DigestIsExpected
  /\ owner' = [owner EXCEPT !.state = "patched", !.attested = image.right, !.lock = "free"]
  /\ Passes("final-hash", "ready")

\* One close() of the owner's descriptor.
Closes(o) == [o EXCEPT !.holds = FALSE, !.misclosed = @ \/ (o.holds /\ "image" \notin private)]

Poisons(o) == [Closes(o) EXCEPT !.state = "poisoned", !.lock = "free"]

PatchFails ==
  /\ pc \in Patching /\ pc' = "done"
  /\ private' = {} /\ owner' = Poisons(owner)
  /\ \E outcome \in {"failure"} \cup IF cancelled THEN {"cancelled"} ELSE {} :
       told' = [told EXCEPT !.outcome = outcome]
  /\ UNCHANGED <<signal, cancelled, entry, image, stubborn, input, child>>

-----------------------------------------------------------------------------
(* _duplicate_attested_descriptor and its two users. *)

DuplicateLocks ==
  owner.lock = "free" /\ owner' = [owner EXCEPT !.lock = "worker"] /\ Passes("ready", "duplicate")

NotAttested ==
  /\ owner.state # "patched" /\ Ends("duplicate", "close", "failure")
  /\ owner' = [owner EXCEPT !.lock = "free"]

Duplicate ==
  owner.state = "patched" /\ Building(Keeps("duplicate", "rehash", private \cup {"duplicate"}))

StillAttested == image.right = owner.attested /\ image.bound

Rehash ==
  /\ ~cancelled /\ StillAttested
  /\ Passes("rehash", IF child.task = "vm" THEN "reopen" ELSE "send")
  /\ owner' = IF child.task = "vm" THEN owner ELSE [owner EXCEPT !.lock = "free"]

\* The image was changed: nobody shall have it.
Discard(from) ==
  /\ Goto(from, "close") /\ private' = {}
  /\ owner' = Poisons(owner)
  /\ told' = [told EXCEPT !.outcome = "failure"]
  /\ UNCHANGED <<signal, cancelled, entry, image, stubborn, input, child>>

RehashChanged == ~StillAttested /\ Discard("rehash")

\* A cancellation or an I/O error closes the duplicates alone.
RehashInterrupted ==
  /\ pc \in {"rehash", "reopen", "rehash-again"} /\ pc' = "close"
  /\ private' = private \ {"duplicate", "readonly"}
  /\ owner' = [owner EXCEPT !.lock = "free"]
  /\ \E outcome \in {"failure"} \cup IF cancelled THEN {"cancelled"} ELSE {} :
       told' = [told EXCEPT !.outcome = outcome]
  /\ UNCHANGED <<signal, cancelled, entry, image, stubborn, input, child>>

\* A descriptor that cannot write, through /proc; it is hashed for itself.
Reopen == Building(Keeps("reopen", "rehash-again", private \cup {"readonly"}))

RehashAgain ==
  /\ ~cancelled /\ image.right = owner.attested
  /\ Goto("rehash-again", "close") /\ entry' = "ours"
  /\ private' = private \ {"duplicate", "readonly"}
  /\ owner' = [owner EXCEPT !.lock = "free"]
  /\ UNCHANGED <<signal, cancelled, image, stubborn, input, child, told>>

RehashAgainChanged == image.right # owner.attested /\ Discard("rehash-again")

SendPacket == Building(GivesName("send", "sent", "sent"))
SendFails == Building(Ends("send", "sent", "failure"))

CloseDuplicate == Building(Keeps("sent", "close", private \ {"duplicate"}))

\* The with statement, or the workflow that owns the image, closes it.
CloseOwned ==
  /\ owner.lock = "free" /\ Goto("close", "done")
  /\ private' = private \ {"image"}
  /\ owner' = [Closes(owner) EXCEPT !.state = "closed"]
  /\ told' = IF told.outcome = "none" THEN [told EXCEPT !.outcome = "success"] ELSE told
  /\ UNCHANGED <<signal, cancelled, entry, image, stubborn, input, child>>

-----------------------------------------------------------------------------
(* close(), in another thread. *)

Closing(from, to, o) ==
  /\ owner.closer = from /\ owner' = [o EXCEPT !.closer = to]
  /\ UNCHANGED <<pc, signal, cancelled, entry, image, stubborn, input, child, told>>

CloseCalled ==
  owner.state \in {"patched", "poisoned", "closed"} /\ UNCHANGED private /\ Closing("idle", "wait", owner)

CloseLocks ==
  owner.lock = "free" /\ UNCHANGED private /\ Closing("wait", "close", [owner EXCEPT !.lock = "closer"])

CloseDescriptor ==
  /\ Closing("close", "done", [Closes(owner) EXCEPT !.state = "closed", !.lock = "free"])
  /\ private' = private \ {"image"}

CloseGoesOn == CloseLocks \/ CloseDescriptor

-----------------------------------------------------------------------------

BuilderWorks ==
  \/ PlanRefused \/ BindTree \/ HashTree \/ RescanTree \/ BindPlan \/ RevalidatePlan
  \/ CreateImage \/ WriteMetadata \/ CopyFile \/ DigestAgrees \/ CopyEnds \/ TreeUnchanged
  \/ SyncImage \/ MetadataReadBack \/ ZeroExtents

Patches ==
  \/ WindowsPreimage \/ WindowsRecords \/ WindowsMbr \/ WindowsAttested
  \/ SyslinuxPreimage \/ SyslinuxRebuilt \/ SyslinuxRecords \/ SyslinuxMbr \/ SyslinuxVerified \/ SyslinuxAttested
  \/ GrubPreimage \/ GrubCore \/ GrubMbr \/ GrubAttested

Works ==
  \/ Building(BuilderWorks) \/ Inspect \/ HashImage \/ ConstructionFails
  \/ BeginPatch \/ Patches \/ FinalHash \/ PatchFails
  \/ DuplicateLocks \/ NotAttested \/ Duplicate \/ Rehash \/ RehashChanged \/ RehashInterrupted
  \/ Reopen \/ RehashAgain \/ RehashAgainChanged
  \/ SendPacket \/ SendFails \/ CloseDuplicate \/ CloseOwned

\* The image has no name, but a process of the same user could still open it.
SomebodyWrites ==
  FileChanges({"sync", "read-back", "zeros", "inspect", "hash-image", "ready", "duplicate", "reopen"} \cup Patching)

Environment == Building(InputChanges \/ SomebodyWrites)

Next == Works \/ CloseCalled \/ CloseGoesOn \/ Building(CancelSets \/ Cancels) \/ Environment
=============================================================================
