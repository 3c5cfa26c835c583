----------------------------- MODULE LayoutExecutor -----------------------------
(***************************************************************************)
(* The executors that lay a drive out, and those that make a boot medium   *)
(* of it.                                                                  *)
(*                                                                         *)
(* FormatExecutor and MultiFormatExecutor of isopropyl/formatting.py and   *)
(* CasperLayoutExecutor of isopropyl/casper_media.py: a new partition      *)
(* table and one or two file systems on it. They are the whole of          *)
(* "format", and the first part of three executors that make a boot medium *)
(* of a staged tree: ConstructedMediaExecutor of isopropyl/constructed.py, *)
(* and on top of it UefiNtfsMediaExecutor of isopropyl/uefi_ntfs.py and    *)
(* CasperMediaExecutor of isopropyl/casper_media.py, which mount the data  *)
(* partition and copy the tree to it.                                      *)
(***************************************************************************)
EXTENDS Executor

Kinds == {"format", "constructed", "uefi-ntfs", "casper"}

\* What follows the layout, and what follows its failure.
Next(k) == CASE k = "format" -> "done" [] k = "constructed" -> "populate" [] OTHER -> "verify"
Handler(k) == CASE k \in {"format", "casper"} -> "done" [] k = "constructed" -> "power-off" [] k = "uefi-ntfs" -> "power-look"

Filesystems(k) == IF k = "casper" THEN {"fs1", "fs2"} ELSE {"fs1"}

Steps == {"identity", "unmount", "second-look", "inactive", "boundary", "table", "settle", "discover",
          "bind", "look", "filesystem", "settle-again", "final-look"}

Fails == kind \in Kinds /\ Interrupted(Steps, Handler(kind))

FirstLook == Looks("identity", "unmount")
UnmountAll == Unmount("unmount", "second-look", "inactive")
LookAgain == SecondLook("second-look", "inactive", "boundary")

\* The Casper executor looks once more, and hears that the drive will be touched.
Boundary ==
  IF kind = "casper"
    THEN ~cancelled /\ target = "ours" /\ Reports("boundary", "table", [told EXCEPT !.incomplete = TRUE])
    ELSE Passes("boundary", "table")

CreateTable == ~cancelled /\ Spawn("table", "table-wait", "table")

\* partprobe and udevadm settle.
TableDone == Waits("table-wait", "settle")
Settle == ~cancelled /\ Passes("settle", "discover")

DiscoverPartitions == ~cancelled /\ Passes("discover", "bind")
\* The table is read back: its partitions are the planned ones.
BindPartitions == "moved" \notin disk /\ Looks("bind", "look")

\* Identity, geometry and the nodes of the partitions, before each file system.
LookAtPartitions == "moved" \notin disk /\ Looks("look", "filesystem")

CreateFilesystem ==
  /\ ~cancelled
  /\ Spawn("filesystem", "filesystem-wait", IF child.task = "fs1" THEN "fs2" ELSE "fs1")

FilesystemDone ==
  Waits("filesystem-wait", IF child.task = "fs1" /\ Filesystems(kind) # {"fs1"} THEN "look" ELSE "settle-again")

SettleAgain == ~cancelled /\ Passes("settle-again", "final-look")

FinalLook ==
  /\ ~cancelled /\ target = "ours" /\ "moved" \notin disk
  /\ IF kind = "format" THEN Succeeds("final-look", "done") ELSE Passes("final-look", Next(kind))

WaitsFail ==
  /\ kind \in Kinds
  /\ \E from \in {"table-wait", "filesystem-wait"} :
       WaitFails(from, Handler(kind)) \/ StopsForSure(from, Handler(kind))

Works ==
  /\ kind \in Kinds
  /\ \/ Fails \/ FirstLook \/ UnmountAll \/ LookAgain \/ Boundary \/ CreateTable \/ TableDone
     \/ Settle \/ DiscoverPartitions \/ BindPartitions \/ LookAtPartitions \/ CreateFilesystem
     \/ FilesystemDone \/ SettleAgain \/ FinalLook \/ WaitsFail
-----------------------------------------------------------------------------
Media == Kinds \ {"format"}
Bound == input = "bound"

\* The staged tree is compared with the plan, and so is the drive.
LooksAtBoth(from, to) == Bound /\ Looks(from, to)

\* verify_pre_destructive.
VerifyPreDestructive == LooksAtBoth("pre", "identity")
PreFails == Interrupted({"pre"}, "done")

-----------------------------------------------------------------------------
(* _populate_partition. *)

BeforeMount == {"populate", "mount"}
Mounted == {"find", "copy-look", "copy", "copied"}

BeginPopulate == LooksAtBoth("populate", "mount")

\* The new partition is inspected and mounted; a command that times out may have
\* mounted it.
MountPartition ==
  /\ ~cancelled /\ mounts' = mounts \cup IF target = "ours" THEN {"mine"} ELSE {}
  /\ Goto("mount", "find")
  /\ UNCHANGED <<kind, request, target, disk, harm, process, input, told>>

MountFails ==
  /\ Goto("mount", Handler(kind)) /\ told' = [told EXCEPT !.outcome = "failure"]
  /\ mounts' \in {mounts, mounts \cup IF target = "ours" THEN {"mine"} ELSE {}}
  /\ UNCHANGED <<kind, request, target, disk, harm, process, input>>

FindMount == ~cancelled /\ Passes("find", "copy-look")
LookBeforeCopy == LooksAtBoth("copy-look", "copy")

\* Every file is compared with the plan before and after it is copied, and read back.
CopyTree == ~cancelled /\ Bound /\ "mine" \in mounts /\ Changes("copy", "copied", disk \cup {"content"})

PopulateDone ==
  /\ Bound /\ ~cancelled /\ target = "ours"
  /\ IF kind = "constructed" THEN Succeeds("copied", "unmount-good") ELSE Passes("copied", "unmount-good")

PopulateFails == Interrupted(BeforeMount, Handler(kind)) \/ Interrupted(Mounted, "unmount-bad")

\* Mutation: the answer that nothing is mounted is believed.
UnmountTrusts ==
  \E from \in {"unmount-good", "unmount-bad"} :
    /\ Goto(from, IF kind = "constructed" THEN "power-off" ELSE IF from = "unmount-bad" THEN Handler(kind) ELSE "content")
    /\ \E answer \in {"good", "inactive", "failure"} :
         /\ mounts' \in IF answer = "good" THEN {mounts \ {"mine"}}
                        ELSE IF answer = "failure" THEN {mounts} ELSE {mounts, mounts \ {"mine"}}
         /\ told' = [told EXCEPT !.unmounted = answer \in {"good", "inactive"}]
    /\ UNCHANGED <<kind, request, target, disk, harm, process, input>>

\* The finally clause: unmount; if the answer is that nothing is mounted, the drive is
\* asked, which a cancellation prevents.
UnmountPartition ==
  \E from \in {"unmount-good", "unmount-bad"} :
    /\ Goto(from, IF kind = "constructed" THEN "power-off" ELSE IF from = "unmount-bad" THEN Handler(kind) ELSE "content")
    /\ \E answer \in {"good", "inactive", "failure"} :
         /\ mounts' \in IF answer = "good" THEN {mounts \ {"mine"}}
                        ELSE IF answer = "failure" THEN {mounts} ELSE {mounts, mounts \ {"mine"}}
         /\ told' = [told EXCEPT !.unmounted =
                       \/ answer = "good"
                       \/ answer = "inactive" /\ ~cancelled /\ target = "ours" /\ mounts' = {}]
    /\ UNCHANGED <<kind, request, target, disk, harm, process, input>>

\* Of the constructed media, without a look at what has the path.
PowerOffConstructed == PowerOff("power-off", "done")

-----------------------------------------------------------------------------
(* UefiNtfsMediaExecutor: the boot partition after the data partition. *)

ContentUnmounted == told.unmounted /\ Passes("content", "content-look")
ContentStillMounted == ~told.unmounted /\ Ends("content", Handler(kind), "failure")

VerifyTarget == Looks("verify", IF kind = "casper" THEN "unmount-created" ELSE "populate")
VerifyContent == kind = "uefi-ntfs" /\ Looks("content-look", "boot")

\* _run_dd gives up a dd that it cannot kill.
WriteArtifact == ~cancelled /\ Spawn("boot", "boot-wait", "boot")
ArtifactWritten == Waits("boot-wait", "readback")
ReadArtifact == ~cancelled /\ Spawn("readback", "readback-wait", "read")
CompareArtifact == "boot" \in disk /\ Waits("readback-wait", "uefi-look")
ArtifactFails ==
  \E from \in {"boot-wait", "readback-wait"} :
    WaitFails(from, "power-look") \/ StopsInTime(from, "power-look")

VerifyLast ==
  ~cancelled /\ target = "ours" /\ Succeeds("uefi-look", "power-look")

UefiFails == kind = "uefi-ntfs" /\ Interrupted({"verify", "content-look", "boot", "readback", "uefi-look"}, "power-look")

\* _power_off of both looks at the identity first.
LookBeforePowerOff ==
  \/ target = "ours" /\ Passes("power-look", "power-off")
  \/ Passes("power-look", "done")

-----------------------------------------------------------------------------
(* CasperMediaExecutor: both partitions are unmounted before and after the copy. *)

UnmountCreated ==
  /\ kind = "casper" /\ ~cancelled /\ target = "ours"
  /\ Goto("unmount-created", "created-look") /\ mounts' \in {mounts, {}}
  /\ UNCHANGED <<kind, request, target, disk, harm, process, input, told>>

LookUnmounted ==
  /\ kind = "casper" /\ mounts = {}
  /\ \/ Looks("created-look", "populate")
     \/ ~cancelled /\ target = "ours" /\ Succeeds("content-look", "power-look")

CasperFails ==
  kind = "casper" /\ Interrupted({"verify", "unmount-created", "created-look", "content-look"}, "done")

MediaWorks ==
  /\ kind \in Media
  /\ \/ Works
     \/ VerifyPreDestructive \/ PreFails \/ BeginPopulate \/ MountPartition \/ MountFails
     \/ FindMount \/ LookBeforeCopy \/ CopyTree \/ PopulateDone \/ PopulateFails
     \/ UnmountPartition \/ PowerOffConstructed \/ ContentUnmounted \/ ContentStillMounted
     \/ VerifyTarget \/ VerifyContent \/ WriteArtifact \/ ArtifactWritten \/ ReadArtifact
     \/ CompareArtifact \/ ArtifactFails \/ VerifyLast \/ UefiFails \/ LookBeforePowerOff
     \/ UnmountCreated \/ LookUnmounted \/ CasperFails
=================================================================================
