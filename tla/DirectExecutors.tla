----------------------------- MODULE DirectExecutors -----------------------------
(***************************************************************************)
(* The executors that lay no drive out.  On the whole drive: EraseRunner of*)
(* isopropyl/erase.py, which writes zeroes to one or two ranges with a     *)
(* look at the identity before each; MediaTestRunner of media_test.py,     *)
(* whose plan is a sequence of destructive tests; and ImageWriter of       *)
(* writer.py, whose write(), verify() and power_off() are called one after *)
(* the other: the image is streamed from one descriptor to the standard    *)
(* input of dd, and dd reads the drive back.                               *)
(*                                                                         *)
(* And on a boot medium in use, CasperPersistenceExecutor of               *)
(* isopropyl/persistence.py: a partition is appended and formatted, then   *)
(* the boot configurations on the medium are replaced one by one.  What    *)
(* fails before the activation is taken back: the configurations first,    *)
(* then the partition.                                                     *)
(***************************************************************************)
EXTENDS Executor, Sequences

Bound == input = "bound"

EraseFails == Interrupted({"identity", "unmount", "second-look", "inactive", "range", "dd"}, "done")

EraseFirstLook == Looks("identity", "unmount")
EraseUnmountAll == Unmount("unmount", "second-look", "inactive")
EraseLookAgain == SecondLook("second-look", "inactive", "range")

VerifyTarget == Looks("range", "dd")

StartRange == ~cancelled /\ Spawn("dd", "register", IF child.task = "range1" THEN "range2" ELSE "range1")

\* cancel() may have come before it could know the process.
RegisterRange ==
  /\ ~cancelled /\ Goto("register", "dd-wait")
  /\ child' = [child EXCEPT !.known = TRUE]
  /\ UNCHANGED <<kind, request, target, medium, stray, input, told>>

\* The finally clause stops the process also after a failing progress callback.
StopRange == StopsInTime("register", "done") \/ StopsInTime("dd-wait", "done")

RangeDone == child.task = "range1" /\ Waits("dd-wait", "range")
EraseDone == child.task = "range2" /\ child.state = "ended" /\ ~cancelled /\ Succeeds("dd-wait", "done")
RangeFails == WaitFails("dd-wait", "done")

EraseWorks ==
  \/ EraseFails \/ EraseFirstLook \/ EraseUnmountAll \/ EraseLookAgain \/ VerifyTarget \/ StartRange \/ RegisterRange
  \/ StopRange \/ RangeDone \/ EraseDone \/ RangeFails

-----------------------------------------------------------------------------
(* MediaTestRunner: one kind per mode of the plan. *)

Tests == {"capacity", "surface", "complete"}

\* Two patterns stand for the one to four of a plan.
Phases ==
  CASE kind = "capacity" -> <<"probe">>
    [] kind = "surface"  -> <<"pattern1", "pattern2">>
    [] kind = "complete" -> <<"probe", "pattern1">>

\* The phases that have a command after the last one that was started.
PhasesLeft ==
  {i \in DOMAIN Phases : child.task = "none" \/ \E j \in 1..(i - 1) : Phases[j] = child.task}

TestFails == Interrupted({"identity", "unmount", "second-look", "inactive", "verify", "phase"}, "done")

\* run(): the event, the plan and the confirmation are in order, and so is the drive.
TestFirstLook == Looks("identity", "unmount")
TestUnmount == Unmount("unmount", "second-look", "inactive")
TestLookAgain == SecondLook("second-look", "inactive", "verify")

\* _verify_target, before every phase.
VerifyBeforePhase == Looks("verify", "phase")

StartPhase ==
  ~cancelled /\ \E i \in PhasesLeft :
    (\A j \in PhasesLeft : i <= j) /\ Spawn("phase", "register", Phases[i])

\* The process is known before the event is looked at again.
RegisterPhase ==
  /\ Goto("register", "watch") /\ child' = [child EXCEPT !.known = TRUE]
  /\ UNCHANGED <<kind, request, target, medium, stray, input, told>>

StopPhase == StopsInTime("watch", "done")

\* A code that says "damaged" or "counterfeit" is a result like "genuine".
PhaseDone == PhasesLeft # {} /\ Waits("watch", "verify")
TestDone == PhasesLeft = {} /\ child.state = "ended" /\ ~cancelled /\ Succeeds("watch", "done")
PhaseFails == WaitFails("watch", "done")

TestWorks ==
  \/ TestFails \/ TestFirstLook \/ TestUnmount \/ TestLookAgain \/ VerifyBeforePhase \/ StartPhase
  \/ RegisterPhase \/ StopPhase \/ PhaseDone \/ TestDone \/ PhaseFails

-----------------------------------------------------------------------------
(* ImageWriter. *)

WriterFails ==
  Interrupted({"identity", "unmount", "second-look", "inactive", "source", "dd", "source-again",
               "hash", "verify-look", "dd-read"}, "done")

\* The source is opened and measured, then revalidate_device on both sides of unmount().
WriterFirstLook == Looks("identity", "unmount")
WriterUnmountAll == Unmount("unmount", "second-look", "inactive")
WriterLookAgain == SecondLook("second-look", "inactive", "source")

AssertSourceBound == Bound /\ Looks("source", "dd")

StartWrite == ~cancelled /\ Spawn("dd", "register", "image")
StartRead == ~cancelled /\ Spawn("dd-read", "register-read", "read")

SetProcess ==
  /\ Goto("register", "stream") \/ Goto("register-read", "stream-read")
  /\ child' = [child EXCEPT !.known = TRUE]
  /\ UNCHANGED <<kind, request, target, medium, stray, input, told>>

\* Between two blocks the event is read; in the write to the pipe, the read from it and
\* the wait for the process it is not.
Streams ==
  ~cancelled /\ (Passes("stream", "dd-wait") \/ Passes("stream-read", "read-wait"))

\* _terminate_process: what it cannot signal it leaves, and says nothing.
TerminateProcess ==
  \E from \in {"stream", "stream-read"} :
    \E outcome \in {"failure"} \cup IF cancelled THEN {"cancelled"} ELSE {} :
      Gives(from, "done", [told EXCEPT !.outcome = outcome],
            IF Stopped.state = "running" THEN <<NoChild, child.task>> ELSE <<Stopped, stray>>)

WriteDone == Waits("dd-wait", "source-again")
SourceStillBound == ~cancelled /\ Bound /\ Passes("source-again", "hash")
HashSource == ~cancelled /\ Bound /\ Passes("hash", "verify-look")
LookBeforeRead == Looks("verify-look", "dd-read")

\* The digests agree, or verify() returns FALSE.
VerifyDone ==
  /\ ~cancelled /\ child.state = "ended"
  /\ Ends("read-wait", "power-look",
          IF "image" \in disk /\ "damaged" \notin disk /\ child.on = "ours" THEN "success" ELSE "failure")

WaitsFail == WaitFails("dd-wait", "done") \/ WaitFails("read-wait", "done")

\* power_off() raises after a cancellation; the caller keeps the result of verify().
PowerOffAfterLook == Looks("power-look", "power-off")
NoPowerOff == Passes("power-look", "done")
PowerOffWritten == PowerOff("power-off", "done")

WriterWorks ==
  \/ WriterFails \/ WriterFirstLook \/ WriterUnmountAll \/ WriterLookAgain \/ AssertSourceBound \/ StartWrite \/ StartRead
  \/ SetProcess \/ Streams \/ TerminateProcess \/ WriteDone \/ SourceStillBound \/ HashSource
  \/ LookBeforeRead \/ VerifyDone \/ WaitsFail \/ PowerOffAfterLook \/ NoPowerOff \/ PowerOffWritten

-----------------------------------------------------------------------------
(* CasperPersistenceExecutor. *)

Configs == {"cfg1", "cfg2"}
Replaced == Configs \cap disk

\* Nothing has been attempted.
FailsEarly == Interrupted({"identity"}, "done")
PersistenceFails ==
  Interrupted({"append", "settle", "geometry", "mkfs", "settle-again", "formatted", "rebind"}, "delete-look")
FailsTouched == Interrupted({"config", "replace", "replaced", "activate", "activate-look"}, "rollback")

AssertUnchanged == Bound /\ Looks("identity", "append")

AppendPartition == ~cancelled /\ Spawn("append", "append-wait", "part")
Appended == Waits("append-wait", "settle")
Settle == ~cancelled /\ Passes("settle", "geometry")
Planned == "part" \in disk /\ "moved" \notin disk
AssertGeometry == Planned /\ Looks("geometry", "mkfs")
MakeFilesystem == ~cancelled /\ Spawn("mkfs", "mkfs-wait", "fs1")
FilesystemMade == Waits("mkfs-wait", "settle-again")
SettleAgain == ~cancelled /\ Passes("settle-again", "formatted")
AssertFormatted == Planned /\ "fs1" \in disk /\ Looks("formatted", "rebind")
RebindMedia == ~cancelled /\ Bound /\ Passes("rebind", "config")

CommandFails ==
  \E from \in {"append-wait", "mkfs-wait"} :
    WaitFails(from, "delete-look") \/ StopsInTime(from, "delete-look")

LookBeforeConfig ==
  Planned /\ Looks("config", IF Replaced = Configs THEN "activate" ELSE "replace")

\* The new file has the old one's name in one step; the directory may fail to be
\* synchronised after it.
ReplaceConfig ==
  /\ Bound
  /\ \E c \in Configs \ disk : Changes("replace", "replaced", disk \cup {c})
ConfigReplaced == Passes("replaced", "config")

AssertActivated == Bound /\ Planned /\ Looks("activate", "activate-look")
Activate == ~cancelled /\ target = "ours" /\ Planned /\ Succeeds("activate-look", "done")

(* The finally clause.  It does not listen to the event any more. *)

\* The last error supersedes the first, and what that one said.
Incomplete == [told EXCEPT !.outcome = "failure", !.incomplete = TRUE, !.leftover = FALSE]

\* A configuration that is neither the old nor the new one is not overwritten, and then
\* the partition stays.
RollbackConfigs ==
  \/ /\ Bound /\ target = "ours"
     /\ Changes("rollback", "delete-look", disk \ Configs)
  \/ /\ Goto("rollback", "done") /\ told' = Incomplete
     /\ \E back \in SUBSET Replaced : disk' = disk \ back
     /\ UNCHANGED <<kind, request, target, harm, mounts, process, input>>

NothingToDelete == target = "ours" /\ "part" \notin disk /\ Passes("delete-look", "done")
\* Another partition than the planned one is not touched.
DeletePartition == target = "ours" /\ Planned /\ Spawn("delete-look", "delete-wait", "delete")

CleanupFails ==
  \/ \E from \in {"delete-look", "delete-check"} : Reports(from, "done", Incomplete)
  \/ child.state \in {"ended", "failed", "killed"} /\ Reports("delete-wait", "done", Incomplete)
  \/ Gives("delete-wait", "done", [Incomplete EXCEPT !.leftover = Stopped.state = "running"],
           IF Stopped.state = "running" THEN <<NoChild, child.task>> ELSE <<Stopped, stray>>)

Deleted == child.state = "ended" /\ Passes("delete-wait", "delete-check")
DeletionVerified == target = "ours" /\ "part" \notin disk /\ Passes("delete-check", "done")

PersistenceWorks ==
  \/ FailsEarly \/ PersistenceFails \/ FailsTouched
  \/ AssertUnchanged \/ AppendPartition \/ Appended \/ Settle \/ AssertGeometry \/ MakeFilesystem \/ FilesystemMade \/ SettleAgain \/ AssertFormatted
  \/ RebindMedia \/ CommandFails \/ LookBeforeConfig \/ ReplaceConfig \/ ConfigReplaced
  \/ AssertActivated \/ Activate
  \/ RollbackConfigs \/ NothingToDelete \/ DeletePartition \/ CleanupFails \/ Deleted
  \/ DeletionVerified
=============================================================================
