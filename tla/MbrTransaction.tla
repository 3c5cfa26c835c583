---------------------------- MODULE MbrTransaction ----------------------------
(***************************************************************************)
(* execute_helper_transaction of isopropyl/syslinux_device_helper.py: the  *)
(* privileged write of a constructed disk image (Syslinux, Windows and     *)
(* GRUB profiles) that is exactly as large as the disk.  It removes the    *)
(* primary metadata roots of the old disk first, then its backup GPT       *)
(* header, writes and verifies everything but sector zero, and writes      *)
(* sector zero last, as the commit marker.                                 *)
(*                                                                         *)
(* It differs from RawTransaction in what it treats as metadata, and in    *)
(* the except clause, which deactivates the target only after              *)
(* activation_attempted.                                                   *)
(***************************************************************************)
EXTENDS BlockDevice

ASSUME ImageAssumption == TargetTail >= 2

VARIABLES
  pc,      \* the step of the transaction about to run, or how it ended
  offset,  \* next sector to copy
  held,    \* source_mbr, read with the layout of the image
  copied,  \* digest of what was read for the target: "image" or "bad"
  source   \* the anonymous source: "image", or "bad" once it has changed

vars == <<pc, offset, held, copied, source, page, dirty, dur, weak, swap, alien>>

Roots  == {0, 1}
Backup == TargetTail
Bulk   == 2..(TargetTail - 1)
Rest   == 1..TargetTail

PreCommit == {"layout", "source-validation", "open", "prepared"}
Inactive ==
  PreCommit \union
  {"committed", "zero-roots", "fsync-roots", "zero-backup", "fsync-backup", "copy",
   "check-digest", "fsync-body", "flush-body", "verify-body", "identity"}
Activating ==
  {"verify-inactive", "write-mbr", "fsync-activation", "flush-activation", "verify-all",
   "final-identity"}
Deactivating == {"deactivate", "fsync-deactivation", "flush-deactivation"}
Running == Inactive \union Activating \union Deactivating \union {"except"}
Ended ==
  {"success", "cancelled", "refused", "failed", "deactivated", "skipped", "stranded",
   "killed", "powerloss"}

TypeOK ==
  /\ pc \in Running \union Ended
  /\ offset \in 1..(TargetTail + 1)
  /\ {held, copied, source} \subseteq {"image", "bad"}
  /\ DeviceTypeOK
  /\ swap \in Running \union {"none"}

Init ==
  /\ pc = "layout"
  /\ offset = 1
  /\ held = "bad" /\ copied = "image" /\ source = "image"
  /\ DeviceInit
  /\ dur = [b \in Blocks |-> "old"]

Step(from, to) == pc = from /\ pc' = to
Beside == UNCHANGED <<offset, held, copied, source, weak, swap>>

\* A step that only looks: at memory, at the source or at an identity.
Look(from, to) == Step(from, to) /\ Beside /\ UNCHANGED targetVars

\* _require_opened_target_identity and _validate_target_observation.
SameGeneration == swap = "none"
SourceUnchanged == source = "image"

-----------------------------------------------------------------------------
(* Before the commit. *)

\* The layout of the profile is validated, and sector zero is kept.
ReadLayout ==
  /\ Step("layout", "source-validation")
  /\ held' = source
  /\ UNCHANGED <<offset, copied, source, targetVars, weak, swap>>

ValidateSource == Look("source-validation", "open") /\ SourceUnchanged
OpenTarget == Look("open", "prepared") /\ SameGeneration /\ SourceUnchanged
Commit == Look("prepared", "committed")
Cancel == pc \in PreCommit /\ Look(pc, "cancelled")

-----------------------------------------------------------------------------
(* The mutation. *)

\* Mutation: the identity of the disk is not looked at again after the commit.
RecheckNothing == Look("committed", "zero-roots")

RecheckAfterCommit == Look("committed", "zero-roots") /\ SameGeneration /\ SourceUnchanged

ZeroRoots == Step("zero-roots", "fsync-roots") /\ Put(Roots, "zero") /\ Beside
FsyncRoots == Step("fsync-roots", "zero-backup") /\ Fsync /\ Beside
ZeroBackup == Step("zero-backup", "fsync-backup") /\ Put({Backup}, "zero") /\ Beside
\* Mutation: the bulk write does not wait for the backup header.
FsyncBackupForgotten == Look("fsync-backup", "copy")

FsyncBackup == Step("fsync-backup", "copy") /\ Fsync /\ Beside

CopySector ==
  /\ pc = "copy" /\ offset <= TargetTail
  /\ Put({offset}, source)
  /\ copied' = IF source = "image" THEN copied ELSE "bad"
  /\ offset' = offset + 1
  /\ UNCHANGED <<pc, held, source, weak, swap>>

CopyDone == Look("copy", "check-digest") /\ offset = TargetTail + 1

CheckDigest ==
  Look("check-digest", "fsync-body") /\ held = "image" /\ copied = "image" /\ SourceUnchanged

FsyncBody == Step("fsync-body", "flush-body") /\ Fsync /\ Beside
FlushBody == Step("flush-body", "verify-body") /\ FlushBuffers /\ Beside

\* Mutation: only the bulk is read back, not the sectors at its ends.
VerifyBulkOnly ==
  Look("verify-body", "identity") /\ \A b \in Bulk : MayRead(b, "image")

\* The read-back of every sector but the first.
VerifyBody ==
  Look("verify-body", "identity") /\ \A b \in Rest : MayRead(b, "image")

CheckIdentity == Look("identity", "verify-inactive") /\ SameGeneration

\* From here on activation_attempted is true.
VerifyInactive == Look("verify-inactive", "write-mbr") /\ MayRead(0, "zero")

WriteMbr == Step("write-mbr", "fsync-activation") /\ Put({0}, held) /\ Beside
FsyncActivation == Step("fsync-activation", "flush-activation") /\ Fsync /\ Beside
FlushActivation == Step("flush-activation", "verify-all") /\ FlushBuffers /\ Beside

VerifyAll ==
  Look("verify-all", "final-identity") /\ \A b \in Blocks : MayRead(b, "image")

FinalIdentity == Look("final-identity", "success") /\ SameGeneration

-----------------------------------------------------------------------------
(* Failures, and the except clause. *)

BeingWritten ==
  CASE pc = "zero-roots"                      -> Roots
    [] pc = "zero-backup"                     -> {Backup}
    [] pc = "copy" /\ offset <= TargetTail    -> {offset}
    [] pc \in {"write-mbr", "deactivate"}     -> {0}
    [] OTHER                                  -> {}

Payload ==
  CASE pc = "write-mbr" -> held [] pc = "copy" -> source [] OTHER -> "zero"

\* Where an exception goes: it propagates until activation_attempted is true.
Handler ==
  CASE pc \in PreCommit \union {"committed"} -> "refused"
    [] pc \in Deactivating                   -> "stranded"
    [] pc \in Activating                     -> "except"
    [] OTHER                                 -> "failed"

StepFails ==
  /\ pc \in Running \ {"except"}
  /\ pc' = Handler
  /\ \E S \in SUBSET BeingWritten : Put(S, Payload)
  /\ Beside

FsyncFails ==
  /\ pc \in {"fsync-roots", "fsync-backup", "fsync-body", "fsync-activation",
             "fsync-deactivation"}
  /\ pc' = Handler
  /\ LoseDirty
  /\ Beside

SkipDeactivation == Look("except", "skipped")
BeginDeactivation == Look("except", "deactivate") /\ SameGeneration
\* Mutation: the emergency deactivation misses the commit marker.
DeactivateNextSector == Step("deactivate", "fsync-deactivation") /\ Put({1}, "zero") /\ Beside

Deactivate == Step("deactivate", "fsync-deactivation") /\ Put({0}, "zero") /\ Beside
FsyncDeactivation == Step("fsync-deactivation", "flush-deactivation") /\ Fsync /\ Beside
FlushDeactivation == Step("flush-deactivation", "deactivated") /\ FlushBuffers /\ Beside

-----------------------------------------------------------------------------
(* The environment. *)

WriteBack ==
  /\ pc # "powerloss"
  /\ \E b \in dirty : WriteBackSector(b)
  /\ UNCHANGED pc /\ Beside

PowerLoss == pc \in Running /\ pc' = "powerloss" /\ LosePower /\ Beside
Kill == pc \in Running /\ Look(pc, "killed")

SourceChanges ==
  /\ pc \in Running
  /\ source' = "bad"
  /\ UNCHANGED <<pc, offset, held, copied, targetVars, weak, swap>>

MediumReplaced ==
  /\ pc \in Running /\ swap = "none"
  /\ swap' = pc
  /\ UNCHANGED <<pc, offset, held, copied, source, targetVars, weak>>

Helper ==
  \/ ReadLayout \/ ValidateSource \/ OpenTarget \/ Commit \/ Cancel \/ RecheckAfterCommit
  \/ ZeroRoots \/ FsyncRoots \/ ZeroBackup \/ FsyncBackup \/ CopySector \/ CopyDone
  \/ CheckDigest \/ FsyncBody \/ FlushBody \/ VerifyBody \/ CheckIdentity
  \/ VerifyInactive \/ WriteMbr \/ FsyncActivation \/ FlushActivation \/ VerifyAll
  \/ FinalIdentity \/ StepFails \/ FsyncFails
  \/ SkipDeactivation \/ BeginDeactivation \/ Deactivate \/ FsyncDeactivation
  \/ FlushDeactivation

Environment == WriteBack \/ PowerLoss \/ Kill \/ SourceChanges \/ MediumReplaced

Next == Helper \/ Environment

Spec == Init /\ [][Next]_vars

-----------------------------------------------------------------------------
(* Properties. *)

RootsOld == \E b \in Roots : dur[b] = "old"
Complete == \A b \in Blocks : dur[b] = "image"

\* "Sector zero is the commit marker": it is only ever durable over a complete
\* image, whatever order the page cache persisted the sectors in and whatever
\* writes a counterfeit medium dropped, because all the rest has been read back.
MarkerFollowsImage == dur[0] = "image" => Complete

\* "If the next step fails, an old GPT remains recoverable from its untouched
\* backup and no bulk partition data has changed": as long as a primary root is
\* there, so are the backup and the data.  The zeroed roots are not read back
\* before the next step: a root that dropped them outlives backup and data.
BackupOutlivesRoots ==
  \A r \in Roots \ weak : dur[r] = "old" => \A b \in Bulk \union {Backup} : dur[b] = "old"

\* No data is overwritten while the backup header could still bring the old
\* partition table back over it, unless the header dropped its zeroes.
BulkFollowsBackup ==
  dur[Backup] = "old" /\ Backup \notin weak => \A b \in Bulk : dur[b] = "old"

\* What a power cut at any moment leaves: the three orders together.
CrashSafe == MarkerFollowsImage /\ BackupOutlivesRoots /\ BulkFollowsBackup

\* A reported success is the complete image on the authorized disk, with nothing
\* left in the cache.
SuccessIsDurable == pc = "success" => Complete /\ dirty = {} /\ alien = {}

\* A failed activation that was deactivated leaves no commit marker, even if the
\* failure was a lost fsync.  The zeroes are not read back: a sector zero that
\* dropped them keeps what it held.
DeactivatedIsInert ==
  pc = "deactivated" /\ swap = "none" /\ 0 \notin weak => dur[0] = "zero"

\* What the caller is told is true of the medium: the two reports together.
ReportIsTrue == SuccessIsDurable /\ DeactivatedIsInert

\* A medium exchanged before the recheck is never written; one exchanged before
\* the last identity check never gets a commit marker.
ReplacementIsSpared ==
  /\ swap \in PreCommit \union {"committed"} => alien = {}
  /\ swap \in Inactive => <<0, "image">> \notin alien

\* The transaction as the abstract medium; it never shows "arming", because the
\* commit marker is a single sector.
Intact == \A b \in Blocks : dur[b] = "old"
RestOld == \A b \in Bulk \union {Backup} : dur[b] = "old"
View ==
  CASE Intact                             -> "intact"
    [] ~Intact /\ RootsOld /\ RestOld      -> "opened"
    [] RootsOld /\ ~RestOld /\ dur[0] # "image" -> "stale"
    [] ~RootsOld /\ dur[0] # "image"       -> "inert"
    [] Complete                           -> "active"
    [] OTHER                              -> "torn"

Outcome ==
  CASE pc = "success"                  -> "succeeded"
    [] pc \in {"cancelled", "refused"} -> "untouched"
    [] pc \in Running                  -> "running"
    [] OTHER                           -> "failed"

Activation ==
  INSTANCE MediumActivation WITH reliable <- weak = {}, view <- View, outcome <- Outcome
ImplementsActivation == Activation!Spec
=============================================================================
