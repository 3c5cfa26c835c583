---------------------------- MODULE RawTransaction ----------------------------
(***************************************************************************)
(* execute_raw_helper_transaction of isopropyl/syslinux_device_helper.py:  *)
(* the privileged helper that replaces the content of a whole disk by an   *)
(* anonymous raw snapshot.  The medium is modelled sector by sector with   *)
(* the kernel's page cache in front of it, because the order the code      *)
(* imposes on writes, fsync and BLKFLSBUF is what makes a power cut, a     *)
(* SIGKILL, an I/O error, a counterfeit medium or a replaced card safe.    *)
(*                                                                         *)
(* One action is one step of the function; a write of a region is one      *)
(* action because the page cache may persist any subset of it at any time  *)
(* and a failing write leaves any subset of it in the cache.               *)
(***************************************************************************)
EXTENDS BlockDevice

CONSTANTS
  Guard,       \* sectors of the front guard (_raw_front_guard_size)
  SourceTail   \* last sector of the image on the target

ASSUME GeometryAssumption ==
  /\ Guard \in Nat \ {0}
  /\ SourceTail \in Nat
  /\ Guard <= SourceTail
  /\ SourceTail <= TargetTail

VARIABLES
  pc,       \* the step of the transaction about to run, or how it ended
  offset,   \* next sector of the image body to copy
  held,     \* what is in memory for the front guard and the tail sector
  copied,   \* digest of what was read for the target: "image" or "bad"
  source    \* the anonymous source: "image", or "bad" once it has changed

vars == <<pc, offset, held, copied, source, page, dirty, dur, weak, swap, alien>>
sourceVars == <<held, copied, source>>

Front  == 0..(Guard - 1)
Middle == Guard..(SourceTail - 1)
Tails  == {SourceTail, TargetTail}

\* _raw_deactivation_regions: front guard and both tail sectors.
DeactivationRegions == Front \union Tails

PreCommit == {"source-validation", "read-guards", "open", "prepared"}
Deactivating == {"deactivate", "fsync-deactivation", "flush-deactivation"}
Running ==
  PreCommit \union Deactivating \union
  {"committed", "zero-front", "fsync-front", "zero-tails", "fsync-tails", "copy",
   "check-digest", "fsync-body", "flush-body", "verify-inactive", "identity",
   "write-source-tail", "fsync-source-tail", "write-front", "fsync-activation",
   "flush-activation", "verify-active", "final-identity", "except"}
Ended ==
  {"success", "cancelled", "refused", "deactivated", "skipped", "stranded",
   "killed", "powerloss"}
\* Steps before the identity check that precedes the first activation write.
PreActivation ==
  PreCommit \union
  {"committed", "zero-front", "fsync-front", "zero-tails", "fsync-tails", "copy",
   "check-digest", "fsync-body", "flush-body", "verify-inactive", "identity"}

TypeOK ==
  /\ pc \in Running \union Ended
  /\ offset \in Guard..SourceTail
  /\ held \in {"image", "bad"}
  /\ copied \in {"image", "bad"}
  /\ source \in {"image", "bad"}
  /\ DeviceTypeOK
  /\ swap \in Running \union {"none"}

Init ==
  /\ pc = "source-validation"
  /\ offset = Guard
  /\ held = "bad"
  /\ copied = "image"
  /\ source = "image"
  /\ DeviceInit
  /\ dur = [b \in Blocks |-> "old"]

Step(from, to) == pc = from /\ pc' = to

-----------------------------------------------------------------------------

\* _require_raw_opened_target_identity and the kernel observation: the opened
\* disk is still the authorized generation (BLKGETDISKSEQ never repeats).
SameGeneration == swap = "none"

\* fstat of the source against the snapshot taken before it was hashed.
SourceUnchanged == source = "image"

-----------------------------------------------------------------------------
(* Before the commit. *)

\* The source is hashed and compared with the digest bound in the request.
ValidateSource ==
  /\ Step("source-validation", "read-guards")
  /\ SourceUnchanged
  /\ UNCHANGED <<offset, sourceVars, targetVars, weak, swap>>

\* The front guard and the tail sector are read, and kept for the activation.
ReadGuards ==
  /\ Step("read-guards", "open")
  /\ held' = source
  /\ UNCHANGED <<offset, copied, source, targetVars, weak, swap>>

\* Observation, exclusive open, lock, identity, observation, path, source.
OpenTarget ==
  /\ Step("open", "prepared")
  /\ SameGeneration
  /\ SourceUnchanged
  /\ UNCHANGED <<offset, sourceVars, targetVars, weak, swap>>

\* mutation_started(): the client answers COMMIT.
Commit ==
  /\ Step("prepared", "committed")
  /\ UNCHANGED <<offset, sourceVars, targetVars, weak, swap>>

\* precommit_cancel, or CANCEL instead of COMMIT.
Cancel ==
  /\ pc \in PreCommit
  /\ pc' = "cancelled"
  /\ UNCHANGED <<offset, sourceVars, targetVars, weak, swap>>

\* Mutation: after the commit only the source is looked at again.
RecheckSourceOnly ==
  /\ Step("committed", "zero-front")
  /\ SourceUnchanged
  /\ UNCHANGED <<offset, sourceVars, targetVars, weak, swap>>

\* Identity, path, observation and source once more after the commit.
RecheckAfterCommit ==
  /\ Step("committed", "zero-front")
  /\ SameGeneration
  /\ SourceUnchanged
  /\ UNCHANGED <<offset, sourceVars, targetVars, weak, swap>>

-----------------------------------------------------------------------------
(* The mutation: deactivate, copy, verify, activate, verify. *)

ZeroFront ==
  /\ Step("zero-front", "fsync-front")
  /\ Put(Front, "zero")
  /\ UNCHANGED <<offset, sourceVars, weak, swap>>

FsyncFront ==
  /\ Step("fsync-front", "zero-tails")
  /\ Fsync
  /\ UNCHANGED <<offset, sourceVars, weak, swap>>

ZeroTails ==
  /\ Step("zero-tails", "fsync-tails")
  /\ Put(Tails, "zero")
  /\ UNCHANGED <<offset, sourceVars, weak, swap>>

FsyncTails ==
  /\ Step("fsync-tails", "copy")
  /\ Fsync
  /\ UNCHANGED <<offset, sourceVars, weak, swap>>

CopySector ==
  /\ pc = "copy"
  /\ offset < SourceTail
  /\ Put({offset}, source)
  /\ copied' = IF source = "image" THEN copied ELSE "bad"
  /\ offset' = offset + 1
  /\ UNCHANGED <<pc, held, source, weak, swap>>

CopyDone ==
  /\ Step("copy", "check-digest")
  /\ offset = SourceTail
  /\ UNCHANGED <<offset, sourceVars, targetVars, weak, swap>>

\* The digest of held front guard, copied body and held tail, then fstat.
CheckDigest ==
  /\ Step("check-digest", "fsync-body")
  /\ held = "image"
  /\ copied = "image"
  /\ SourceUnchanged
  /\ UNCHANGED <<offset, sourceVars, targetVars, weak, swap>>

FsyncBody ==
  /\ Step("fsync-body", "flush-body")
  /\ Fsync
  /\ UNCHANGED <<offset, sourceVars, weak, swap>>

FlushBody ==
  /\ Step("flush-body", "verify-inactive")
  /\ FlushBuffers
  /\ UNCHANGED <<offset, sourceVars, weak, swap>>

\* Mutation: only the inactive regions are read back, not the body.
VerifyRegionsOnly ==
  /\ Step("verify-inactive", "identity")
  /\ \A b \in DeactivationRegions : MayRead(b, "zero")
  /\ UNCHANGED <<offset, sourceVars, targetVars, weak, swap>>

\* Read-back of the body, and of the regions that must still be inactive.
VerifyInactive ==
  /\ Step("verify-inactive", "identity")
  /\ \A b \in Middle : MayRead(b, "image")
  /\ \A b \in DeactivationRegions : MayRead(b, "zero")
  /\ UNCHANGED <<offset, sourceVars, targetVars, weak, swap>>

CheckIdentity ==
  /\ Step("identity", "write-source-tail")
  /\ SameGeneration
  /\ UNCHANGED <<offset, sourceVars, targetVars, weak, swap>>

WriteSourceTail ==
  /\ Step("write-source-tail", "fsync-source-tail")
  /\ Put({SourceTail}, held)
  /\ UNCHANGED <<offset, sourceVars, weak, swap>>

\* Mutation: the front guard is written without waiting for the tail.
FsyncSourceTailForgotten ==
  /\ Step("fsync-source-tail", "write-front")
  /\ UNCHANGED <<offset, sourceVars, targetVars, weak, swap>>

FsyncSourceTail ==
  /\ Step("fsync-source-tail", "write-front")
  /\ Fsync
  /\ UNCHANGED <<offset, sourceVars, weak, swap>>

WriteFront ==
  /\ Step("write-front", "fsync-activation")
  /\ Put(Front, held)
  /\ UNCHANGED <<offset, sourceVars, weak, swap>>

FsyncActivation ==
  /\ Step("fsync-activation", "flush-activation")
  /\ Fsync
  /\ UNCHANGED <<offset, sourceVars, weak, swap>>

FlushActivation ==
  /\ Step("flush-activation", "verify-active")
  /\ FlushBuffers
  /\ UNCHANGED <<offset, sourceVars, weak, swap>>

\* Read-back of the front guard, the source tail and the physical tail.
VerifyActive ==
  /\ Step("verify-active", "final-identity")
  /\ \A b \in Front \union {SourceTail} : MayRead(b, "image")
  /\ TargetTail # SourceTail => MayRead(TargetTail, "zero")
  /\ UNCHANGED <<offset, sourceVars, targetVars, weak, swap>>

\* Mutation: success without a last look at the identity of the disk.
FinalIdentityForgotten ==
  /\ Step("final-identity", "success")
  /\ SourceUnchanged
  /\ UNCHANGED <<offset, sourceVars, targetVars, weak, swap>>

FinalIdentity ==
  /\ Step("final-identity", "success")
  /\ SameGeneration
  /\ SourceUnchanged
  /\ UNCHANGED <<offset, sourceVars, targetVars, weak, swap>>

-----------------------------------------------------------------------------
(* Failures of a step, and the except clause. *)

\* The sectors that the write of the current step covers.
BeingWritten ==
  CASE pc \in {"zero-front", "write-front"} -> Front
    [] pc = "zero-tails"                    -> Tails
    [] pc = "copy" /\ offset < SourceTail   -> {offset}
    [] pc = "write-source-tail"             -> {SourceTail}
    [] pc = "deactivate"                    -> DeactivationRegions
    [] OTHER                                -> {}

Payload ==
  CASE pc \in {"write-front", "write-source-tail"} -> held
    [] pc = "copy"                                 -> source
    [] OTHER                                       -> "zero"

\* Where an exception goes: before mutation_attempted it only propagates;
\* inside the emergency deactivation it is reported as a failure of it.
Handler ==
  CASE pc \in PreCommit \union {"committed"} -> "refused"
    [] pc \in Deactivating                   -> "stranded"
    [] OTHER                                 -> "except"

\* A read, write, comparison or ioctl of the current step fails.  A failing
\* write has put any part of its data in the cache.
StepFails ==
  /\ pc \in Running \ {"except"}
  /\ pc' = Handler
  /\ \E S \in SUBSET BeingWritten : Put(S, Payload)
  /\ UNCHANGED <<offset, sourceVars, weak, swap>>

\* fsync reports an error.
FsyncFails ==
  /\ pc \in {"fsync-front", "fsync-tails", "fsync-body", "fsync-source-tail",
             "fsync-activation", "fsync-deactivation"}
  /\ pc' = Handler
  /\ LoseDirty
  /\ UNCHANGED <<offset, sourceVars, weak, swap>>

\* except: without the identity of the disk the deactivation is skipped.
SkipDeactivation ==
  /\ Step("except", "skipped")
  /\ UNCHANGED <<offset, sourceVars, targetVars, weak, swap>>

\* Mutation: the transaction is tried again instead of being given up.
RetryForever ==
  /\ Step("except", "zero-front")
  /\ SameGeneration
  /\ UNCHANGED <<offset, sourceVars, targetVars, weak, swap>>

BeginDeactivation ==
  /\ Step("except", "deactivate")
  /\ SameGeneration
  /\ UNCHANGED <<offset, sourceVars, targetVars, weak, swap>>

\* _zero_raw_regions.
ZeroRawRegions ==
  /\ Step("deactivate", "fsync-deactivation")
  /\ Put(DeactivationRegions, "zero")
  /\ UNCHANGED <<offset, sourceVars, weak, swap>>

FsyncDeactivation ==
  /\ Step("fsync-deactivation", "flush-deactivation")
  /\ Fsync
  /\ UNCHANGED <<offset, sourceVars, weak, swap>>

FlushDeactivation ==
  /\ Step("flush-deactivation", "deactivated")
  /\ FlushBuffers
  /\ UNCHANGED <<offset, sourceVars, weak, swap>>

-----------------------------------------------------------------------------
(* The environment. *)

\* Also after the helper has died or given up.
WriteBack ==
  /\ pc # "powerloss"
  /\ \E b \in dirty : WriteBackSector(b)
  /\ UNCHANGED <<pc, offset, sourceVars, weak, swap>>

PowerLoss ==
  /\ pc \in Running
  /\ pc' = "powerloss"
  /\ LosePower
  /\ UNCHANGED <<offset, sourceVars, weak, swap>>

Kill ==
  /\ pc \in Running
  /\ pc' = "killed"
  /\ UNCHANGED <<offset, sourceVars, targetVars, weak, swap>>

\* The owner of the anonymous source rewrites it.
SourceChanges ==
  /\ pc \in Running
  /\ source' = "bad"
  /\ UNCHANGED <<pc, offset, held, copied, targetVars, weak, swap>>

\* The card in the reader is exchanged: the opened descriptor now addresses
\* another medium, and BLKGETDISKSEQ another generation.
MediumReplaced ==
  /\ pc \in Running
  /\ swap = "none"
  /\ swap' = pc
  /\ UNCHANGED <<pc, offset, sourceVars, targetVars, weak>>

Helper ==
  \/ ValidateSource \/ ReadGuards \/ OpenTarget \/ Commit \/ Cancel \/ RecheckAfterCommit
  \/ ZeroFront \/ FsyncFront \/ ZeroTails \/ FsyncTails
  \/ CopySector \/ CopyDone \/ CheckDigest \/ FsyncBody \/ FlushBody
  \/ VerifyInactive \/ CheckIdentity
  \/ WriteSourceTail \/ FsyncSourceTail \/ WriteFront \/ FsyncActivation \/ FlushActivation
  \/ VerifyActive \/ FinalIdentity
  \/ StepFails \/ FsyncFails \/ SkipDeactivation \/ BeginDeactivation
  \/ ZeroRawRegions \/ FsyncDeactivation \/ FlushDeactivation

Environment == WriteBack \/ PowerLoss \/ Kill \/ SourceChanges \/ MediumReplaced

Next == Helper \/ Environment

Spec == Init /\ [][Next]_vars

\* The helper is one sequential process that the kernel schedules; its waits
\* are bounded by timeouts, so that some step of it is always enabled.
FairSpec == Spec /\ WF_vars(Helper)
-----------------------------------------------------------------------------
(* Properties. *)

FrontOld == \E b \in Front : dur[b] = "old"
FrontNew == \E b \in Front : dur[b] = "image"
BodyOld  == \A b \in Middle : dur[b] = "old"
BodyNew  == \A b \in Middle : dur[b] = "image"
Complete ==
  /\ \A b \in 0..SourceTail : dur[b] = "image"
  /\ TargetTail # SourceTail => dur[TargetTail] = "zero"

\* What a boot after a power cut would find: new metadata only ever stands on
\* a completely and correctly stored image body, although the page cache is
\* free to persist sectors in any order and the medium may lose writes.
ActivationFollowsBody == FrontNew => BodyNew

\* The old metadata goes before the data it describes ("Deactivate the complete
\* primary metadata envelope first and make it durable before touching bulk data").
\* The code does not read the zeroes of the front guard back before it copies: old
\* metadata over a body already overwritten is possible, but only in sectors that
\* dropped an acknowledged write, and never beside new metadata.
OldMetadataFollowsBody ==
  /\ \A b \in Front \ weak : dur[b] = "old" => BodyOld
  /\ FrontOld => ~FrontNew

\* The order of the two activation writes: in the forward path the tail sector
\* of the image is durable before any sector of the front guard is, unless it
\* dropped the write, which only the read-back after the activation shows.
TailBeforeFront ==
  FrontNew /\ pc \in {"write-front", "fsync-activation", "flush-activation",
                      "verify-active", "final-identity", "success"}
    => dur[SourceTail] = "image" \/ SourceTail \in weak

\* What a power cut at any moment leaves: the three orders together.
CrashSafe == ActivationFollowsBody /\ OldMetadataFollowsBody /\ TailBeforeFront

\* A reported success is a complete durable image on the authorized disk, with
\* no stale backup metadata at its physical end and nothing left in the cache.
SuccessIsDurable == pc = "success" => Complete /\ dirty = {} /\ alien = {}

\* A request that is refused or cancelled has not changed one sector, of this
\* medium or of one that replaced it.
RefusedIsUntouched ==
  pc \in PreCommit \union {"cancelled", "refused"} =>
    dirty = {} /\ alien = {} /\ \A b \in Blocks : dur[b] = "old"

\* A failure whose emergency deactivation went through leaves no front or tail
\* metadata, old or new, on the medium, even when the failure was a lost fsync.
\* The zeroes are not read back: a sector that dropped them keeps what it held.
DeactivatedIsInert ==
  pc = "deactivated" /\ swap = "none" =>
    \A b \in DeactivationRegions \ weak : dur[b] = "zero"

\* What the caller is told is true of the medium: the three reports together.
ReportIsTrue == SuccessIsDurable /\ RefusedIsUntouched /\ DeactivatedIsInert

\* A medium exchanged before the recheck that follows COMMIT is never written,
\* and one exchanged before the identity check of the activation never gets
\* activation metadata: neither from a write, nor from the page cache, nor
\* from the emergency deactivation.
ReplacementIsSpared ==
  /\ swap \in PreCommit \union {"committed"} => alien = {}
  /\ swap \in PreActivation => \A b \in Front \union {SourceTail} : <<b, "image">> \notin alien

\* Every transaction ends, whatever fails: no step waits for another process.
Terminates == <>(pc \in Ended)

\* The promise of the writer, as an abstract state machine over what a boot
\* would find on the medium.
View ==
  CASE \A b \in Blocks : dur[b] = "old"   -> "intact"
    [] FrontOld /\ ~FrontNew /\ BodyOld /\ \E b \in Blocks : dur[b] # "old" -> "opened"
    [] FrontOld /\ ~FrontNew /\ ~BodyOld   -> "stale"
    [] ~FrontOld /\ ~FrontNew              -> "inert"
    [] ~FrontOld /\ FrontNew /\ BodyNew /\ ~Complete -> "arming"
    [] Complete                             -> "active"
    [] OTHER                                -> "torn"

Outcome ==
  CASE pc = "success"                       -> "succeeded"
    [] pc \in {"cancelled", "refused"}      -> "untouched"
    [] pc \in Running                       -> "running"
    [] OTHER                                -> "failed"

Activation ==
  INSTANCE MediumActivation WITH reliable <- weak = {}, view <- View, outcome <- Outcome
ImplementsActivation == Activation!Spec
=============================================================================
