----------------------------- MODULE Authorizations ------------------------------
(***************************************************************************)
(* How a drive is authorized for a privileged write: a plan is built for a *)
(* discovered drive, the user types the phrase of the plan, the drive is   *)
(* unmounted and witnessed again, and the last look comes right before the *)
(* helper is launched. Every step leaves a receipt, which counts only for  *)
(* the very objects that it was minted for.                                *)
(*                                                                         *)
(* A look at the drive is several reads, one after the other: the node of  *)
(* the path, the record and the topology that lsblk shows, the disk        *)
(* sequence of the kernel, which grows with every drive that gets the      *)
(* path.                                                                   *)
(*                                                                         *)
(* Six authorizations make their calls. Four have a source: a raw image    *)
(* (raw_device.py), and a Syslinux, a GRUB rescue and a Windows medium     *)
(* (syslinux_device.py, grub_rescue_device.py, windows_device.py), which   *)
(* look at the staged tree or the prepared image again at the beginning of *)
(* every call. The two erasures have none: zeroes, of fast_zero.py, whose  *)
(* two looks after the unmount go by the path alone; and "zero and         *)
(* format", of restore_workflow.py, whose drive is unmounted before it is  *)
(* planned for, and whose last look comes when the helper asks for COMMIT. *)
(*                                                                         *)
(* Each authorization has the privileged helper that it launches; one of   *)
(* them is used.                                                           *)
(*                                                                         *)
(* The helpers, from their start to the first write, are main and the      *)
(* three execute_... of syslinux_device_helper.py, and                     *)
(* serve_restore_device_channel of restore_device_helper.py.  A helper     *)
(* trusts nothing that the program looked at: it finds the drive again by  *)
(* its number, in sysfs, and holds it open for itself alone.  What it finds*)
(* when it looks at the layout of the image is what its checks say of the  *)
(* volumes of FatImage that isopropyl builds, and not just any answer.     *)
(***************************************************************************)
EXTENDS Naturals, FiniteSets

CONSTANTS
  MaxGeneration,  \* bound: drives that have the path, one after the other
  MaxReceipts     \* bound: plans, confirmations and receipts, copies included

ASSUME AuthorizationAssumption == MaxGeneration \in Nat \ {0} /\ MaxReceipts \in Nat

VARIABLES
  kind,     \* whose authorization it is
  drive,    \* every generation: its look in lsblk, its number, does it hold the source
  seq,      \* the generation that has the path now
  mounted,  \* a file system of it is mounted
  input,    \* what shall be written: "bound", or "changed" after it was planned for
  plan,     \* two plans, each minted, a clone or none
  conf,     \* two confirmations
  ready,    \* two receipts of an unmounted drive
  call,     \* the call that is under way, with what it has read
  launch    \* of the launched helper: the receipts, and what was true of the drive

receipts == <<plan, conf, ready>>
world == <<kind, drive, seq, mounted, input>>
authorizationVars == <<world, receipts, call, launch>>

Generations == 1..MaxGeneration
Slots == {1, 2}

\* A drive of the same model as ours is shown like ours.
Drives == {[look |-> "ours", number |-> "n1", home |-> home] : home \in BOOLEAN}
            \cup {[look |-> "other", number |-> number, home |-> FALSE] : number \in {"n1", "n2"}}

\* What lsblk shows of the drive that has the path.
Shown == [look |-> drive[seq].look, number |-> drive[seq].number,
          home |-> drive[seq].home, mounted |-> mounted]

\* A Device record, which knows nothing of the topology.
Device(shown) == [shown EXCEPT !.home = FALSE]

\* The bound on the receipts.
Used(slots) == {s \in Slots : slots[s].state # "none"}
ReceiptsLeft == Cardinality(Used(plan)) + Cardinality(Used(conf)) + Cardinality(Used(ready)) < MaxReceipts

Nowhere == [look |-> "none", number |-> "none", home |-> FALSE, mounted |-> FALSE]
NoPlan == [state |-> "none", device |-> Nowhere, sequence |-> 0]
NoConfirmation == [state |-> "none", plan |-> 1, generation |-> 0]
NoReady == [state |-> "none", plan |-> 1, conf |-> 1, device |-> Nowhere]
NoLaunch == [done |-> FALSE, plan |-> 1, conf |-> 1, ready |-> 1,
             generation |-> 0, mounted |-> FALSE, home |-> FALSE]
NoCall == [name |-> "none", plan |-> 1, conf |-> 1, ready |-> 1, step |-> "none",
           device |-> Nowhere, shown |-> Nowhere, generation |-> 0, sequence |-> 0]

AuthorizationInit ==
  /\ drive \in {d \in [Generations -> Drives] : d[1].look = "ours"}
  /\ seq = 1 /\ mounted \in BOOLEAN /\ input = "bound"
  /\ plan = [s \in Slots |-> NoPlan]
  /\ conf = [s \in Slots |-> NoConfirmation]
  /\ ready = [s \in Slots |-> NoReady]
  /\ call = NoCall /\ launch = NoLaunch

-----------------------------------------------------------------------------
(* The environment. *)

\* The drive is pulled out and another gets the path.
Exchanged ==
  /\ seq < MaxGeneration /\ seq' = seq + 1 /\ mounted' = FALSE
  /\ UNCHANGED <<kind, drive, input, receipts, call, launch>>

\* The desktop mounts it, or somebody unmounts it.
MountChanges ==
  /\ mounted' = ~mounted
  /\ UNCHANGED <<kind, drive, seq, input, receipts, call, launch>>

\* A copy of a receipt's owner, altered or not, in the hands of the caller.
Cloned ==
  /\ call.name = "none" /\ ~launch.done /\ ReceiptsLeft
  /\ \/ /\ plan[1].state = "minted" /\ plan[2].state = "none"
        /\ plan' = [plan EXCEPT ![2] = [plan[1] EXCEPT !.state = "clone"]]
        /\ UNCHANGED <<conf, ready>>
     \/ /\ conf[1].state = "minted" /\ conf[2].state = "none"
        /\ conf' = [conf EXCEPT ![2] = [conf[1] EXCEPT !.state = "clone"]]
        /\ UNCHANGED <<plan, ready>>
     \/ /\ ready[1].state = "minted" /\ ready[2].state = "none"
        /\ ready' = [ready EXCEPT ![2] = [ready[1] EXCEPT !.state = "clone"]]
        /\ UNCHANGED <<plan, conf>>
  /\ UNCHANGED <<world, call, launch>>

\* The staged tree, or the prepared image, is not what was planned any more.
InputChanges ==
  /\ kind \notin {"fast-zero", "restore"}
  /\ input = "bound" /\ input' = "changed"
  /\ UNCHANGED <<kind, drive, seq, mounted, receipts, call, launch>>

Environment == Exchanged \/ MountChanges \/ Cloned \/ InputChanges

-----------------------------------------------------------------------------
(* A call.  The caller may hand any plan, confirmation and receipt to it. *)

Begins(name, step, p, c, r, device) ==
  /\ call.name = "none" /\ ~launch.done
  /\ call' = [NoCall EXCEPT !.name = name, !.step = step, !.plan = p, !.conf = c, !.ready = r, !.device = device]
  /\ UNCHANGED <<world, receipts, launch>>

In(name, step) == call.name = name /\ call.step = step

Continues(name, from, to) == In(name, from) /\ call' = [call EXCEPT !.step = to] /\ UNCHANGED <<world, receipts, launch>>

\* An error, a failed test or a cancellation; nothing is minted.
Raises ==
  /\ call.name # "none" /\ call' = NoCall
  /\ UNCHANGED <<world, receipts, launch>>

\* _validate_target_node: lstat of the path.
ReadsNode(name, device, from, to) == drive[seq].number = device.number /\ Continues(name, from, to)

\* _probe_live_target: lsblk of the path.
ReadsLive(name, from, to) ==
  /\ In(name, from)
  /\ call' = [call EXCEPT !.step = to, !.shown = Shown, !.generation = seq]
  /\ UNCHANGED <<world, receipts, launch>>

\* _validate_live_target: the record is the expected one, with its mounts.
ReadsSameLive(name, device, from, to) == Device(Shown) = device /\ ReadsLive(name, from, to)

\* _read_disk_sequence.
ReadsSequence(name, from, to) ==
  /\ In(name, from)
  /\ call' = [call EXCEPT !.step = to, !.sequence = seq]
  /\ UNCHANGED <<world, receipts, launch>>

\* Mutation: the disk sequence is not compared.
SequenceForgotten(name, expected, from, to) == ReadsSequence(name, from, to)

ReadsSameSequence(name, expected, from, to) == seq = expected /\ ReadsSequence(name, from, to)

\* The source and the workspace are not on the drive that lsblk showed.
SourceResidency == ~call.shown.home

\* Everything but the mounts as in the plan, and no mounts.
PostUnmountMatches(original, current) == current = [original EXCEPT !.mounted = FALSE]

Authoritative(p) == plan[p].state = "minted"
ConfirmationFits(p, c) == conf[c].state = "minted" /\ conf[c].plan = p
ReadyFits(p, c, r) ==
  /\ ready[r].state = "minted" /\ ready[r].plan = p /\ ready[r].conf = c
  /\ PostUnmountMatches(plan[p].device, ready[r].device)

MintsPlan(name, from) ==
  /\ In(name, from)
  /\ plan' = [plan EXCEPT ![call.plan] =
                [state |-> "minted", device |-> call.device, sequence |-> call.sequence]]
  /\ call' = NoCall
  /\ UNCHANGED <<world, conf, ready, launch>>

MintsConfirmation(name, from) ==
  /\ In(name, from)
  /\ conf' = [conf EXCEPT ![call.conf] =
                [state |-> "minted", plan |-> call.plan, generation |-> call.generation]]
  /\ call' = NoCall
  /\ UNCHANGED <<world, plan, ready, launch>>

MintsReady(name, from) ==
  /\ In(name, from)
  /\ ready' = [ready EXCEPT ![call.ready] =
                 [state |-> "minted", plan |-> call.plan, conf |-> call.conf, device |-> Device(call.shown)]]
  /\ call' = NoCall
  /\ UNCHANGED <<world, plan, conf, launch>>

\* The helper is launched with the request of the plan.
Launches(name, from) ==
  /\ In(name, from)
  /\ launch' = [done |-> TRUE, plan |-> call.plan, conf |-> call.conf, ready |-> call.ready,
                generation |-> call.generation, mounted |-> call.shown.mounted, home |-> call.shown.home]
  /\ call' = NoCall
  /\ UNCHANGED <<world, receipts>>

Discovered == {[look |-> "ours", number |-> "n1", home |-> FALSE, mounted |-> m] : m \in BOOLEAN}
\* The two slots of a receipt are alike, and the first is used first.
FirstEmpty(slots) == {s \in Slots \ Used(slots) : ReceiptsLeft /\ 1..(s - 1) \subseteq Used(slots)}
EmptyPlans == FirstEmpty(plan)
EmptyConfirmations == FirstEmpty(conf)
EmptyReadies == FirstEmpty(ready)

-----------------------------------------------------------------------------
\* _validate_static_relationships: the receipt of the plan is its own.
StaticRelationships(p) == Authoritative(p)

\* _validate_confirmation_receipt.
ConfirmationReceipt(p, c) == ConfirmationFits(p, c)

BuildPlan ==
  \/ \E p \in EmptyPlans : \E d \in Discovered : Begins("build", "node", p, 1, 1, d)
  \/ ReadsNode("build", call.device, "node", "live")
  \/ ReadsSameLive("build", call.device, "live", "sequence")
  \/ ReadsSequence("build", "sequence", "mint")
  \/ SourceResidency /\ MintsPlan("build", "mint")

\* _validate_relationships, then the phrase of the plan.
Confirm ==
  \/ \E p \in Slots : \E c \in EmptyConfirmations :
       StaticRelationships(p) /\ Begins("confirm", "node", p, c, 1, plan[p].device)
  \/ ReadsNode("confirm", call.device, "node", "live")
  \/ ReadsSameLive("confirm", call.device, "live", "sequence")
  \/ SourceResidency /\ ReadsSameSequence("confirm", plan[call.plan].sequence, "sequence", "mint")
  \/ MintsConfirmation("confirm", "mint")

AuthorizeUnmounted ==
  \/ \E p, c \in Slots : \E r \in EmptyReadies :
       /\ StaticRelationships(p) /\ ConfirmationReceipt(p, c)
       /\ Begins("authorize", "node", p, c, r, plan[p].device)
  \/ ReadsNode("authorize", call.device, "node", "live")
  \/ PostUnmountMatches(call.device, Device(Shown)) /\ ReadsLive("authorize", "live", "sequence")
  \/ SourceResidency /\ ReadsSameSequence("authorize", plan[call.plan].sequence, "sequence", "mint")
  \/ MintsReady("authorize", "mint")

ValidateReady ==
  \/ \E p, c, r \in Slots :
       /\ StaticRelationships(p) /\ ConfirmationReceipt(p, c) /\ ReadyFits(p, c, r)
       /\ Begins("ready", "node", p, c, r, ready[r].device)
  \/ ReadsNode("ready", call.device, "node", "live")
  \/ ReadsSameLive("ready", call.device, "live", "sequence")
  \/ SourceResidency /\ ReadsSameSequence("ready", plan[call.plan].sequence, "sequence", "launch")
  \/ Launches("ready", "launch")

RawCalls == BuildPlan \/ Confirm \/ AuthorizeUnmounted \/ ValidateReady

-----------------------------------------------------------------------------
(* With a staged tree or a prepared image. *)

\* validate_syslinux_iso_fat32_plan: the staged tree is the planned one.
SyslinuxCompositePlan == input = "bound"
SyslinuxStaticRelationships == call.name = "none" => SyslinuxCompositePlan

BuildSyslinuxPlan == SyslinuxStaticRelationships /\ BuildPlan
ConfirmSyslinux == SyslinuxStaticRelationships /\ Confirm
AuthorizeUnmountedSyslinux == SyslinuxStaticRelationships /\ AuthorizeUnmounted
ValidateReadySyslinux == SyslinuxStaticRelationships /\ ValidateReady

SyslinuxCalls ==
  BuildSyslinuxPlan \/ ConfirmSyslinux \/ AuthorizeUnmountedSyslinux \/ ValidateReadySyslinux

\* _validate_prepared_binding: the prepared image is attested, and still ours.
PreparedBinding == input = "bound"
GrubStatic == call.name = "none" => PreparedBinding

BuildGrubPlan == GrubStatic /\ BuildPlan
ConfirmGrub == GrubStatic /\ Confirm
AuthorizeUnmountedGrub == GrubStatic /\ AuthorizeUnmounted
ValidateReadyGrub == GrubStatic /\ ValidateReady

GrubCalls == BuildGrubPlan \/ ConfirmGrub \/ AuthorizeUnmountedGrub \/ ValidateReadyGrub

\* validate_windows_iso_fat32_plan: the staged tree is the planned one.
WindowsCompositePlan == input = "bound"
WindowsReceipt == call.name = "none" => WindowsCompositePlan

BuildWindowsPlan == WindowsReceipt /\ BuildPlan
ConfirmWindows == WindowsReceipt /\ Confirm
AuthorizeUnmountedWindows == WindowsReceipt /\ AuthorizeUnmounted
ValidateReadyWindows == WindowsReceipt /\ ValidateReady

WindowsCalls ==
  BuildWindowsPlan \/ ConfirmWindows \/ AuthorizeUnmountedWindows \/ ValidateReadyWindows

-----------------------------------------------------------------------------
(* An erasure with zeroes. *)

\* _validate_fast_zero_plan_receipt.
FastZeroPlanReceipt(p) == Authoritative(p)

\* _validate_confirmation, without a look.
FastZeroConfirmationReceipt(p, c) == FastZeroPlanReceipt(p) /\ ConfirmationFits(p, c)

\* _default_observe_selected.
ObserveSelected(name, from, live, sequence) ==
  \/ ReadsNode(name, call.device, from, live)
  \/ ReadsSameLive(name, call.device, live, sequence)

\* _default_observe_path.
ObservePath(name, from, to) ==
  PostUnmountMatches(plan[call.plan].device, Device(Shown)) /\ ReadsLive(name, from, to)

\* build_fast_zero_plan looks twice.
BuildFastZeroPlan ==
  \/ \E p \in EmptyPlans : \E d \in Discovered : Begins("build", "node", p, 1, 1, d)
  \/ ObserveSelected("build", "node", "live", "sequence")
  \/ ReadsSequence("build", "sequence", "node-again")
  \/ ObserveSelected("build", "node-again", "live-again", "sequence-again")
  \/ ReadsSameSequence("build", call.sequence, "sequence-again", "mint")
  \/ MintsPlan("build", "mint")

ConfirmFastZero ==
  \/ \E p \in Slots : \E c \in EmptyConfirmations :
       FastZeroPlanReceipt(p) /\ Begins("confirm", "node", p, c, 1, plan[p].device)
  \/ ObserveSelected("confirm", "node", "live", "sequence")
  \/ ReadsSameSequence("confirm", plan[call.plan].sequence, "sequence", "mint")
  \/ MintsConfirmation("confirm", "mint")

\* authorize_unmounted_fast_zero looks twice.
AuthorizeUnmountedFastZero ==
  \/ \E p, c \in Slots : \E r \in EmptyReadies :
       FastZeroConfirmationReceipt(p, c) /\ Begins("authorize", "live", p, c, r, plan[p].device)
  \/ ObservePath("authorize", "live", "sequence")
  \/ ReadsSameSequence("authorize", plan[call.plan].sequence, "sequence", "live-again")
  \/ ObservePath("authorize", "live-again", "sequence-again")
  \/ ReadsSameSequence("authorize", plan[call.plan].sequence, "sequence-again", "mint")
  \/ MintsReady("authorize", "mint")

ValidateReadyFastZero ==
  \/ \E p, c, r \in Slots :
       /\ FastZeroConfirmationReceipt(p, c) /\ ReadyFits(p, c, r)
       /\ Begins("ready", "live", p, c, r, ready[r].device)
  \/ ObservePath("ready", "live", "sequence")
  \/ ReadsSameSequence("ready", plan[call.plan].sequence, "sequence", "launch")
  \/ Launches("ready", "launch")

FastZeroCalls == BuildFastZeroPlan \/ ConfirmFastZero \/ AuthorizeUnmountedFastZero \/ ValidateReadyFastZero

-----------------------------------------------------------------------------
(* Zero and format. *)

ValidateRestorePlan(p) == Authoritative(p)
ValidateConfirmedRestore(p, c) == ValidateRestorePlan(p) /\ ConfirmationFits(p, c)

\* _validate_device_and_format refuses a drive that is mounted.
Unmounted(d) == ~d.mounted

\* _observe_target.
ObserveTarget(name) ==
  \/ ReadsNode(name, call.device, "node", "live")
  \/ ReadsSameLive(name, call.device, "live", "sequence")

BuildRestorePlan ==
  \/ \E p \in EmptyPlans : \E d \in Discovered : Unmounted(d) /\ Begins("build", "node", p, 1, 1, d)
  \/ ObserveTarget("build")
  \/ ReadsSequence("build", "sequence", "mint")
  \/ MintsPlan("build", "mint")

\* The phrase first, then _require_same_live_target.
ConfirmRestore ==
  \/ \E p \in Slots : \E c \in EmptyConfirmations :
       ValidateRestorePlan(p) /\ Begins("confirm", "node", p, c, 1, plan[p].device)
  \/ ObserveTarget("confirm")
  \/ ReadsSameSequence("confirm", plan[call.plan].sequence, "sequence", "mint")
  \/ MintsConfirmation("confirm", "mint")

\* confirm_commit.
ConfirmRestoreCommit ==
  \/ \E p, c \in Slots : ValidateConfirmedRestore(p, c) /\ Begins("ready", "node", p, c, 1, plan[p].device)
  \/ ObserveTarget("ready")
  \/ ReadsSameSequence("ready", plan[call.plan].sequence, "sequence", "launch")
  \/ Launches("ready", "launch")

RestoreCalls == BuildRestorePlan \/ ConfirmRestore \/ ConfirmRestoreCommit

-----------------------------------------------------------------------------
(* The helper. *)

VARIABLE helper  \* the helper that was started, with its target descriptor

vars == <<authorizationVars, helper>>

Image == INSTANCE FatImage

\* What is installed, by whom its files and their directories may be written, and what the
\* PolicyKit action allows.
Host(file, parents, policy) == [file |-> file, parents |-> parents, policy |-> policy, program |-> "package"]
Hosts == {Host("root", "root", "narrow"), Host("user", "root", "narrow"),
          Host("root", "user", "narrow"), Host("root", "root", "broad")}

NoHelper == [step |-> "off", plan |-> 1, conf |-> 1, request |-> [number |-> "none", sequence |-> 0], fd |-> 0, exclusive |-> FALSE,
             images |-> {}, plain |-> TRUE, misjudged |-> FALSE, host |-> Host("root", "root", "narrow")]

\* The images that may be built, with what the helper says of each.  plain: the names are
\* spelled as the helper looks for them; laid: the layout is the one that it expects.
Layouts == [plain : BOOLEAN, laid : BOOLEAN]

Built == IF kind \in {"syslinux", "grub", "windows"} THEN Layouts \cap Image!Judgements(kind) ELSE {}

EntryInit == helper = [NoHelper EXCEPT !.images = Built]

Sourced == kind \in {"raw", "syslinux", "grub", "windows"}

Becomes(from, to, h) ==
  /\ helper.step = from /\ helper' = [h EXCEPT !.step = to]
  /\ UNCHANGED authorizationVars

Goes(from, to) == Becomes(from, to, helper)

\* Nothing of it is left, and the drive is closed; the image was refused for its names, or
\* for its layout, if it was looked at.
Refused(plain, misjudged) ==
  /\ helper' = [NoHelper EXCEPT !.step = "refused", !.plain = plain, !.misjudged = misjudged]
  /\ UNCHANGED authorizationVars

\* Any step may fail.
Refuses == helper.step \notin {"off", "refused", "writing"} /\ Refused(TRUE, FALSE)

-----------------------------------------------------------------------------
(* The installation.  The runner looks at it before the image is built and the drive is  *)
(* unmounted, and starts what it found a good while later.                               *)

\* validate_confirmed: the receipts of the plan that is run.
Runs(to) ==
  \E p, c \in Slots : \E host \in Hosts :
    /\ call.name = "none" /\ Authoritative(p) /\ ConfirmationFits(p, c)
    /\ Becomes("off", to, [helper EXCEPT !.plan = p, !.conf = c, !.host = host])

\* Whoever may write to a file may change it, and who may write to a directory above it may
\* put another in its place, one of root's as well.
ProgramReplaced ==
  /\ helper.step \in {"files", "parents", "policy", "image", "start"}
  /\ helper.host.file = "user" \/ helper.host.parents = "user"
  /\ helper' = [helper EXCEPT !.host.program = "other"]
  /\ UNCHANGED authorizationVars

\* A look, between the calls.
Looks(from, to) == call.name = "none" /\ Goes(from, to)

TrustedFile == helper.host.file = "root"
TrustedParents == helper.host.parents = "root"

\* Exactly one action, for this program and this operation, that asks for an administrator.
ValidatePolicy == helper.host.policy = "narrow"

\* resolve_..._helper_installation: the files first.
ResolveHelperInstallation(to) ==
  \/ TrustedFile /\ Looks("files", "parents")
  \/ TrustedParents /\ Looks("parents", "policy")
  \/ ValidatePolicy /\ Looks("policy", to)

ResolveRawHelper == kind = "raw" /\ ResolveHelperInstallation("image")
ResolveSyslinuxHelper == kind = "syslinux" /\ ResolveHelperInstallation("image")
ResolveGrubRescueHelper == kind = "grub" /\ ResolveHelperInstallation("image")
ResolveWindowsHelper == kind = "windows" /\ ResolveHelperInstallation("image")
ResolveFastZeroHelper == kind = "fast-zero" /\ ResolveHelperInstallation("start")

\* _trusted_file looks at the directories of each file at once, the one of the policy too.
ResolveRestoreInstallation ==
  \/ TrustedFile /\ TrustedParents /\ Looks("files", "policy")
  \/ ValidatePolicy /\ Looks("policy", "start")

\* The snapshot or the image is the one of the plan; those of Syslinux and Windows are built
\* here from the staged tree, that of GRUB was built before it was planned for.
ValidatePrepared(operation) == kind = operation /\ input = "bound" /\ Looks("image", "start")
ValidatePreparedSyslinux == ValidatePrepared("syslinux")
ValidatePreparedGrubRescue == ValidatePrepared("grub")
ValidatePreparedWindows == ValidatePrepared("windows")

RunRaw == ResolveRawHelper \/ ValidatePrepared("raw")
RunSyslinux == ResolveSyslinuxHelper \/ ValidatePreparedSyslinux
RunGrubRescue == ResolveGrubRescueHelper \/ ValidatePreparedGrubRescue
RunWindows == ResolveWindowsHelper \/ ValidatePreparedWindows

-----------------------------------------------------------------------------
(* The start, as root, and the request. *)

\* What a request says of the drive, for as long as the helper lives: a number and a
\* sequence, not a path.
DeviceRequest(p) == [number |-> plan[p].device.number, sequence |-> plan[p].sequence]

\* The same of a restore; a digest binds it to the plan.
RestoreRequest(p) == [number |-> plan[p].device.number, sequence |-> plan[p].sequence]

\* pkexec starts the helper after the last look.
DeviceHelperStarts ==
  /\ launch.done /\ launch.plan = helper.plan /\ launch.conf = helper.conf
  /\ Becomes("start", "main", [helper EXCEPT !.request = DeviceRequest(helper.plan)])

\* That of "zero and format" starts with the confirmed plan, before the last look.
RestoreHelperStarts ==
  Becomes("start", "main", [helper EXCEPT !.request = RestoreRequest(helper.plan)])

\* The script is the installed one, the namespaces are the first ones, nothing is inherited.
HardenProcess == Goes("main", "ready")
HardenRootProcess == Goes("main", "ready")

\* _target_path_from_kernel: the drive that has the number.
HasNumber == drive[seq].number = helper.request.number

\* One packet of the user who asked, with the source, or with no descriptor at all.
ReceiveRequest == Sourced /\ Goes("ready", "packet")
ReceiveTargetOnlyRequest == kind = "fast-zero" /\ Goes("ready", "packet")
ReceiveRestoreRequest == HasNumber /\ Goes("ready", "node")

\* The path follows from the number, while the request is decoded.
Unpacks(operation, to) == kind = operation /\ HasNumber /\ Goes("packet", to)

UnpackHelperRequest == Unpacks("syslinux", "source")
UnpackWindowsHelperRequest == Unpacks("windows", "source")
UnpackGrubRescueHelperRequest == Unpacks("grub", "source")
UnpackRawHelperRequest == Unpacks("raw", "source")
UnpackFastZeroHelperRequest == Unpacks("fast-zero", "node")

-----------------------------------------------------------------------------
(* The source: a nameless file of the user, locked. *)

SourceStatus == Goes("source", IF kind = "raw" THEN "hash" ELSE "layout")

\* Whatever the size; an image that was written to since may look like anything.
ImageLayout ==
  /\ helper.step = "layout"
  /\ \E image \in helper.images :
       \/ image.laid /\ Becomes("layout", "hash", [helper EXCEPT !.plain = image.plain])
       \/ ~image.laid /\ Refused(image.plain, input = "bound")

\* The digest is the one of the request, and the status is what it was.
SourceHash == input = "bound" /\ Goes("hash", "node")

SourceUnchanged(from, to) == (Sourced => input = "bound") /\ Goes(from, to)

-----------------------------------------------------------------------------
(* The target. *)

NodeIsTarget(from, to) == HasNumber /\ Goes(from, to)

\* inspect_kernel_target and what is asked of it; a source may not be on the drive.
Observed(from, to) ==
  /\ HasNumber /\ seq = helper.request.sequence
  /\ Sourced => ~drive[seq].home
  /\ Goes(from, to)

\* active_kernel_devices: neither mounted nor swap.
Inactive(from, to) == ~mounted /\ Goes(from, to)

\* The identity of the descriptor, whatever has the path meanwhile.
OpenedIdentity(from, to) ==
  /\ Goes(from, to)
  /\ drive[helper.fd].number = helper.request.number /\ helper.fd = helper.request.sequence

\* Mutation: the drive is not claimed.
OpenShared == ~mounted /\ Becomes("open", "identity", [helper EXCEPT !.fd = seq])

\* O_EXCL: the kernel gives it to nobody else, and nobody may mount it while it is held.
OpenExclusively ==
  ~mounted /\ Becomes("open", "identity", [helper EXCEPT !.fd = seq, !.exclusive = TRUE])

\* The program answers PREPARED with COMMIT; then everything once more.
Commit == Goes("prepared", "committed")

DeviceHelperEnters ==
  \/ Runs("files") \/ RunRaw \/ RunSyslinux \/ RunGrubRescue \/ RunWindows \/ ResolveFastZeroHelper
  \/ DeviceHelperStarts \/ HardenProcess \/ ReceiveRequest \/ ReceiveTargetOnlyRequest
  \/ UnpackHelperRequest \/ UnpackWindowsHelperRequest \/ UnpackGrubRescueHelperRequest
  \/ UnpackRawHelperRequest \/ UnpackFastZeroHelperRequest
  \/ SourceStatus \/ ImageLayout \/ SourceHash
  \/ NodeIsTarget("node", "observe") \/ Observed("observe", "active") \/ Inactive("active", "open")
  \/ OpenExclusively
  \/ OpenedIdentity("identity", "observe-opened")
  \/ Observed("observe-opened", "active-opened") \/ Inactive("active-opened", "node-opened")
  \/ NodeIsTarget("node-opened", "source-opened") \/ SourceUnchanged("source-opened", "prepared")
  \/ Commit
  \/ OpenedIdentity("committed", "node-committed") \/ NodeIsTarget("node-committed", "observe-committed")
  \/ Observed("observe-committed", "active-committed") \/ Inactive("active-committed", "source-committed")
  \/ SourceUnchanged("source-committed", "writing")

-----------------------------------------------------------------------------
(* The target, as the restore helper looks at it. *)

RestoreObserved(from, to) == HasNumber /\ seq = helper.request.sequence /\ Goes(from, to)
RestoreInactive(from, to) == ~mounted /\ Goes(from, to)

\* _require_topology.
RestoreTopology(from, between, to) == RestoreObserved(from, between) \/ RestoreInactive(between, to)

\* _require_target.
RestoreTarget(from, to) ==
  /\ Goes(from, to)
  /\ drive[helper.fd].number = helper.request.number /\ helper.fd = helper.request.sequence

\* The program sends COMMIT after its last look only.
RestoreCommit == launch.done /\ launch.plan = helper.plan /\ Goes("prepared", "committed")

RestoreHelperEnters ==
  \/ Runs("files") \/ ResolveRestoreInstallation
  \/ RestoreHelperStarts \/ HardenRootProcess \/ ReceiveRestoreRequest
  \/ NodeIsTarget("node", "observe") \/ RestoreTopology("observe", "active", "open")
  \/ OpenExclusively
  \/ RestoreTarget("identity", "observe-opened")
  \/ RestoreTopology("observe-opened", "active-opened", "node-opened")
  \/ NodeIsTarget("node-opened", "prepared")
  \/ RestoreCommit
  \/ RestoreTarget("committed", "observe-committed")
  \/ RestoreTopology("observe-committed", "active-committed", "writing")

HelperEnters ==
  \/ kind # "restore" /\ DeviceHelperEnters
  \/ kind = "restore" /\ RestoreHelperEnters
  \/ ProgramReplaced \/ Refuses

\* A drive that is claimed is not mounted by the desktop.
Claimed == helper.exclusive /\ helper.fd = seq

-----------------------------------------------------------------------------
(* The authorization and the helper. *)

Init ==
  /\ kind \in {"raw", "syslinux", "grub", "windows", "fast-zero", "restore"}
  /\ EntryInit /\ AuthorizationInit
  /\ kind \in {"fast-zero", "restore"} => \A g \in Generations : ~drive[g].home

Calls ==
  \/ kind = "raw" /\ RawCalls
  \/ kind = "syslinux" /\ SyslinuxCalls
  \/ kind = "grub" /\ GrubCalls
  \/ kind = "windows" /\ WindowsCalls
  \/ kind = "fast-zero" /\ FastZeroCalls
  \/ kind = "restore" /\ RestoreCalls

\* Plans and phrases come before the runner; it alone asks for the receipt and the last
\* look, once the installation and the image are known to be right.
CallIsInTurn ==
  call.name = "none" /\ call'.name # "none" =>
    helper.step \in IF call'.name \in {"build", "confirm"} THEN {"off"}
                    ELSE IF kind = "restore" THEN {"prepared"} ELSE {"start"}

Authorizes ==
  /\ \/ Calls \/ Raises \/ Exchanged \/ Cloned \/ InputChanges
     \/ ~Claimed /\ MountChanges
  /\ CallIsInTurn
  /\ UNCHANGED helper

Next == Authorizes \/ HelperEnters

Spec == Init /\ [][Next]_vars

-----------------------------------------------------------------------------
(* Properties. *)

\* The helper is launched with a plan, a confirmation and a receipt that were minted for
\* each other; the drive that the last look saw is the one that the user saw when the
\* phrase was accepted, although the phrase does not tell two drives on one path apart; the
\* last look saw no mount; and neither the source nor the workspace is on the drive.
LaunchIsBound ==
  launch.done =>
    /\ plan[launch.plan].state = "minted"
    /\ conf[launch.conf].state = "minted" /\ conf[launch.conf].plan = launch.plan
    /\ kind # "restore" =>
         /\ ready[launch.ready].state = "minted"
         /\ ready[launch.ready].plan = launch.plan /\ ready[launch.ready].conf = launch.conf
    /\ launch.generation = conf[launch.conf].generation
    /\ launch.generation = plan[launch.plan].sequence
    /\ ~launch.mounted
    /\ kind \notin {"fast-zero", "restore"} => ~drive[launch.generation].home

\* What a helper writes to is the very drive that the phrase was accepted for, whatever
\* happened between the last look and the open; it is not mounted, and does not become so;
\* the last look of a restore came before its COMMIT; and the helper is the program that was
\* installed, although it was looked at one file at a time, long before it was started.
WriteIsBound ==
  helper.step = "writing" =>
    /\ helper.fd = conf[helper.conf].generation /\ conf[helper.conf].plan = helper.plan
    /\ ~(mounted /\ seq = helper.fd)
    /\ launch.done /\ launch.plan = helper.plan
    /\ helper.host.program = "package"
    /\ kind \notin {"fast-zero", "restore"} => ~drive[helper.fd].home

\* An image that nobody has written to is laid out as the helper expects, whatever the size
\* of the drive, if each name that the helper looks for in a Windows image is in one case
\* or is the Boot of the root; and an image with any other spelling of such a name is never
\* written.  README.md:206-208 has only installers with "exact" names admitted, but the
\* planner and the builder fold the case (windows_iso_fat32.py:233-253, iso.py:260): they
\* admit what the helper, which looks for short names (syslinux_device_helper.py:1648-1655),
\* refuses in the end.
NamesDecide ==
  /\ helper.misjudged => ~helper.plain
  /\ helper.step \in {"hash", "node", "prepared", "committed", "writing"} => helper.plain
==================================================================================
