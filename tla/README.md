# ISOpropyl in TLA+

ISOpropyl writes operating-system images to removable media on Linux. It is a
Python program of three kinds of process: an unprivileged application (a Qt GUI
or a command line), root helpers that it starts through `pkexec` for one
transaction each, and external tools and services (UDisks, `sfdisk`, `mkfs`,
`dd`, `qemu-img`, wimlib). This directory holds TLA+ models of the program's
components that have a state, the TLC configurations that check them, and TLAPS
proofs about those on which the rest depends: the four transactions of the root
helpers, the conversation with them, the authorizations before it, the retries
below it, the main window, and everything that publishes a file.

Every definition is translated from the Python source; `PROJECT.json` maps it to
the lines it stands for. File names below are relative to `isopropyl/`.

## 1. Inventory

### Components

| Component | State | Operations | Interacts with | What makes it correct |
|---|---|---|---|---|
| **Raw transaction of the helper** (`execute_raw_helper_transaction`, `syslinux_device_helper.py`) | the opened target with its page cache, the anonymous source, front guard and tail held in memory, `mutation_attempted` | validate, open, prepare, commit, deactivate, copy, verify, activate, verify, emergency deactivation | kernel (write-back, `fsync`, `BLKFLSBUF`), the channel | order of durability: no new metadata over an incomplete body; on a medium that keeps its promises, no old metadata over a destroyed one; no false success, refused means untouched |
| **MBR transactions** (Syslinux, Windows, GRUB: `execute_helper_transaction`) | the same, with sector zero as the only guard | the same with one activation write | the same | the same |
| **Fast zero** (`execute_fast_zero_helper_transaction`, `fast_zero.py`) | chunk counters, target, `committed` | scan, skip or overwrite a chunk, read back, cancel after COMMIT, clean-up of both ends | its runner, kernel | success is zeroes; counters that are true; a partial result that claims a clean-up has proved it |
| **Helper protocol and runners** (`main` and `_ProtocolProgress` of the helper; `raw_device_runner.py`, `syslinux_device_runner.py`, `windows_device_runner.py`, `grub_rescue_device_runner.py`) | helper: mutation, connection; runner: `_cancelled`, `_request_sent`, `_commit_sent`, `_cancel_sent`, the progress seen | READY, request, PREPARED, COMMIT/CANCEL, progress, SUCCESS, exit; run, cancel, stop and reap | each other over `SOCK_SEQPACKET`; workflow, user thread | one decision, a commit that cannot be lost, a report that is true of the medium and always comes |
| **Device authorization** (`raw_device.py`, `syslinux_device.py`, `grub_rescue_device.py`, `windows_device.py`, `fast_zero.py`, `restore_workflow.py`) | receipts of plan, confirmation and unmount, bound to object identities | build a plan, confirm, authorize after the unmount, last look | `lsblk`, sysfs, UDisks, the helper's own checks | the drive that is written to is the drive that the phrase was typed for |
| **Positional I/O** (`_retry_positional_call` of the device helper, `descriptor_io.py`, `_write_exact` of the restore helper) | bytes transferred, attempt counters, deadlines | call, retry, guard, back off, cancel | kernel | no byte skipped or misplaced, bounded attempts, no repetition onto another medium, a stop that is heard |
| **Workflows** (`raw_workflow.py`, `syslinux_workflow.py`, `grub_rescue_workflow.py`, `restore_workflow.py`, `fast_zero.py`) | a state, `_cancelled`, `_close_requested`, owned resources, the runner | prepare, confirm, execute, cancel, close | GUI and CLI threads, builders, runner | nothing leaks, a commit is not hidden, cancellation is heard, every call ends |
| **Drive restore** (`restore_device_helper.py`, `restore_device_runner.py`) | whole disk and child partition, receipts | zero, partition, format, validate, emergency erasure | `sfdisk`, `mkfs`, its runner | no new layout over old data, no success without the complete receipt |
| **Raw snapshots** (`raw_snapshot.py`) | anonymous descriptor, receipt, lifecycle lock | build, attest, transfer, close | workflow, runner | one transfer, no use after close, no lock held for ever |
| **Private FAT images** (`private_fat32.py`, `windows_iso_fat32.py`, `syslinux_iso_fat32.py`, `grub_rescue.py`, `fat_image.py`) | anonymous image, digest, identity, poison | plan, build, patch, duplicate, close | staging, helper | the helper gets what was planned, and accepts it |
| **ISO staging and extraction** (`iso_staging.py`, `extraction.py`, `wim.py`) | a private tree, the active operation | extract, transform, split, compare, rename | wimlib, file system | all or nothing; a cancellation that reaches the active operation |
| **Downloads and boot files** (`verified_download.py`, `freedos_downloads.py`, `bootloaders.py`) | partial file, private workspace, cache | fetch, resume, verify, publish, remove | network, file system | only verified bytes are published |
| **Backups and optical captures** (`backup.py`, `optical.py`) | partial file, private directory, reader | capture, convert, compare, publish | `dd`, `qemu-img` | the published file is complete and of the right drive |
| **Compressed containers** (`sources.py`, `virtual.py`) | decoder, stage, descriptor | decode, describe, convert, close | `gzip`, `zstd`, `qemu-img` | a decoder that fails late is noticed; nothing stays |
| **Executors through UDisks** (`formatting.py`, `constructed.py`, `uefi_ntfs.py`, `casper_media.py`, `persistence.py`, `erase.py`, `media_test.py`, `writer.py`) | the child, mounts, what was changed | unmount, partition, format, mount, populate, test, power off | `sfdisk`, `mkfs`, `dd`, `udisksctl` | the authorized drive only; a report that says what happened |
| **Command line** (`cli.py`) | a cancellation event, a watcher thread | plan, confirm, write, signal | raw workflow | a signal becomes one `cancel()` |
| **Graphical application** (`app.py`) | the attributes of running operations, dialogs, queued signals, the selected image | start, confirm, cancel, close, select | all of the above | one operation at a time, in reach of cancel and close; no stale result |
| **Parsers and builders** (`images.py`, `uefi.py`, `windows_bcd*.py`, `authenticode*.py`, `eltorito.py`, ...) | none over time | parse, build, validate | files | formats |

### How they interact

The GUI or CLI calls a workflow. The workflow binds the source, expands it into
an anonymous snapshot or a private FAT image, asks for a confirmation, and hands
the descriptor to a runner. The runner looks at the drive a last time, starts the
root helper, waits for READY, sends one request with the descriptor, and answers
the helper's PREPARED with COMMIT or CANCEL. After COMMIT the helper is on its
own: it goes on without the application, and tells it what it can. Cancellation
comes from another thread at any time. The helper reaches the medium through the
kernel's page cache, and the medium can be exchanged, lose power, or fail to keep
what it acknowledged. The executors take another road: they stay unprivileged and
let UDisks and single commands under `pkexec` do the work.

### What is hard here

* **Crash and durability.** The kernel persists dirty pages in any order; a
  failed `fsync` loses them silently; a counterfeit medium acknowledges writes
  it drops; the card in the reader can be exchanged between two checks.
* **Failure inside failure.** The `except` clause of a transaction re-identifies
  the disk, zeroes regions and flushes, and each of these may fail.
* **Linearization.** A cancellation races with the decision, with a signal sent
  after a lock was released, with the last poll, with both time-outs.
* **One-sided death.** The helper must survive the application after COMMIT and
  must not outlive it before; a child under `pkexec` cannot be killed at all.
* **Several threads on one object.** `cancel()` and `close()` act on a state they
  read before; an event loop runs handlers inside an open dialog.
* **Sequences of reads.** Every look at a drive is several reads of a thing that
  can be exchanged between any two of them.
* **What a kill leaves behind** for the next run of a download or a cache.

`PROJECT.json` lists the hazards at their lines, with the properties that cover
them; a hazard that no property covers says why.

## 2. Modules

| Modules | Stand for | Run |
|---|---|---|
| `MediumActivation` | abstract: what a boot may find on a medium while a writer works, and what the caller is told | property of three runs |
| `BlockDevice` | page cache, medium, weak sectors, exchange of the medium | with the transactions |
| `RawTransaction`, `RawTransaction_proofs` | `execute_raw_helper_transaction`, and the proofs about it | `raw_transaction`, TLAPS |
| `MbrTransaction`, `MbrTransaction_proofs` | `execute_helper_transaction`: Syslinux, Windows, GRUB; proofs | `mbr_transaction`, TLAPS |
| `HelperProtocol`, `HelperProtocol_proofs` | a runner and its helper over the channel; proofs | `frontend`, `raw_protocol_order`, TLAPS |
| `PositionalIo`, `DescriptorRetry`, `PositionalRetry`, `PositionalRetry_proofs` | the three retrying writers and the retrying reader; proofs | `device_side`, `positional_cap`, TLAPS |
| `FastZeroSession`, `RestoreSession`, `ErasureTransactions`, `ErasureTransactions_proofs` | the two erasures, each a transaction with its channel and its runner; proofs | `erasure_transactions`, TLAPS |
| `WorkflowOwner`, `SourceWorkflows`, `ErasureWorkflows`, `DeviceWorkflows` | the five workflows and their three threads | `device_side`, `raw_workflow_cancel` |
| `Authorizations`, `Authorizations_proofs` | the calls of the six authorizations; the launch, and the helper up to its first write; proofs | `device_side`, TLAPS |
| `FatImage` | what a helper sees of the image that was built; used by `Authorizations` and `PrivateImage` | `device_side`, `publications` |
| `Publication` | abstract: what everything that makes a file promises | property of one run |
| `Publisher`, `Downloads`, `BootCache`, `Captures`, `IsoStaging`, `RawSnapshot`, `PrivateImage`, `Publications`, `Publications_proofs` | eleven components that make a file; proofs | `publications`, `virtual_published`, `optical_orphan`, TLAPS |
| `Executor`, `LayoutExecutor`, `DirectExecutors`, `DeviceExecutors` | the executors that run commands on a drive | `device_side`, `device_power_off` |
| `Operations`, `Application`, `Application_proofs` | the main window; proofs | `frontend`, TLAPS |
| `Frontend` | the window, and a runner with its helper, side by side | `frontend` |
| `DeviceSide` | an authorization, a transfer, a workflow and an executor, side by side | `device_side` |

The last module of each row but for the proofs composes the ones before it, by `EXTENDS`
or by `INSTANCE`, and states their properties. `Frontend` and `DeviceSide` put several
rows side by side for one run: a variable `part` says whose turn the behaviour is, and the
variables of the others rest in one initial state. So does a row itself, with `kind` or
`writer`. Nothing is composed by this, and nothing is lost: what one part knows of another
is in its own module. Between the rows: `PositionalRetry`
is the single write, which the transactions take as one step that stores what was
asked for, or a part of it and an exception; `HelperProtocol` puts the abstract medium
of `RawTransaction` and `MbrTransaction` behind a channel; `DeviceWorkflows` reduces
a runner to the two moments that a workflow can observe, the transfer and the
decision; `Authorizations` is what happens between the workflow's confirmation and
the transaction's `OpenTarget`; and the `Application` starts workflows, executors and
publications as workers with an outcome.

Definitions whose comment starts with "Mutation:" are plausible bugs of the code.
No specification uses them: each one stands beside the definition it changes, and
every property of a passing run is violated when its mutant takes the place of
that definition.

### `MediumActivation`

`view` (intact, opened, stale, inert, arming, active) is a function of the durable
sectors, `outcome` what the caller is told, and `reliable` says whether the medium
keeps every write that it acknowledges. `Edges` are the moves of a reliable medium;
`StaleEdges` come on top for one that is not. `stale` is old metadata over a body
that has been written to: `opened` is the same over an untouched one. Its content is
in what is missing: there is no way to a torn medium (new metadata over an incomplete
body, or beside old metadata), whatever the medium drops; none from a later view back
to `intact`; none to `stale` on a reliable medium; no success except on an active
medium, no refusal except on an intact one, and no movement after either.

The two transactions map `reliable` to the absence of weak sectors. `HelperProtocol`,
which has no sectors, takes it as true.

### `BlockDevice`

Sectors are `0..TargetTail`. `page`, `dirty` and `dur` are the page cache and the
durable medium; a content is old, zero, image or bad. A write only changes the cache
(`Put`); `Fsync` and `FlushBuffers` persist all that is dirty; `WriteBackSector`
persists any dirty sector at any time; a failing `fsync` marks everything clean without
persisting it, as Linux does (`LoseDirty`). A write to a `weak` sector, which the medium
acknowledges like any other, is stored, dropped (the sector keeps its old content) or
spoiled, by a new choice at each write-back; so a weak sector may drop the zeroes and
store the image, or the other way round. A read of a clean cached sector may come from
the cache or from the medium (`MayRead`), so that the read-backs mean something only
after `BLKFLSBUF`. A medium can be exchanged once during any step; `swap` remembers
which, and what is written afterwards goes to `alien`.

### `RawTransaction` and `MbrTransaction`

One action is one step of the function. `Front` is the front guard, `Middle` the
body, `Tails` the last sector of the image and the last physical sector.
`SourceChanges` is the owner of the anonymous file rewriting it. `StepFails` is any
exception, after any part of the current write; `Handler` says where it goes: out,
when `mutation_attempted` is false, otherwise to the emergency deactivation, whose
own failure is `stranded`.

The code reads back what it is about to activate, and what it has activated. It does
not read back the zeroes of the front guard before it copies the body (2632 to 2667),
nor those of the emergency deactivation (2882 to 2892; for MBR 2051 to 2070 and 2241 to
2252). On a medium that drops a write there, old metadata is left over an overwritten
body, or a medium with live metadata is reported as deactivated. Both are in the model;
`OldMetadataFollowsBody`, `DeactivatedIsInert` and their MBR counterparts speak of the
sectors that are not weak, and `ActivationFollowsBody` (`MarkerFollowsImage`), success and
refusal of all.

All identity checks (generation, path, topology) are the one condition
`SameGeneration`: they differ in what they look at and agree on an exchanged
medium. The digests are the two-valued `held` and `copied`.

`MbrTransaction` has the same steps with another notion of metadata: `Roots` are the
first sectors of the old disk (MBR and primary GPT), `Backup` its backup GPT header,
`Bulk` what lies between, and sector zero of the image is the commit marker. Its
exception clause deactivates only after `activation_attempted`, and overwrites the
marker only.

### `HelperProtocol`

Two processes. The helper follows `Script`: packets, the PREPARED point and the
steps of the medium, in the order of the code; `RawScript` and `MbrScript` are
the two orders. The runner's control points are the statements between which
another thread, the helper or the clock can act: the flags read under the lock
(`ReadFlags`), the CANCEL sent under a second lock (`SendCancel`), `select`, the
read, `poll()`, the time-out, the decision (`ReceivePrepared` is
`_decide_prepared`, one lock). `cancel()` is two actions, because it reads under
the lock and terminates the process after it. The channel holds `Capacity`
packets to the runner; a full one makes a send before COMMIT an error, and after
COMMIT drops the connection for good. A peer that closed with packets unread resets
the channel (`Reset`). `ApplicationDies` ends the runner anywhere. `report` is
what `run()` returned or raised, by kind: "cancelled" and "no-commit" are the two
that promise an untouched medium.

The runners differ at the end. Those of the raw, Syslinux and Windows profiles give a
committed helper that stalls to a reaper thread and return ("target state is unknown
and recovery may still be completing"); that of GRUB keeps the caller until root has
ended. `ConversationEnds` says which of them needs the helper to be alive in order to
come to an end.

### Positional I/O

`bytes` says for each position which byte of the data arrived there. A call
accepts any positive prefix of what is left, is interrupted, stalls, or
fails after an unknown part (`AmbiguousError`). The writers differ in what
they count, where they look at the identity of the medium, and where they hear a
cancellation or a deadline; each statement in which they differ is an action.
`PositionalRetry` holds both privileged writers and composes them with `DescriptorRetry`,
the primitive for anonymous files, as writer and as reader. `swap` and `alien` are as above, for an
exchange during a wait. Waits are counted in slices of 50 ms, and a sleep may take
longer than asked.

### The erasures

`FastZeroSession`: `before` is any mixture of old data and zeroes; `written` and
`skipped` are sets of chunks, whose sizes are the counters of the code. The helper
looks for a cancellation at the border of each chunk and on entry of each retry unit
(`Quiet`, `PollRaises`). Every exception after COMMIT leads to the clean-up of both
ends, whose verification decides between a partial result and an error.
The channel and `FastZeroRunner` follow in the same module: a late `cancel()` is a packet
of its own, progress may be dropped (and a comparison with the result then fails for
good), and the runner drains the channel until a committed helper has ended.

`RestoreSession`: the whole disk and the partition are two devices with a page
cache each; the partition is written back when its last user closes it, and a child
that survived its time-out may be that last user. Every look at the partition, its
discovery, the recheck, and the reads behind the FAT32 and NTFS receipts are steps.
`serve_restore_device_channel` and `RestoreDeviceRunner` follow, which never signals a
committed helper. `poll` and `select` are merged there, since every
wait begins with an empty queue.

What a success cannot promise is excluded in `OutcomeIsTrue`: a disk exchanged after
the last look at its identity, and an `sfdisk` that could not be killed.

### Workflows

`WorkflowOwner` holds what the five have in common; `SourceWorkflows` are the raw, Syslinux
and GRUB ones, `ErasureWorkflows` the other two. Each `with self._lock` block is an
action, and so is each stretch between two of them that touches shared state.
`_cleanup_owned` is two (`Take` under the lock, `Release` after it) and is called by
all three threads. `saw` is what `cancel()` read under the lock. The modules on top of
it say where an owner differs: which resources it owns, whether its clean-up forgets
the runner, whether its state changes while `prepare()` runs, whether its `cancel()`
decides under the lock, and whether its runner may stop after COMMIT.

### Authorizations

The first half of `Authorizations`: a look at the drive is several reads, each a step, and the
drive at the path can be exchanged (`seq`, the kernel's disk sequence, grows) or
mounted between any two. Plans, confirmations and ready receipts are slots that the
caller fills; it may hand in any of them, or a copy, in the order in which the runners
call (`CallIsInTurn`: `authorize` and `ready` have no other callers). The argument
that makes the checks sound: the sequence is read last and only grows, so that every
earlier read of the same call was of the same generation. The calls of the six profiles
follow in the same module with their differences: what they bind, which look goes by the path alone
(fast zero), and where the last look comes when the helper asks for COMMIT (restore).

The second half composes them and adds the other side: the installed helper, looked at
file by file and then parent by parent before the image is even built, which somebody
who may write there replaces at any time; the start as root; the drive found again by
its number; the open with `O_EXCL`, with the observation before it, the identity of the
descriptor and the observation after it as separate steps. What a helper sees of its
image is left open there, and given by `FatImage`: the geometry and the layout of a
FAT32 volume as `private_fat32.py` makes it, as `fat_image.py` reads it and as the
helper judges it, over real sizes at the borders of the cluster table and over trees
whose names need aliases. The tree of a Windows installer comes in every spelling that
the builder admits, which folds the case: in one case, in that of README.md, and with
each of its six required names in mixed case. `Plain` are the trees in which each name
that the helper looks for is its own short name, or is the `Boot` of the root;
`NamesDecide` says that the three agree on these, for every size, and that the helper
lets none of the others through.

### Publications

`Publication` is the promise: under the requested name there is nothing, somebody
else's file or the complete one, and a success means the last. `Publisher` holds the
steps that the detailed components share: a worker, `cancel()`, a child, names that
appear, inputs that change, names that cannot be removed, a kill, a loss of power.

* `Downloads`: the verified download, whose partial file survives a kill or a loss of
  power and is resumed, and the FreeDOS download, whose workspace keeps a verified
  archive. `TryAgain` of the promise is the next run of the program.
* `BootCache`: `prepare_bundle` with the helper thread of its connection, the cache that
  any program of the user writes to, the private download, which may refuse to be
  removed, and the removal by another window.
* `Captures`: a drive (`Drive...`), its conversion to a virtual disk (`Virtual...`, in
  which the drive capture is one step, by the promise it implements), an optical disc
  (`Optical...`), and the decoding of a compressed virtual disk (`Container...`), by a
  library in this process or by a child whose exit status alone tells a truncated
  stream from a complete one.
* `IsoStaging`: staging with the extractor as its first operation, and the split and
  the extraction of a WIM (`Wim...`) by themselves, which staging runs as one step.
* `RawSnapshot`: the builder, the converter of a virtual disk, the owner with its
  lifecycle lock, and the transfer; `close()` comes from another thread.
* `PrivateImage`: plan, build, the patches of the four profiles, poison, duplication and
  `close()`.

`Promise` maps each of them to `Publication`: a name that is ours and not complete is
"damaged", a value that the abstract specification never reaches.

### Executors

`Executor` holds the worker, the look at the identity, the command and its three
fates. A command is started (`Spawn`), opens the drive by its path later
(`ChildOpens`), and ends; one that `pkexec` made root's may not be killable.
`harm` collects what was opened on a drive that is not ours. `LayoutExecutor` is the
partitioning and formatting, and the three boot media that begin with it;
`DirectExecutors` are erasure, the media tests, `ImageWriter` and the persistence, which
appends a partition and rolls back. The three ways in which an
executor gives a command up (`StopsAndLeaves`, `StopsForSure`, `StopsInTime`) are what
distinguishes them.

### The window

The event loop takes the first queued signal, also while a dialog is open: `asks` is
the stack of open dialogs, and a handler goes on only when its dialog is the innermost
one. `jobs` are the operations with their workers, `owner` the attributes through
which `cancel()` and `closeEvent` reach them, `signals` the queue. Each starter,
each slot of a signal and each continuation after a dialog is one definition of
`Operations`. What a worker does is reduced to its steps and its outcome.

## 3. Runs

| Run | Bounds; distinct states | What it shows |
|---|---|---|
| `raw_transaction` | 2 front sectors, 2 body sectors, tail, distinct physical tail, at most 1 weak sector; 895,682 | the order of activation (`CrashSafe`), truth of what the caller is told, exchanged media, the refinement of `MediumActivation`, termination; a weak sector drops or spoils any of its writes |
| `mbr_transaction` | 2 roots, 2 bulk sectors, backup header, at most 1 weak sector; 174,463 | the same for the MBR profiles |
| `erasure_transactions` | restore: 3 sectors, the table, one that neither end covers, and metadata; fast zero: 3 sectors, a chunk of two and a shorter last one; at most 1 sector that is weak or blank; 1,617,330 | reports true of the disk, the new layout on an erased disk only, replaced media, and that `run()` returns last |
| `publications` | eleven components, files of 2 blocks, 1 stubborn name; 209,351 | the refinement of `Publication`, true reports and no leak with the exemptions named below, and that what is cancelled ends |
| `frontend`: the window | 2 operations, 2 selected images, 2 jobs or inspections at a time; 209,208 | one operation in reach of cancel, nothing left open, current results, cancellations heard, and ended |
| `frontend`: a runner | three runners, image of 3 sectors, channel of 3 packets; 34,354 | reports true of the medium, accepted progress, one final decision, the refinement, and ends of the conversation |
| `device_side`: an authorization | 2 drives on one path, 4 receipts (each kind once, and one of them twice), six profiles, 4 installations, 8 spellings of a tree; 419,593 | a launch and a write are bound to the drive of the confirmation, and an image that was built is accepted if its names are plain, and only then |
| `device_side`: a transfer | 3 bytes, 3 calls, delays of 1, 2 and 3 slices, a deadline of 6; 104,152 | no byte skipped or misplaced, bounds (with the stalls on top, in the helpers), deadlines and cancellations kept, termination |
| `device_side`: a workflow | five owners, three threads, one call each; 19,239 | leaks, hidden commits, cancellation, termination |
| `device_side`: an executor | ten kinds of work, one exchange of the drive; 19,859 | a success is the promised work, one drive (the power-off of constructed media apart), nothing outlives the report unsaid, and that what is cancelled ends |
| `raw_protocol_order` | image of 4, channel of 12; about 10,500 | a violation, see Findings |
| `raw_workflow_cancel` | the raw owner; about 4,300 | a violation, see Findings |
| `positional_cap` | as the transfer, with 4 calls; about 84,000 | a violation, see Findings |
| `device_power_off` | as the executors; about 4,700 | a violation, see Findings |
| `virtual_published`, `optical_orphan` | one component each, files of 2 blocks; about 90 and 500 | a violation each, see Findings |

The states of `frontend` (243,562) and of `device_side` (562,843) are those of their parts.

**Why the bounds are enough.** `RawTransaction` treats the sectors of a region alike; a
partial write or write-back needs two sectors in the front guard and two in the body.
The theorems of section 4 lift the safety properties of this run, and of seven others,
to every value of the constants. In `HelperProtocol` the script of the MBR profiles has
four times what the channel holds, so that it fills up before and after COMMIT; a larger
image would only add more progress packets of the same phases. In `PositionalRetry`
every counter reaches its limit and every delay is waited for, in each order. Fast zero
has a chunk of several sectors and a shorter last one; the restore a sector of each role
(the table, metadata, and one that no end covers). One odd sector is enough there, since
a sector is read back by itself. The workflows have no bound: prepare, confirm and
execute run once on an instance, and a second `cancel()` does what the one inside
`close()` already adds. Two drives are the least for a confirmation to be carried over,
and a third would repeat the second; the objects of an authorization are
interchangeable, so the first free slot is taken, and four are a plan, a confirmation
and a receipt with any one of them a second time (made anew, or as a copy). A file of
two blocks is torn after its first; the theorems are about any number. Two persistence
configurations and two test phases stand for any number: each is first, last, or in
between for the other. Two jobs are an operation beside an overlay that is being planned
or a cancelled checksum that is forgotten, which is all that `operation_active` lets
overlap; two images make a stale result.

**What a passing run does not claim.** Where the code is silent or wrong about something,
the property says so in its formula, and its comment names the case. `ReportIsTrue` of
the publications exempts a staging, a WIM and an optical capture with a leftover, which
are reported as plain failures although they gave the name, and the "published" of a
virtual backup before its conversion. `NothingLeaks` exempts names that the file system
refuses to remove to FreeDOS, to the decoder and to the fetch of boot code, and the reader
of an optical capture that failed or was cancelled. `OnlyTheTarget` leaves out the
power-off of constructed media, `CallsAreBounded` allows the stalls above the cap,
`CrashSafe` and the deactivation are about what a weak sector has not dropped, and
`NamesDecide` says of an installer with mixed-case names that it is refused, not that it
should be. Where a document or a comment of the program promises the exempted case, it is
a violation run with a finding, or a remark of section 5.

Deadlock is not checked: every system here stops when its one transaction or
call is over.

**Fairness.** `RawTransaction!FairSpec`: weak fairness of the helper, one
sequential process whose waits are bounded. `PositionalRetry`: weak fairness of the
thread that transfers, whose sleeps are bounded. In `HelperProtocol`, `RunnerFairness`
says that the runner's loop is scheduled, its bounded wait for the exit of the helper
ends, and its clock passes the deadlines (`SF` on the two stalls, since the loop
passes the deadline check again and again), with nothing assumed of the helper, the
user or the dialog; `HelperFairness` says that the helper is scheduled and
`CONTROL_TIMEOUT_SECONDS` passes, with nothing assumed of the application.
`DeviceWorkflows`: a thread that is inside a call goes on; nobody has to call
anything. `Publications!FairSpec` and `DeviceExecutors`: the worker, a
`cancel()` or `close()` that has begun, and a child that cannot be killed, which ends
when the kernel lets it; a child that could be killed may hang for ever.
`Application!Fairness`: the event loop, the workers, and a user who answers a dialog that
is open; inspections may take for ever. `FrontendSpec` and `SideSpec` ask the same of the
part that runs.

**Progress that is not promised.** The helper's wait for the request has no
time-out of its own (`_receive_request`), and neither has the dialog of `pkexec`;
the liveness of the helper starts after the request. The restore helper waits for
COMMIT without a time-out. `FormatExecutor` waits for ever for a child that cannot be
killed, and so does the converter of a virtual disk at `virtual.py:1237`.

**What is assumed of the environment.** A private file does not change between the
last check and the link, the rename or `sendmsg`; an optical disc stays in the drive
after the last look at it; a loss of power is modelled for the transactions, the
downloads and the captures, and not for staged trees, WIMs, containers, snapshots and
images, which are made anew; one name at most cannot be removed; one exchange of a
drive per executor. In the window: Qt's quit answers the open dialogs with Cancel,
zero timers fire before the next event of the user, the questions of one starter are
one dialog, and the workers of a closed window die with the process.

## 4. Proofs

Every theorem below is about all values of the constants, and about every
interleaving with the environment that the module allows.

| Module | Theorems, and what they state |
|---|---|
| `RawTransaction_proofs` | `TypeCorrect`; `CrashConsistency`: `CrashSafe`; `Durability`: `SuccessIsDurable`, `Refusal`: `RefusedIsUntouched`, `Deactivation`: `DeactivatedIsInert`, and from these `Reports`: `ReportIsTrue`; `Replacement`: `ReplacementIsSpared`; `Refinement`: `Spec => ImplementsActivation` |
| `MbrTransaction_proofs` | the same, but for `RefusedIsUntouched`: what a refusal says is a part of its `Refinement` |
| `HelperProtocol_proofs` | `Inductive`; `TypeCorrect`; `ReportHolds`: `ReportIsTrue`; `Accepted`: `ProgressIsAccepted`; `Decision`: `DecisionIsFinal`, an action property; `Refinement`: `ProtocolSpec => ImplementsActivation` |
| `PositionalRetry_proofs` | `TypeCorrect`; `Transfer`: `TransferIsTrue`; `Replacement`: `ReplacementIsSpared` |
| `ErasureTransactions_proofs` | `Inductive`; `Reports`: `ReportIsTrue`; `Replacement`: `ReplacementIsSpared`; `Order`: `ErasureIsOrdered` |
| `Authorizations_proofs` | `Inductive`; `Launch`: `LaunchIsBound`; `Write`: `WriteIsBound` |
| `Application_proofs` | `Inductive`; `AloneAndReached`: `OneOperation`; `NothingIsLeft`: `NothingLeaks`; `LateResultsAreDropped`: `ResultsAreCurrent`; `CancelIsEffective`: `CancelIsHeard`, an action property |
| `Publications_proofs` | `Inductive`; `Refinement`: `Spec => ImplementsPublication`; `ReportHolds`: `ReportIsTrue`; `NothingIsLeft`: `NothingLeaks` |

The assumptions are the `ASSUME`s of the modules, which the runs evaluate:
`DeviceAssumption` and `GeometryAssumption` (the guard is not empty and lies before the
tail of the image, which lies on the target: the code refuses smaller images and smaller
targets before it opens anything), `ImageAssumption` (an MBR image, which is as large as
the disk, has at least three sectors), `SizeAssumption` of the protocol (the guard is
smaller than the image), `ParameterAssumption` and `PolicyAssumption` (a channel has
room for a packet, a retry for a call), `ErasureAssumption` (chunks and ends are not
empty, the table has sector zero and shares no sector with the metadata),
`AuthorizationAssumption` and `BoundsAssumption` (the bounds are numbers), `SizeAssumption`
of the publications (a file has a block) and `KindsAssumption` (the components are those
that are modelled). One is a fact of another kind: `ImagesAreReadable` says that each of
the FAT volumes of `FatImage` is read as it was planned. It has no constant in it, so
that TLC's evaluation of it is complete, and it is used for one conjunct of `ReportIsTrue`:
a private image is not refused by its own inspection.

None of the safety properties is inductive. Each module of proofs states the invariant
that is, as a conjunction of named parts; TLC has checked it on the instance of the run;
and one lemma per action, or per group of actions of one process, shows that the parts
are preserved.

### The raw and the MBR transaction

The properties speak of the durable sectors, and the page cache may hold the violation
that `WriteBack` makes durable two steps later. The invariant `IInv` therefore says of
the *cache* what the properties say of the medium. `FrontArmed` counts a front sector
that is or may become new metadata, and `ArmedOverBody` says that while there is one,
the body is stored and clean. `BodyDone` carries that from the read-back to the
activation, and needs `CacheDropped` (the read-back saw the medium) and `HeldImage`
(what is about to be written is the image). For the old metadata there are two parts,
since a weak sector may drop its zeroes. `OldOverBody` is about the sectors that are not
weak: while one of them holds old metadata, no write to the body is even in the cache;
`FrontZeroing` and `FrontCleared` say the same from step to step. `NeverMixed` is about
all of them, and rests on the read-back: from the look at the identity on, no front
sector is old (`FrontVerified`), and until then none can become new. After a failure no
fact about the control point helps any more, which is why the facts about `FrontArmed`
do not mention `pc`. `EarlySwap` and `SwapUnarmed` are the quarantine of an exchanged
medium, `RegionsZeroed` and `DeactivationSynced` the emergency deactivation. The MBR
proof has the same shape with roots, backup header, data and marker in the place of
front, tails and body (`RootsBeforeRest` and `BackupBeforeBulk` for the sectors that are
not weak, `MarkedOverImage`, `RootsVerified` and `NeverMixed` for all).

The refinement rests on three lemmas: a step changes the medium only by persisting dirty
sectors and never ends the transaction at the same time (`StepShape`), the view moves
along `Edges`, or along `StaleEdges` if there is a weak sector (`ViewStep`), and what
the caller is told is true when it is told (`OutcomeStep`).

### The protocol

Everything about the medium is read off one position in a script. `ScriptIsOrdered` is
the lemma about the two scripts: PREPARED is the third item, and the items of the medium
lead from the intact to the active one. `Followed` ties the control point of the helper
and the view to the position, `Decided` what is in the queue to the helper to the flags
of the runner, and `Told` the report to both; `DecisionIsFinal` and the refinement are
steps of these. That progress is always accepted is a fact about queues: what waits in
the channel was sent in the order of the script (`Reported`), whatever was dropped in
between, and MUTATION_STARTED stands between the validation of the source and every
other phase (`Announced`). This holds for the MBR script (`ProgressIsOrdered`); for the
raw one it is refuted, see Findings.

### The retries

`Placed` says that what has arrived is exactly the prefix that was counted, except after
an ambiguous failure, which ends the transfer. `Guarded`: an exchange of the medium
between an error and the repetition leaves only control points from which the next call
is behind the guard. The bounds on the calls need the number of stalls beside them
(`HelperCounts`, `RestoreCounts`), since the cap is not looked at after one; and "heard
before the second call" a record of the points that lie between a late call and the next
test (`CancelHeard`, `DeadlineHeard`).

### The erasures

The restore: at every instant there is nothing of a new layout anywhere, caches included,
or there is nothing old on the disk (`Ordered`); a sector that lost its zeroes after they
were read back lies in the table, the metadata or an end. `Erasure`, `Construction` and
`CleanUp` follow a sector through its caches from step to step, `Spared` is the
quarantine of an exchanged disk, `Told` the conversation. The fast zero is about sets of
chunks: `InOrder` makes the set that was scanned a prefix, so that the counter is its
cardinality; `Accounted` says that nothing on the medium, or on its way there, has
changed without being counted, being in flight, or lying at an end; `Stored` and
`Verified` make the read-back speak of the medium; and `Tallied` is what remains of the
counters after a failure.

### The authorizations

The argument is one of order. The disk sequence only grows. A plan carries the sequence
of a drive that had the path before (`Receipts`), and a call reads the record of the
drive first and its sequence last (`Seen`); so if the sequence is still that of the plan,
no drive came between, and the record is that of the drive that was planned for
(`Compared`). `Given` binds what a call was handed to the receipts it came from,
`Program` the running helper to the looks at the installation, and `Bound` what the
helper holds open, which no exchange of drives can touch, to the launch. The theorems
are about whatever a helper may say of its image.

### The main window

The window has one attribute per runner, and no record of who it belongs to: a handler
knows which operation it ends only from the signal or the dialog it was called for. The
argument is about *claims*. `Holding` says, for each kind of operation and each half of
it, which attributes it has. At every moment exactly one thing has the claim to all of
them: a worker that runs (`Working`), the queued signal of one that ended (`Awaited`), or
an open question (`Asked`); `Once` says that no operation has two. Three operations ask
while no attribute refers to them (UEFI shell, UEFI:NTFS with its helper, the final
question of an ISO write); there the open dialog itself keeps all others away, as it does
while a starter asks (`Starting`). A checksum that was forgotten, and the planner of an
overlay, have no claim, and hold nothing (`Exempt`, `Overlays`).

A handler runs between two such states: its signal or dialog is gone, and what it claimed
is in nobody's hands (`Handled`). The invariant is therefore stated about a state given by
its components. There are four ways to end (`ResetIsSafe`, `RefQuestionIsSafe`,
`FreeQuestionIsSafe`, `MoveIsSafe`): reset everything and close what the job holds, ask with
or without attributes, or pass the claim to a worker. Each of the handlers is shown to take
one of them; that `on_finished`, which closes what *any* workflow attribute refers to, closes
the right job is `Closable` and the fact that all attributes are of one job. `Heard`
carries `CancelIsHeard` through the same lemmas, and `Selected` is about what is shown.

### The publications

Eleven components, 365 cases in their next-state relations, and one argument: what gets
the name is complete (`Delivered`), and a step of any of them is one of the seven that
`Allowed` lists, each of which is a step of `Publication` or leaves its variables alone
(`AllowedIsPromised`). Why the file is complete at the link is different in each, and is
what the part of the invariant of that component says:

* a download was hashed when it was durable, and nothing is done to it between;
* what a drive gave is right as long as it was the drive, and the look after the last
  block says so; a disc stays, so that its size alone is in question;
* a comparison of a virtual disk saw the two files as they are if neither was touched, and
  whoever touches the output breaks its binding; the same holds of a private image, of which
  the rehash under the lock is the last word, and of the WIM that staging splits;
* a decoded block counts if the source was the bound one after it was read, and the exit
  status alone says that there are no more;
* a snapshot is sent by a digest that is made once more of what is sent;
* an artifact of a bundle was verified in the cache or on its way into it, and is bound by
  its bytes and not by its name, whatever the others that use the cache do.

A step of a component is one lemma (`DownloadStep` to `BundleStep`) with a case for each
action; the three that have an owner, which other threads call, have a second
(`SnapshotOwnerStep`, `ImageOwnerStep`, `BundleOwnerStep`) about who holds the lock and
what is open. Those carry `NothingLeaks`: a descriptor is open exactly if the owner, or
the step of the worker that has it, says so, a response of a server is the worker's or
the connector's, and a private download stays only if it refuses to be removed. The
reports need the opposite direction of the same facts: that a failure after the link
says so, and that what is said to be left is.

### What stays with TLC

* Liveness (`Terminates`, `ConversationEnds`, `CallsEnd`, `CancelEnds`) and everything
  that needs `ENABLED`: out of the prover's reach.
* `NamesDecide`: `FatImage` folds over trees and cluster chains by recursion, and
  what a recursion computes for every input cannot be proved here. It is checked at the
  border values of the cluster table, for every spelling of the names.
* `DeviceWorkflows` and `DeviceExecutors`: they have no constant that could grow. The
  runs take every kind of owner and of executor, and are exhaustive.

## 5. Findings

* **A raw write that succeeds is reported as an error** (`raw_protocol_order`). The
  raw helper reports `writing` once more after the activation
  (`syslinux_device_helper.py:2779`), when it has already reported
  `preactivation-readback`. The runner rejects a phase that comes back
  (`raw_device_runner.py:724`). The helper that the tests use reports another
  order than the real one (`tests/test_raw_device_runner.py:177`). The MBR
  profiles report in order.
* **`cancel()` against the start of `execute()`** (`raw_workflow_cancel`). `cancel()`
  reads CONFIRMED and no runner under the lock and acts after it; `execute()` may
  start in between, never looks at `_cancelled`, and sends COMMIT after `cancel()`
  has returned. `SECURITY.md:856` says that the PREPARED exchange "linearizes the
  last cancellable point". The usual end of the race is an error, because the
  clean-up of `cancel()` closes the snapshot before its transfer.
* **The cap on positional calls** (`positional_cap`). `_retry_positional_call` looks at the
  count of its calls after an interruption only (`syslinux_device_helper.py:457`, `462`);
  stalls come on top of it. `SECURITY.md:893` gives the Syslinux-family helper "at most 1,024
  positional syscall attempts per retry unit", and line 897 says that the calls that end in
  `EAGAIN` "consume the total syscall cap". A unit may take three calls more.
* **Power-off without a look** (`device_power_off`). `ConstructedMediaExecutor` powers off by
  path (`constructed.py:1158`), also in the clean-up after an identity check that failed.
  `SECURITY.md:18` says that the identity is revalidated before "power-off"; the other
  executors do (`uefi_ntfs.py:986`).
* **Published, but not there** (`virtual_published`). `backup.py:1252` re-raises the
  `BackupPublishError` of the private raw capture, whose docstring (209) says "A destination
  link exists". There is none, and the private directory is gone.
* **An orphaned optical reader** (`optical_orphan`). `_terminate_process` (`optical.py:455`)
  ignores the `OSError` that the signals to root's `dd` give. The comment at `optical.py:680`
  says that a failure "cannot orphan a privileged optical reader".

A medium that drops the zeroes which nobody reads back (`stale`) is no finding: nothing in
the documents promises more of a medium that loses writes, and `SECURITY.md:872` calls the
order one that "reduces the chance" that a failed write appears as valid media.

### Remarks

What else was met while modelling, without a run of its own. The models contain this
behaviour, and the properties are stated so that they hold with it, unless the remark
says otherwise.

Helpers and runners:

* A CANCEL that reaches the fast-zero helper after its last poll stays unread. On
  Linux the receive of a peer whose partner closed with unread packets fails with
  ECONNRESET although packets are queued, so the runner (`fast_zero.py:1610`) loses a
  finished zeroing, or a verified partial result, to an error, and
  `cancellation_deferred` (`fast_zero.py:254`) is hardly ever true.
* `grub_rescue_workflow.py:529` compares the runner's word about a late cancellation with
  its own flag, which can be set in between (`grub_rescue_device_runner.py:864`);
  a verified write is then reported as an error, against `SECURITY.md:777`. This
  comparison is not in the model: `CommitIsNotHidden` does not speak of it.
* The comment at `restore_device_runner.py:408` does not hold after the read-back of
  the zeroes. The restore helper receives COMMIT without a time-out and without a
  check of the message's credentials, and discovers the partition by path before the
  generation is checked again.
* The helper finds all entries of a Windows image but the root's `Boot` by their short
  name (`syslinux_device_helper.py:1650`), while `windows_iso_fat32.py:233` compares
  without case: a mixed-case `EFI/Boot` gets an alias and is refused after the build and
  the unmount, although `README.md:206` says that only "exact" names are admitted.
  `NamesDecide` has this of every spelling of `FatImage`.
* The installation is looked at before the image is built. Only who may write to a file
  or above it can replace it; root itself, for instance an upgrade of the package, can as
  well, and is trusted not to.

Files:

* A failed unlink after the link of an optical capture is reported as a plain failure, and
  its directory is not synchronised.
* A staged tree whose parent cannot be synchronised is a failure that does not say it was
  published; so is a split WIM, although the comment at `wim.py:1408` says that a committed
  result must not become one. `rename` in `wim.py:1405` replaces an empty directory that appears
  after the check. A wimlib that cannot be stopped supersedes the cancellation and keeps
  its directory. Nested directories of an extracted tree are not synchronised.
* A FreeDOS workspace killed between the two links of its inner partial file is refused
  for ever (`freedos_downloads.py:790`, `999`). Two processes that download the same
  artifact share a partial file.
* `bootloaders.py:1703` says nothing of a private download that it cannot remove; the
  model leaves it (`stubborn`), with nobody told. One that a kill left is never removed.
  A cancellation after `os.replace` is reported as a failure of a kept entry. The reader
  thread of a descriptor is joined for a quarter of a second only.
* A cancelled conversion waits at `virtual.py:1237`, without limit, for a child that
  cannot be killed. `_cleanup_stage` and `_stop_decoder` are silent about what stays. A
  decoder that fills its error pipe waits until it is cancelled.
* GRUB's final digest is compared for being different only (`grub_rescue.py:872`); a
  change between its inspection and its duplication is noticed by the time stamps.
  `private_fat32.py:2054` digests after the inspection without comparing the identity,
  and later checks catch that. `windows_iso_fat32.py:784` reads `self._image` twice, with
  an `AttributeError` if it is closed in between.

Executors:

* A command opens a drive by its path: after the last look at the identity, another drive
  may take it. `OnlyTheTarget` allows one such command. An erasure and a media test do
  not look after their last range or phase.
* `ConstructedMediaExecutor._best_effort_cleanup` (`constructed.py:1100`) unmounts without
  a look at the identity as well.
* `ImageWriter` says nothing of a child that it could not stop; it and
  `CasperPersistenceExecutor` have no user in `app.py` or `cli.py`. An error of the
  persistence clean-up supersedes "could not be stopped". A mount that stays after a
  failed populate is not told.

The window:

* `closeEvent` computes `inspection_active` before its box (`app.py:3887`). If the worker
  ends while the box is open, `close_after_inspection` stays set and a later inspection
  closes the window (`SECURITY.md:57`, `tests/test_app.py:2269`).
* No field of `operation_active` is set during the confirmation of a UEFI shell (4637),
  the question about the NTFS helper (7757) and the last ISO confirmation (8913), so
  that a deferred close can close the window under them. Most starters check
  `operation_active` before their dialogs and not after; `on_finished` is not bound to
  a job and clears every field.
* An image opened with Ctrl+O while Windows editions are inspected:
  `on_windows_metadata_finished` (6547) leaves the controls alone because of the
  inspection, which does not enable them either. They stay disabled.
* A cancellation between the end of a Windows dual preparation and its slot raises
  `WindowsDeviceRunCancelled` out of the slot (8077), and PyQt aborts. This is
  `window = "aborted"`, which `NothingLeaks` and `CancelEnds` exclude.

## 6. What is not modelled

* Authentication of packets by credentials and nonces, descriptor checks and file
  modes: conditions of one process at one moment.
* The contents of requests and results, beyond what the other side compares; the
  digests and warnings of plans; time stamps.
* Parsers and builders of formats, but for the FAT volume that two programs have to
  agree on; catalogues of downloads; recommendations, settings, logs and texts.
* UDisks, `sfdisk`, `mkfs`, `dd`, `qemu-img`, wimlib: external programs, modelled as
  children that do their work, a part of it or none, fail, hang, or survive a signal.
* The drive list and its scans in the window; the process-group mode of
  `wim_apply_backend.py` and `inspect_wim`, which run one bounded command; the bounds
  checks of ZIP and VTSI; `chunks()`, the generic profile of `private_fat32.py`, and
  `VirtualDiskStager.stage`, which nothing in the program calls.
* A counterfeit medium that wraps its addresses around, so that a write to one sector
  changes another, and sectors that decay after they were read back.
* The death of the runner of a restore beside its workflow (`DeviceWorkflows` has the
  runner's report; the death itself is in `RestoreSession`).
* Tests, tools, packaging, vendored code.

`SECURITY.md:873` says that the raw order "is not power-loss atomicity", and the
model agrees: `arming` is a state in which a part of the new front guard is
durable. What is shown is that this happens over a complete body only.

## 7. Plan

Done: all components of the inventory that have a state are modelled and checked, and
the safety properties of the transactions, the erasures, the protocol, the retries, the
authorizations, the main window and the publications are proved for every value of the
constants. What would come next follows from sections 4 and 6: the layout of the FAT
volumes for every size, once an induction over clusters can be proved; and the formats
that are left out, as modules of their own in the way of `FatImage`.
