----------------------------- MODULE RestoreSession -----------------------------
(***************************************************************************)
(* A verified restore: execute_restore_device_transaction of               *)
(* isopropyl/restore_device_helper.py, behind                              *)
(* serve_restore_device_channel, and the unprivileged RestoreDeviceRunner  *)
(* of isopropyl/restore_device_runner.py.                                  *)
(*                                                                         *)
(* All of the disk is zeroed and read back, then sfdisk writes one         *)
(* partition, mkfs a filesystem in it, and both are read back. A failure   *)
(* after COMMIT leads to an emergency zeroing of both ends of the disk.    *)
(* Before COMMIT the runner may terminate the helper; after it, it never   *)
(* signals: it closes the channel and waits for the helper to end.         *)
(*                                                                         *)
(* The partition is a device of its own with its own page cache, which the *)
(* kernel writes back when its last user closes it. A child that could not *)
(* be killed in time may be that last user.                                *)
(***************************************************************************)
EXTENDS BlockDevice

CONSTANTS
  Boundary,  \* the 16 MiB of the emergency clean-up, in sectors
  Table,     \* sectors of the partition table and of its backup
  Metadata,  \* sectors of the filesystem that the receipt reads, in the partition
  MaxBlank   \* bound: sectors that are zero before the restore

VARIABLES
  pc,       \* the step of the transaction about to run, or how it ended
  cursor,   \* the next sector of the zero scan or of its read-back
  part,     \* is the partition's descriptor open?
  ppage,    \* page cache of the partition, as page
  pdirty,   \* its dirty sectors
  stray,    \* a child that survived its time-out: "none", "sfdisk" or "mkfs"
  decision, \* what the runner has sent after PREPARED: "none", "commit", "cancel"
  peer      \* the runner's end of the channel: "open" or "closed"

partVars == <<part, ppage, pdirty>>
channel == <<decision, peer>>
fate == <<weak, swap>>
helperVars == <<cursor, partVars, stray, channel, fate>>
transactionVars == <<pc, helperVars, targetVars>>

Ends ==
  IF TargetTail + 1 <= Boundary THEN Blocks
  ELSE {b \in Blocks : b < Boundary \/ b > TargetTail - Boundary}

PreCommit == {"open", "prepared"}
Erasing == {"committed", "scan", "fsync-zero", "flush-zero", "readback", "recheck-zero"}
Building == {"sfdisk", "fsync-table", "reread", "settle", "recheck-table", "read-table",
             "discover", "open-part", "recheck-part", "rediscover", "mkfs", "fsync-part",
             "flush-part", "fsync-whole", "flush-whole", "recheck-final", "read-final", "receipt",
             "fat-copies", "fat-root", "ntfs-copy", "ntfs-volume", "issue"}
Cleaning == {"close-part", "cleanup-identity", "cleanup-write", "cleanup-fsync",
             "cleanup-flush", "cleanup-read", "cleanup-reread"}
Running == PreCommit \union Erasing \union Building \union Cleaning
Ended == {"success", "cancelled", "refused", "failed", "unverified", "killed", "powerloss"}

TransactionInit ==
  /\ pc = "open" /\ cursor = 0 /\ part = FALSE
  /\ ppage = [b \in Blocks |-> "absent"] /\ pdirty = {}
  /\ stray = "none" /\ decision = "none" /\ peer = "open"
  /\ DeviceInit
  /\ \E S \in SUBSET Blocks :
       Cardinality(S) <= MaxBlank /\ dur = [b \in Blocks |-> IF b \in S THEN "zero" ELSE "old"]

Step(from, to) == pc = from /\ pc' = to
Look(from, to) == Step(from, to) /\ UNCHANGED <<helperVars, targetVars>>

\* _require_target and _require_topology: the retained descriptor is the disk of the
\* request's generation.
SameGeneration == swap = "none"

-----------------------------------------------------------------------------
(* The partition's cache. *)

PersistPart(S) ==
  IF swap = "none"
    THEN /\ \E dropped \in SUBSET (S \intersect weak), spoiled \in SUBSET (S \intersect weak) :
              dur' = [b \in Blocks |-> IF b \notin S \/ b \in dropped THEN dur[b]
                                       ELSE IF b \in spoiled THEN "bad" ELSE ppage[b]]
         /\ UNCHANGED alien
    ELSE /\ alien' = alien \union {<<b, ppage[b]>> : b \in S}
         /\ UNCHANGED dur

PutPart(S, c) ==
  /\ ppage' = [b \in Blocks |-> IF b \in S THEN c ELSE ppage[b]]
  /\ pdirty' = pdirty \union S

MayReadPart(b, c) ==
  \/ swap # "none"
  \/ ppage[b] # "absent" /\ ppage[b] = c
  \/ b \notin pdirty /\ dur[b] = c

\* Write back all, and drop the copies.
DrainPart ==
  /\ PersistPart(pdirty)
  /\ pdirty' = {}
  /\ ppage' = [b \in Blocks |-> "absent"]
  /\ UNCHANGED <<page, dirty>>

-----------------------------------------------------------------------------
(* COMMIT, the erasure and its read-back. *)

OpenTarget == Look("open", "prepared") /\ SameGeneration
Commit == Look("prepared", "committed") /\ decision = "commit"
CancelBeforeCommit == Look("prepared", "cancelled") /\ decision = "cancel"

RecheckAfterCommit == Look("committed", "scan") /\ SameGeneration

Advance(from, to) ==
  /\ Step(from, IF cursor = TargetTail THEN to ELSE from)
  /\ cursor' = IF cursor = TargetTail THEN 0 ELSE cursor + 1
  /\ UNCHANGED <<partVars, stray, channel, fate>>

\* Each step of the scan and of the read-back ends in a progress packet.
Heard == peer = "open"

SkipSector ==
  /\ Advance("scan", "fsync-zero") /\ Heard
  /\ MayRead(cursor, "zero") /\ UNCHANGED targetVars

ZeroSector ==
  /\ Advance("scan", "fsync-zero") /\ Heard
  /\ \E c \in Content \ {"zero"} : MayRead(cursor, c)
  /\ Put({cursor}, "zero")

FsyncZero == Step("fsync-zero", "flush-zero") /\ Fsync /\ UNCHANGED helperVars

\* Mutation: the read-back is served by the page cache.
FlushZeroForgotten == Look("flush-zero", "readback")

FlushZero == Step("flush-zero", "readback") /\ FlushBuffers /\ UNCHANGED helperVars

ReadBack ==
  /\ Advance("readback", "recheck-zero") /\ Heard
  /\ MayRead(cursor, "zero") /\ UNCHANGED targetVars

RecheckZero == Look("recheck-zero", "sfdisk") /\ SameGeneration

-----------------------------------------------------------------------------
(* Partition and filesystem. *)

Partition ==
  /\ Step("sfdisk", "fsync-table")
  /\ Put(Table, "image") /\ UNCHANGED helperVars

FsyncTable == Step("fsync-table", "reread") /\ Fsync /\ UNCHANGED helperVars

\* BLKRRPART writes the disk's cache back; nobody has the partition open yet.
RereadTable == Step("reread", "settle") /\ Fsync /\ UNCHANGED helperVars

Settle == Look("settle", "recheck-table")
RecheckTable == Look("recheck-table", "read-table") /\ SameGeneration
ReadTable ==
  Look("read-table", "discover") /\ \A b \in Table : MayRead(b, "image")

\* sysfs shows one partition, of the frozen geometry; it may be that of another medium.
DiscoverPartition == Look("discover", "open-part")

OpenPartition ==
  /\ Step("open-part", "recheck-part")
  /\ part' = TRUE
  /\ UNCHANGED <<cursor, ppage, pdirty, stray, channel, fate, targetVars>>

RecheckPartition == Look("recheck-part", "rediscover") /\ SameGeneration
RediscoverPartition == Look("rediscover", "mkfs") /\ SameGeneration

Format ==
  /\ Step("mkfs", "fsync-part")
  /\ PutPart(Metadata, "image")
  /\ UNCHANGED <<cursor, part, stray, channel, fate, targetVars>>

FsyncPartition ==
  /\ Step("fsync-part", "flush-part")
  /\ PersistPart(pdirty) /\ pdirty' = {}
  /\ UNCHANGED <<cursor, part, ppage, stray, channel, fate, page, dirty>>

FlushPartition ==
  /\ Step("flush-part", "fsync-whole") /\ DrainPart
  /\ UNCHANGED <<cursor, part, stray, channel, fate>>

FsyncWhole == Step("fsync-whole", "flush-whole") /\ Fsync /\ UNCHANGED helperVars
FlushWhole == Step("flush-whole", "recheck-final") /\ FlushBuffers /\ UNCHANGED helperVars
RecheckFinal == Look("recheck-final", "read-final") /\ SameGeneration
ReadFinal ==
  Look("read-final", "receipt") /\ \A b \in Table : MayRead(b, "image")

\* _partition_readback: the partition and the disk say the same of the sectors.
Reads(from, to, sectors) ==
  Look(from, to) /\ \A b \in sectors : MayRead(b, "image") /\ MayReadPart(b, "image")

FirstOf(S) == {b \in S : \A c \in S : b <= c}

\* _fat32_receipt: the boot sector; its copy and both FSInfo sectors; the label in the root.
Fat32Boot == Reads("receipt", "fat-copies", FirstOf(Metadata))
Fat32Copies == Reads("fat-copies", "fat-root", Metadata)
Fat32Root == Reads("fat-root", "issue", Metadata)

\* _ntfs_receipt: the boot sector; its copy at the end; the label in the volume record.
NtfsBoot == Reads("receipt", "ntfs-copy", FirstOf(Metadata))
NtfsCopy == Reads("ntfs-copy", "ntfs-volume", Metadata)
NtfsVolume == Reads("ntfs-volume", "issue", Metadata)

Receipt == Look("issue", "success")

-----------------------------------------------------------------------------
(* Exceptions and the emergency clean-up. *)

Handler ==
  CASE pc \in PreCommit           -> "refused"
    [] pc \in Erasing \union Building -> IF part THEN "close-part" ELSE "cleanup-identity"
    [] pc \in Cleaning            -> "unverified"

BeingWritten ==
  CASE pc = "scan"          -> {cursor}
    [] pc = "cleanup-write" -> Ends
    [] OTHER                -> {}

\* Any call may fail; some of a write may have been accepted.
StepFails ==
  /\ pc \in Running \ {"sfdisk", "mkfs"}
  /\ pc' = Handler
  /\ \E S \in SUBSET BeingWritten : Put(S, "zero")
  /\ UNCHANGED helperVars

FsyncFails ==
  /\ pc \in {"fsync-zero", "fsync-table", "fsync-whole", "cleanup-fsync"}
  /\ pc' = Handler
  /\ LoseDirty /\ UNCHANGED helperVars

FsyncPartitionFails ==
  /\ pc = "fsync-part" /\ pc' = Handler
  /\ pdirty' = {}
  /\ UNCHANGED <<cursor, part, ppage, stray, channel, fate, targetVars>>

\* A progress packet to a peer that has gone.
ProgressFails == pc \in {"scan", "readback"} /\ ~Heard /\ Look(pc, Handler)

\* run_exact_child: a failure, a time-out or too much output; the process group is
\* terminated and reaped, or the helper could not prove that it is gone.
SfdiskFails ==
  /\ Step("sfdisk", Handler)
  /\ \E S \in SUBSET Table : Put(S, "image")
  /\ stray' \in {"none", "sfdisk"}
  /\ UNCHANGED <<cursor, partVars, channel, fate>>

MkfsFails ==
  /\ Step("mkfs", Handler)
  /\ \E S \in SUBSET Metadata : PutPart(S, "image")
  /\ stray' \in {"none", "mkfs"}
  /\ UNCHANGED <<cursor, part, channel, fate, targetVars>>

\* The last close writes the partition's cache back.
ClosePartition ==
  /\ Step("close-part", "cleanup-identity")
  /\ part' = FALSE
  /\ IF stray = "mkfs" THEN UNCHANGED <<ppage, pdirty, targetVars>> ELSE DrainPart
  /\ UNCHANGED <<cursor, stray, channel, fate>>

CleanupIdentity == Look("cleanup-identity", "cleanup-write") /\ SameGeneration
CleanupWrite ==
  Step("cleanup-write", "cleanup-fsync") /\ Put(Ends, "zero") /\ UNCHANGED helperVars
CleanupFsync == Step("cleanup-fsync", "cleanup-flush") /\ Fsync /\ UNCHANGED helperVars
CleanupFlush == Step("cleanup-flush", "cleanup-read") /\ FlushBuffers /\ UNCHANGED helperVars
CleanupRead ==
  Look("cleanup-read", "cleanup-reread") /\ \A b \in Ends : MayRead(b, "zero")

\* BLKRRPART refuses while anybody has the partition open.
CleanupReread ==
  /\ Step("cleanup-reread", "failed")
  /\ ~part /\ stray # "mkfs"
  /\ Fsync /\ UNCHANGED helperVars

-----------------------------------------------------------------------------
(* The environment. *)

\* A child that was left behind goes on with its work.
StrayWrites ==
  /\ pc \notin {"killed", "powerloss"}
  /\ \/ /\ stray = "sfdisk"
        /\ \E b \in Table : Put({b}, "image")
        /\ UNCHANGED helperVars
     \/ /\ stray = "mkfs"
        /\ \E b \in Metadata : PutPart({b}, "image")
        /\ UNCHANGED <<cursor, part, stray, channel, fate, targetVars>>
  /\ UNCHANGED pc

WriteBack ==
  /\ pc # "powerloss"
  /\ \/ \E b \in dirty : WriteBackSector(b) /\ UNCHANGED <<ppage, pdirty>>
     \/ \E b \in pdirty : PersistPart({b}) /\ pdirty' = pdirty \ {b}
                          /\ UNCHANGED <<ppage, page, dirty>>
  /\ UNCHANGED <<pc, cursor, part, stray, channel, fate>>

PowerLoss ==
  /\ pc \in Running /\ pc' = "powerloss"
  /\ LosePower
  /\ ppage' = [b \in Blocks |-> "absent"] /\ pdirty' = {}
  /\ UNCHANGED <<cursor, part, stray, channel, fate>>

Kill == pc \in Running /\ Look(pc, "killed")

\* The phase is kept, not the step.
PhaseOf(step) ==
  IF step \in PreCommit \union {"committed"} THEN "open" ELSE IF step \in Erasing THEN "scan" ELSE "sfdisk"

MediumReplaced ==
  /\ pc \in Running /\ swap = "none"
  /\ swap' = PhaseOf(pc)
  /\ UNCHANGED <<pc, cursor, partVars, stray, channel, weak, targetVars>>

\* What the helper does once the target is open.
Works ==
  \/ Commit \/ CancelBeforeCommit \/ RecheckAfterCommit
  \/ SkipSector \/ ZeroSector \/ FsyncZero \/ FlushZero \/ ReadBack \/ RecheckZero
  \/ Partition \/ FsyncTable \/ RereadTable \/ Settle \/ RecheckTable \/ ReadTable
  \/ DiscoverPartition \/ OpenPartition \/ RecheckPartition \/ RediscoverPartition
  \/ Format \/ FsyncPartition \/ FlushPartition \/ FsyncWhole \/ FlushWhole
  \/ RecheckFinal \/ ReadFinal
  \/ Fat32Boot \/ Fat32Copies \/ Fat32Root \/ NtfsBoot \/ NtfsCopy \/ NtfsVolume \/ Receipt
  \/ StepFails \/ FsyncFails \/ FsyncPartitionFails \/ ProgressFails
  \/ SfdiskFails \/ MkfsFails
  \/ ClosePartition \/ CleanupIdentity \/ CleanupWrite \/ CleanupFsync \/ CleanupFlush
  \/ CleanupRead \/ CleanupReread

Machine == StrayWrites \/ WriteBack \/ PowerLoss \/ Kill \/ MediumReplaced

-----------------------------------------------------------------------------
(* What the transaction promises. *)

\* A restored disk is the new table and filesystem on an erased disk, durably; a
\* failure after a clean-up that went through leaves both ends durably empty and no
\* cache that could fill them again, unless an sfdisk that could not be killed goes on.
\* Neither is promised of a disk that is swapped after the last look at its identity.
OutcomeIsTrue ==
  /\ pc = "success" /\ swap = "none" =>
       /\ \A b \in Table \union Metadata : dur[b] = "image"
       /\ \A b \in Blocks \ (Table \union Metadata) : dur[b] = "zero"
       /\ dirty = {} /\ pdirty = {} /\ alien = {}
  /\ pc = "failed" /\ stray # "sfdisk" /\ swap = "none" =>
       (\A b \in Ends : dur[b] = "zero") /\ dirty = {} /\ pdirty = {}
  /\ pc \in {"refused", "cancelled"} => \A b \in Blocks : dur[b] \in {"old", "zero"}

\* Nothing of the new layout becomes durable on a disk that still shows old data, or
\* that did not keep its zeroes.
ErasedBeforeNew ==
  (\E b \in Blocks : dur[b] = "image") =>
    \A b \in Blocks : dur[b] # "old" /\ (dur[b] = "bad" => b \in Table \union Metadata \union Ends)

\* A medium that took the place of the disk before the erasure gets no byte, one that
\* came during the erasure no table.
ReplacementIsSpared ==
  /\ swap \in PreCommit \union {"committed"} => alien = {}
  /\ swap \in Erasing => \A a \in alien : a[2] = "zero"

-----------------------------------------------------------------------------
VARIABLES
  rpc,        \* what run() is doing
  cancelled,  \* RestoreDeviceRunner._cancelled
  committed,  \* RestoreDeviceRunner._committed
  packet,     \* the last packet of the helper that was not read: a kind, or "none"
  exited,     \* the exit status of the helper: "running", 0, 1
  report      \* how run() ended: "none", "result", "error", "cancelled"

runnerVars == <<rpc, cancelled, committed, report>>
helperEnd == <<packet, exited>>
vars == <<transactionVars, runnerVars, helperEnd>>

TypeOK ==
  /\ pc \in Running \union Ended /\ cursor \in Blocks /\ part \in BOOLEAN
  /\ ppage \in [Blocks -> {"image", "absent"}]
  /\ pdirty \subseteq {b \in Blocks : ppage[b] # "absent"}
  /\ decision \in {"none", "commit", "cancel"} /\ peer \in {"open", "closed"}
  /\ rpc \in {"receive", "poll", "confirm", "abort", "terminate", "wait", "returning", "done"}
  /\ packet \in {"none", "prepared", "result", "error"}
  /\ exited \in {"running", "0", "1"}
  /\ report \in {"none", "result", "error", "cancelled"}
  /\ DeviceTypeOK

Init ==
  /\ TransactionInit
  /\ rpc = "receive" /\ cancelled = FALSE /\ committed = FALSE /\ report = "none"
  /\ packet = "none" /\ exited = "running"

-----------------------------------------------------------------------------
(* The helper's side of the channel. *)

\* prepared() sends PREPARED when the target is open.
HelperPrepares == OpenTarget /\ peer = "open" /\ packet' = "prepared" /\ UNCHANGED exited

HelperWorks == Works /\ UNCHANGED helperEnd

\* serve_restore_device_channel sends the result or the error outside of the
\* transaction, and exits.
HelperReplies ==
  /\ exited = "running" /\ pc \in Ended \ {"killed", "powerloss"}
  /\ exited' = IF pc = "success" /\ peer = "open" THEN "0" ELSE "1"
  /\ packet' = IF peer = "closed" THEN packet
               ELSE IF pc = "success" THEN "result" ELSE "error"
  /\ UNCHANGED transactionVars

HelperDies == exited = "running" /\ pc = "killed" /\ exited' = "1"
              /\ UNCHANGED <<transactionVars, packet>>

ServeRestore ==
  (HelperPrepares \/ HelperWorks \/ HelperReplies \/ HelperDies) /\ UNCHANGED runnerVars

-----------------------------------------------------------------------------
(* RestoreDeviceRunner.run. *)

Run(from, to) == rpc = from /\ rpc' = to

\* The user cancels.
CancelRunner ==
  /\ ~cancelled /\ rpc # "done"
  /\ cancelled' = TRUE
  /\ UNCHANGED <<transactionVars, helperEnd, rpc, committed, report>>

Beside == UNCHANGED <<transactionVars, cancelled, committed>>

\* An exception of the loop, kept in report until the except clause has ended.
Raises(from, kind) ==
  /\ Run(from, "abort") /\ report' = kind
  /\ UNCHANGED exited /\ Beside

\* _receive: select, then the time-out of the next round, then poll.
ReceivePrepared == Run("receive", "confirm") /\ packet = "prepared" /\ packet' = "none"
                   /\ UNCHANGED <<exited, report>> /\ Beside
ReceiveResult == Run("receive", "wait") /\ packet = "result" /\ packet' = "none"
                 /\ report' = "result" /\ UNCHANGED exited /\ Beside
ReceiveError == Raises("receive", "error") /\ packet = "error" /\ packet' = "none"
SelectEmpty == Run("receive", "poll") /\ packet = "none" /\ UNCHANGED <<helperEnd, report>>
               /\ Beside
PollRunning == Run("poll", "receive") /\ exited = "running" /\ UNCHANGED <<helperEnd, report>>
               /\ Beside
PollExited == Raises("poll", "error") /\ exited # "running" /\ UNCHANGED packet
Stall == Raises("poll", "error") /\ UNCHANGED packet

\* confirm_commit() of the workflow raises, or the decision is sent; COMMIT may fail
\* to be sent, and is taken for sent.
ConfirmRaises == \E kind \in {"error", "cancelled"} :
                    Raises("confirm", kind) /\ (kind = "cancelled" => cancelled) /\ UNCHANGED packet

DecideCommit ==
  /\ rpc = "confirm" /\ ~cancelled
  /\ committed' = TRUE
  /\ \/ decision' = "commit" /\ rpc' = "receive" /\ UNCHANGED report
     \/ decision' \in {"commit", "none"} /\ rpc' = "abort" /\ report' = "error"
  /\ UNCHANGED <<pc, cursor, partVars, stray, peer, fate, targetVars,
                 helperEnd, cancelled>>

DecideCancel ==
  /\ rpc = "confirm" /\ cancelled
  /\ decision' = "cancel"
  /\ rpc' = "abort" /\ report' = "cancelled"
  /\ UNCHANGED <<pc, cursor, partVars, stray, peer, fate, targetVars,
                 helperEnd, cancelled, committed>>

\* The except clause: no signal after COMMIT.
AbortCommitted ==
  /\ Run("abort", "wait") /\ committed /\ exited = "running"
  /\ peer' = "closed"
  /\ UNCHANGED <<pc, cursor, partVars, stray, decision, fate, targetVars,
                 helperEnd, cancelled, committed, report>>

AbortExited == Run("abort", "returning") /\ exited # "running"
               /\ UNCHANGED <<helperEnd, report>> /\ Beside

AbortUncommitted == Run("abort", "terminate") /\ ~committed /\ exited = "running"
                    /\ UNCHANGED <<helperEnd, report>> /\ Beside

\* SIGTERM, and SIGKILL after five seconds: they stop the helper where it is, unless
\* it has ended by itself or the kernel refuses the signal.
Terminate ==
  \/ /\ Run("terminate", "returning") /\ pc \in Running
     /\ pc' = "killed" /\ exited' = "1"
     /\ UNCHANGED <<helperVars, targetVars, packet, cancelled, committed, report>>
  \/ /\ Run("terminate", "returning") /\ exited # "running"
     /\ UNCHANGED <<helperEnd, report>> /\ Beside
  \/ /\ Run("terminate", "returning") /\ report' = "error"
     /\ UNCHANGED helperEnd /\ Beside

\* _wait_committed_exit, after a result or in the except clause.
WaitExit ==
  /\ Run("wait", "returning") /\ exited # "running"
  /\ report' = IF report = "result" /\ exited # "0" THEN "error" ELSE report
  /\ UNCHANGED helperEnd /\ Beside

\* The finally clause closes the channel.
Return ==
  /\ Run("returning", "done")
  /\ peer' = "closed"
  /\ UNCHANGED <<pc, cursor, partVars, stray, decision, fate, targetVars,
                 helperEnd, cancelled, committed, report>>

Runner ==
  /\ pc # "powerloss"
  /\ \/ CancelRunner \/ ReceivePrepared \/ ReceiveResult \/ ReceiveError \/ SelectEmpty
     \/ PollRunning \/ PollExited \/ Stall \/ ConfirmRaises \/ DecideCommit \/ DecideCancel
     \/ AbortCommitted \/ AbortExited \/ AbortUncommitted \/ Terminate \/ WaitExit \/ Return

Environment == Machine /\ UNCHANGED <<runnerVars, helperEnd>>

Next == ServeRestore \/ Runner \/ Environment

Spec == Init /\ [][Next]_vars

-----------------------------------------------------------------------------
(* Properties. *)

Untouched == alien = {} /\ dirty = {} /\ pdirty = {} /\ \A b \in Blocks : dur[b] \in {"old", "zero"}

\* What the helper makes of the disk, and what run() says of it: a result is a restored
\* disk, a cancellation an untouched one, and so is an error without COMMIT.
ReportIsTrue ==
  /\ OutcomeIsTrue
  /\ rpc = "done" =>
       /\ report = "result" => pc = "success"
       /\ report = "cancelled" \/ ~committed => pc \in PreCommit \union {"refused", "cancelled", "killed", "powerloss"} /\ Untouched

\* The runner does not come back from a committed restore while root may still write:
\* whatever it reports, the helper has ended.
ReturnsLast == rpc = "done" /\ decision = "commit" => exited # "running"
=================================================================================
