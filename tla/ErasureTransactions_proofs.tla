----------------------- MODULE ErasureTransactions_proofs ------------------------
(***************************************************************************)
(* Proofs about ErasureTransactions, for every size of disk, chunk, ends,  *)
(* table and file system, and any sectors that keep nothing: what is       *)
(* reported of an erasure is true, a disk that takes the place of the      *)
(* target is spared, and nothing of a new layout precedes the erasure.     *)
(* First comes the restore: an invariant that every step of the helper,    *)
(* its stray children, its runner and the machine preserves; then the      *)
(* fast zero, whose counters need some facts about chunks.                 *)
(***************************************************************************)
EXTENDS ErasureTransactions, FiniteSetTheorems, FunctionTheorems, TLAPS

-----------------------------------------------------------------------------
(* The restore. *)


Disk == 0..RestoreTail
Layout == Table \union Metadata

RestoreTypeOK ==
  /\ Restore!TypeOK
  /\ swap \in {"none", "open", "scan", "sfdisk"}
  /\ stray \in {"none", "sfdisk", "mkfs"}
  /\ {cancelled, committed} \subseteq BOOLEAN

-----------------------------------------------------------------------------
(* The caches and the medium. *)

Absent == page = [b \in Disk |-> "absent"]
PartAbsent == ppage = [b \in Disk |-> "absent"]
Clean == Absent /\ dirty = {}
PartClean == PartAbsent /\ pdirty = {}
Zeroed == \A b \in Disk : dur[b] = "zero"

\* Nothing of the new layout exists, not even in a cache.
NoImage == \A b \in Disk : dur[b] # "image" /\ page[b] # "image" /\ ppage[b] # "image"

\* Nothing old exists, and a sector that lost its zeroes was written since they were read.
Erased ==
  /\ \A b \in Disk : dur[b] # "old" /\ (dur[b] = "bad" => b \in Layout \union Restore!Ends)
  /\ dirty \subseteq Layout \union Restore!Ends
  /\ pdirty \subseteq Metadata

-----------------------------------------------------------------------------
(* The steps of the helper. *)

Before == Restore!PreCommit \union {"committed", "refused", "cancelled"}
NotYet == Restore!PreCommit \union {"refused", "cancelled", "killed", "powerloss"}

\* The steps that have the partition open, those after its last write, and those that read
\* from the medium alone.
Opened ==
  {"recheck-part", "rediscover", "mkfs", "fsync-part", "flush-part", "fsync-whole",
   "flush-whole", "recheck-final", "read-final", "receipt", "fat-copies", "fat-root",
   "ntfs-copy", "ntfs-volume", "issue"}
Dropped ==
  {"recheck-final", "read-final", "receipt", "fat-copies", "fat-root", "ntfs-copy",
   "ntfs-volume", "issue", "success"}
Formatted == {"fsync-whole", "flush-whole"} \union Dropped
TableRead == Dropped \ {"recheck-final", "read-final"}
Closed == (Restore!Cleaning \ {"close-part"}) \union {"failed"}

\* Until the decision, and until the identity was looked at after it.
Untouched == Restore!Untouched
UntouchedBefore ==
  /\ pc \in Before => Untouched /\ Clean /\ PartClean /\ stray = "none" /\ ~part
  /\ decision # "commit" => pc \in NotYet /\ Untouched

\* The erasure, and its read-back from the medium.
Erasure ==
  /\ pc \in Restore!Erasing =>
       /\ PartClean /\ stray = "none" /\ ~part
       /\ NoImage
       /\ \A b \in dirty : page[b] = "zero"
  /\ pc \in {"fsync-zero", "flush-zero"} => cursor = 0
  /\ pc \in {"readback", "recheck-zero"} => Clean
  /\ pc = "readback" /\ swap = "none" => \A b \in 0..(cursor - 1) : dur[b] = "zero"
  /\ pc = "recheck-zero" /\ swap = "none" => Zeroed

\* The new layout, on a disk that was zero.
Construction ==
  /\ pc \in Restore!Building \union {"success"} =>
       /\ swap \in {"none", "sfdisk"} /\ stray = "none"
       /\ \A b \in Disk : dur[b] # "old" /\ (b \notin Layout => dur[b] = "zero")
       /\ dirty \subseteq Table /\ pdirty \subseteq Metadata
  /\ pc \in Opened => part
  /\ pc \in Restore!Building \ Opened => ~part
  /\ pc \in Formatted => PartClean
  /\ pc \in Dropped => Clean
  /\ pc \in TableRead /\ swap = "none" => \A b \in Table : dur[b] = "image"
  /\ pc \in {"issue", "success"} /\ swap = "none" => \A b \in Metadata : dur[b] = "image"

\* The clean-up.  A child that survived may write until it is over.
CleanUp ==
  /\ pc \in Closed => ~part
  /\ ~part /\ stray # "mkfs" => pdirty = {}
  /\ pc = "failed" => stray # "mkfs"
  /\ stray = "none" /\ pc \in {"cleanup-read", "cleanup-reread", "failed"} => Clean
  /\ stray = "none" /\ swap = "none" /\ pc \in {"cleanup-reread", "failed"} =>
       \A b \in Restore!Ends : dur[b] = "zero"

\* At every instant one of the two, also after a kill, a loss of power or a lost fsync.
Ordered ==
  /\ NoImage \/ Erased
  /\ pc \in Restore!Building \/ part \/ stray # "none" => Erased

\* What a medium that took the place of the disk gets.
Spared ==
  /\ swap = "none" => alien = {}
  /\ swap = "open" =>
       /\ alien = {} /\ dirty = {} /\ pdirty = {} /\ stray = "none" /\ ~part
       /\ pc \in Before \union {"cleanup-identity", "unverified", "killed", "powerloss"}
  /\ swap = "scan" =>
       /\ \A a \in alien : a[2] = "zero"
       /\ \A b \in dirty : page[b] = "zero"
       /\ pdirty = {} /\ stray = "none" /\ ~part
       /\ pc \in (Restore!Erasing \ {"committed"})
                   \union {"cleanup-identity", "unverified", "killed", "powerloss"}

-----------------------------------------------------------------------------
(* The runner. *)

Told ==
  /\ pc = "open" => packet = "none" /\ decision = "none" /\ rpc # "confirm" /\ ~committed
  /\ packet = "prepared" \/ rpc = "confirm" => decision = "none" /\ ~committed
  /\ packet = "prepared" => rpc # "confirm"
  /\ ~committed => decision # "commit"
  /\ rpc \in {"receive", "poll", "confirm"} => report = "none"
  /\ report = "cancelled" => ~committed
  /\ packet = "result" \/ report = "result" => pc = "success"
  /\ rpc = "terminate" => ~committed
  /\ rpc \in {"returning", "done"} /\ decision = "commit" => exited # "running"

RestoreInv ==
  /\ RestoreTypeOK
  /\ UntouchedBefore /\ Erasure /\ Construction /\ CleanUp /\ Ordered /\ Spared
  /\ Told

-----------------------------------------------------------------------------
\* The ends lie on the disk.
LEMMA EndsOfDisk == Restore!Ends \subseteq Disk
BY DEF Disk, Restore!Ends, Restore!Blocks

LEMMA RestoreInitially == Restore!Init => RestoreInv
<1> SUFFICES ASSUME Restore!Init PROVE RestoreInv
  OBVIOUS
<1> USE ErasureAssumption, EndsOfDisk
    DEF RestoreInv, RestoreTypeOK, UntouchedBefore, Erasure, Construction, CleanUp, Ordered, Spared,
        Told, Absent, PartAbsent, Clean, PartClean, Zeroed, NoImage, Erased, Before, NotYet, Opened,
        Dropped, Formatted, TableRead, Closed, Untouched, Disk, Layout,
        Restore!Untouched, Restore!TypeOK, Restore!DeviceTypeOK, Restore!Blocks, Restore!Content,
        Restore!PreCommit, Restore!Erasing, Restore!Building, Restore!Cleaning, Restore!Running,
        Restore!Ended, Restore!helperVars, Restore!partVars, Restore!channel, Restore!fate,
        Restore!targetVars, Restore!runnerVars, Restore!helperEnd, Restore!transactionVars
<1>1. RestoreTypeOK
  BY DEF Restore!Init, Restore!TransactionInit, Restore!DeviceInit
<1>2. UntouchedBefore /\ Erasure /\ Construction /\ CleanUp /\ Ordered /\ Spared /\ Told
  BY DEF Restore!Init, Restore!TransactionInit, Restore!DeviceInit
<1>3. QED
  BY <1>1, <1>2

\* What is written back, of the disk or of the partition, is of the type of what is stored.
LEMMA DiskPersists ==
  ASSUME RestoreTypeOK, Restore!Persist(dirty)
  PROVE  /\ dur' \in [Restore!Blocks -> Restore!Content]
         /\ alien' \subseteq Restore!Blocks \X (Restore!Content \ {"old"})
BY DEF Restore!Persist, RestoreTypeOK, Restore!TypeOK, Restore!DeviceTypeOK, Restore!Content

LEMMA PartitionPersists ==
  ASSUME RestoreTypeOK, Restore!PersistPart(pdirty)
  PROVE  /\ dur' \in [Restore!Blocks -> Restore!Content]
         /\ alien' \subseteq Restore!Blocks \X (Restore!Content \ {"old"})
BY DEF Restore!PersistPart, RestoreTypeOK, Restore!TypeOK, Restore!DeviceTypeOK, Restore!Content

\* A step of the transaction.
LEMMA HelperStep ==
  ASSUME RestoreInv, Restore!Works, UNCHANGED <<Restore!helperEnd, Restore!runnerVars>>
  PROVE  RestoreInv'
<1> USE ErasureAssumption, EndsOfDisk
    DEF RestoreInv, RestoreTypeOK, UntouchedBefore, Erasure, Construction, CleanUp, Ordered, Spared,
        Told, Absent, PartAbsent, Clean, PartClean, Zeroed, NoImage, Erased, Before, NotYet, Opened,
        Dropped, Formatted, TableRead, Closed, Untouched, Disk, Layout,
        Restore!Untouched, Restore!TypeOK, Restore!DeviceTypeOK, Restore!Blocks, Restore!Content,
        Restore!PreCommit, Restore!Erasing, Restore!Building, Restore!Cleaning, Restore!Running,
        Restore!Ended, Restore!helperVars, Restore!partVars, Restore!channel, Restore!fate,
        Restore!targetVars, Restore!runnerVars, Restore!helperEnd, Restore!transactionVars
<1>1. CASE Restore!Commit
  BY <1>1 DEF Restore!Commit, Restore!Look, Restore!Step
<1>2. CASE Restore!CancelBeforeCommit
  BY <1>2 DEF Restore!CancelBeforeCommit, Restore!Look, Restore!Step
<1>3. CASE Restore!RecheckAfterCommit
  BY <1>3 DEF Restore!RecheckAfterCommit, Restore!Look, Restore!Step, Restore!SameGeneration
<1>4. CASE Restore!SkipSector
  BY <1>4 DEF Restore!SkipSector, Restore!Advance, Restore!Step, Restore!Heard,
      Restore!MayRead
<1>5. CASE Restore!ZeroSector
  BY <1>5 DEF Restore!ZeroSector, Restore!Advance, Restore!Step, Restore!Heard,
      Restore!MayRead, Restore!Put
<1>6. CASE Restore!FsyncZero
  <2> USE <1>6 DEF Restore!FsyncZero, Restore!Step, Restore!Fsync, Restore!Persist
  <2>1. RestoreTypeOK'
    OBVIOUS
  <2>2. UntouchedBefore'
    OBVIOUS
  <2>3. Erasure'
    OBVIOUS
  <2>4. Construction'
    OBVIOUS
  <2>5. CleanUp'
    OBVIOUS
  <2>6. Ordered'
    OBVIOUS
  <2>7. Spared'
    OBVIOUS
  <2>8. Told'
    OBVIOUS
  <2>9. QED
    BY <2>1, <2>2, <2>3, <2>4, <2>5, <2>6, <2>7, <2>8
<1>7. CASE Restore!FlushZero
  <2> USE <1>7 DEF Restore!FlushZero, Restore!Step, Restore!FlushBuffers, Restore!Persist
  <2>1. RestoreTypeOK'
    OBVIOUS
  <2>2. UntouchedBefore'
    OBVIOUS
  <2>3. Erasure'
    OBVIOUS
  <2>4. Construction'
    OBVIOUS
  <2>5. CleanUp'
    OBVIOUS
  <2>6. Ordered'
    OBVIOUS
  <2>7. Spared'
    OBVIOUS
  <2>8. Told'
    OBVIOUS
  <2>9. QED
    BY <2>1, <2>2, <2>3, <2>4, <2>5, <2>6, <2>7, <2>8
<1>8. CASE Restore!ReadBack
  BY <1>8 DEF Restore!ReadBack, Restore!Advance, Restore!Step, Restore!Heard, Restore!MayRead
<1>9. CASE Restore!RecheckZero
  BY <1>9 DEF Restore!RecheckZero, Restore!Look, Restore!Step, Restore!SameGeneration
<1>10. CASE Restore!Partition
  BY <1>10 DEF Restore!Partition, Restore!Step, Restore!Put
<1>11. CASE Restore!FsyncTable
  <2> USE <1>11 DEF Restore!FsyncTable, Restore!Step, Restore!Fsync, Restore!Persist
  <2>1. RestoreTypeOK'
    OBVIOUS
  <2>2. UntouchedBefore'
    OBVIOUS
  <2>3. Erasure'
    OBVIOUS
  <2>4. Construction'
    OBVIOUS
  <2>5. CleanUp'
    OBVIOUS
  <2>6. Ordered'
    OBVIOUS
  <2>7. Spared'
    OBVIOUS
  <2>8. Told'
    OBVIOUS
  <2>9. QED
    BY <2>1, <2>2, <2>3, <2>4, <2>5, <2>6, <2>7, <2>8
<1>12. CASE Restore!RereadTable
  <2> USE <1>12 DEF Restore!RereadTable, Restore!Step, Restore!Fsync, Restore!Persist
  <2>1. RestoreTypeOK'
    OBVIOUS
  <2>2. UntouchedBefore'
    OBVIOUS
  <2>3. Erasure'
    OBVIOUS
  <2>4. Construction'
    OBVIOUS
  <2>5. CleanUp'
    OBVIOUS
  <2>6. Ordered'
    OBVIOUS
  <2>7. Spared'
    OBVIOUS
  <2>8. Told'
    OBVIOUS
  <2>9. QED
    BY <2>1, <2>2, <2>3, <2>4, <2>5, <2>6, <2>7, <2>8
<1>13. CASE Restore!Settle
  BY <1>13 DEF Restore!Settle, Restore!Look, Restore!Step
<1>14. CASE Restore!RecheckTable
  BY <1>14 DEF Restore!RecheckTable, Restore!Look, Restore!Step, Restore!SameGeneration
<1>15. CASE Restore!ReadTable
  BY <1>15 DEF Restore!ReadTable, Restore!Look, Restore!Step
<1>16. CASE Restore!DiscoverPartition
  BY <1>16 DEF Restore!DiscoverPartition, Restore!Look, Restore!Step
<1>17. CASE Restore!OpenPartition
  BY <1>17 DEF Restore!OpenPartition, Restore!Step
<1>18. CASE Restore!RecheckPartition
  BY <1>18 DEF Restore!RecheckPartition, Restore!Look, Restore!Step, Restore!SameGeneration
<1>19. CASE Restore!RediscoverPartition
  BY <1>19 DEF Restore!RediscoverPartition, Restore!Look, Restore!Step, Restore!SameGeneration
<1>20. CASE Restore!Format
  BY <1>20 DEF Restore!Format, Restore!Step, Restore!PutPart
<1>21. CASE Restore!FsyncPartition
  <2> USE <1>21 DEF Restore!FsyncPartition, Restore!Step, Restore!PersistPart
  <2>1. RestoreTypeOK'
    OBVIOUS
  <2>2. UntouchedBefore'
    OBVIOUS
  <2>3. Erasure'
    OBVIOUS
  <2>4. Construction'
    OBVIOUS
  <2>5. CleanUp'
    OBVIOUS
  <2>6. Ordered'
    OBVIOUS
  <2>7. Spared'
    OBVIOUS
  <2>8. Told'
    OBVIOUS
  <2>9. QED
    BY <2>1, <2>2, <2>3, <2>4, <2>5, <2>6, <2>7, <2>8
<1>22. CASE Restore!FlushPartition
  <2> USE <1>22 DEF Restore!FlushPartition, Restore!Step, Restore!DrainPart
  <2>1. RestoreTypeOK'
    BY PartitionPersists
  <2> USE DEF Restore!PersistPart
  <2>2. UntouchedBefore'
    OBVIOUS
  <2>3. Erasure'
    OBVIOUS
  <2>4. Construction'
    OBVIOUS
  <2>5. CleanUp'
    OBVIOUS
  <2>6. Ordered'
    OBVIOUS
  <2>7. Spared'
    OBVIOUS
  <2>8. Told'
    OBVIOUS
  <2>9. QED
    BY <2>1, <2>2, <2>3, <2>4, <2>5, <2>6, <2>7, <2>8
<1>23. CASE Restore!FsyncWhole
  <2> USE <1>23 DEF Restore!FsyncWhole, Restore!Step, Restore!Fsync, Restore!Persist
  <2>1. RestoreTypeOK'
    OBVIOUS
  <2>2. UntouchedBefore'
    OBVIOUS
  <2>3. Erasure'
    OBVIOUS
  <2>4. Construction'
    OBVIOUS
  <2>5. CleanUp'
    OBVIOUS
  <2>6. Ordered'
    OBVIOUS
  <2>7. Spared'
    OBVIOUS
  <2>8. Told'
    OBVIOUS
  <2>9. QED
    BY <2>1, <2>2, <2>3, <2>4, <2>5, <2>6, <2>7, <2>8
<1>24. CASE Restore!FlushWhole
  <2> USE <1>24 DEF Restore!FlushWhole, Restore!Step, Restore!FlushBuffers
  <2>1. RestoreTypeOK'
    BY DiskPersists
  <2> USE DEF Restore!Persist
  <2>2. UntouchedBefore'
    OBVIOUS
  <2>3. Erasure'
    OBVIOUS
  <2>4. Construction'
    OBVIOUS
  <2>5. CleanUp'
    OBVIOUS
  <2>6. Ordered'
    OBVIOUS
  <2>7. Spared'
    OBVIOUS
  <2>8. Told'
    OBVIOUS
  <2>9. QED
    BY <2>1, <2>2, <2>3, <2>4, <2>5, <2>6, <2>7, <2>8
<1>25. CASE Restore!RecheckFinal
  BY <1>25 DEF Restore!RecheckFinal, Restore!Look, Restore!Step, Restore!SameGeneration
<1>26. CASE Restore!ReadFinal
  BY <1>26 DEF Restore!ReadFinal, Restore!Look, Restore!Step, Restore!MayRead
<1>27. CASE Restore!Fat32Boot
  BY <1>27 DEF Restore!Fat32Boot, Restore!Reads, Restore!Look, Restore!Step, Restore!MayRead,
      Restore!MayReadPart
<1>28. CASE Restore!Fat32Copies
  BY <1>28 DEF Restore!Fat32Copies, Restore!Reads, Restore!Look, Restore!Step,
      Restore!MayRead, Restore!MayReadPart
<1>29. CASE Restore!Fat32Root
  BY <1>29 DEF Restore!Fat32Root, Restore!Reads, Restore!Look, Restore!Step, Restore!MayRead,
      Restore!MayReadPart
<1>30. CASE Restore!NtfsBoot
  BY <1>30 DEF Restore!NtfsBoot, Restore!Reads, Restore!Look, Restore!Step, Restore!MayRead,
      Restore!MayReadPart
<1>31. CASE Restore!NtfsCopy
  BY <1>31 DEF Restore!NtfsCopy, Restore!Reads, Restore!Look, Restore!Step, Restore!MayRead,
      Restore!MayReadPart
<1>32. CASE Restore!NtfsVolume
  BY <1>32 DEF Restore!NtfsVolume, Restore!Reads, Restore!Look, Restore!Step, Restore!MayRead,
      Restore!MayReadPart
<1>33. CASE Restore!Receipt
  BY <1>33 DEF Restore!Receipt, Restore!Look, Restore!Step
<1>34. CASE Restore!StepFails
  BY <1>34 DEF Restore!StepFails, Restore!Handler, Restore!BeingWritten, Restore!Put
<1>35. CASE Restore!FsyncFails
  BY <1>35 DEF Restore!FsyncFails, Restore!Handler, Restore!LoseDirty
<1>36. CASE Restore!FsyncPartitionFails
  BY <1>36 DEF Restore!FsyncPartitionFails, Restore!Handler
<1>37. CASE Restore!ProgressFails
  <2> USE <1>37 DEF Restore!ProgressFails, Restore!Handler, Restore!Heard, Restore!Look,
      Restore!Step
  <2>1. RestoreTypeOK'
    OBVIOUS
  <2>2. UntouchedBefore'
    OBVIOUS
  <2>3. Erasure'
    OBVIOUS
  <2>4. Construction'
    OBVIOUS
  <2>5. CleanUp'
    OBVIOUS
  <2>6. Ordered'
    OBVIOUS
  <2>7. Spared'
    OBVIOUS
  <2>8. Told'
    OBVIOUS
  <2>9. QED
    BY <2>1, <2>2, <2>3, <2>4, <2>5, <2>6, <2>7, <2>8
<1>38. CASE Restore!SfdiskFails
  BY <1>38 DEF Restore!SfdiskFails, Restore!Handler, Restore!Step, Restore!Put
<1>39. CASE Restore!MkfsFails
  BY <1>39 DEF Restore!MkfsFails, Restore!Handler, Restore!Step, Restore!PutPart
<1>40. CASE Restore!ClosePartition
  <2>1. CASE stray = "mkfs" /\ pc = "close-part" /\ pc' = "cleanup-identity" /\ part' = FALSE
      /\ UNCHANGED <<ppage, pdirty, Restore!targetVars, cursor, stray, Restore!channel,
      Restore!fate>>
    <3> USE <1>40, <2>1 DEF Restore!Step, Restore!DrainPart, Restore!PersistPart
    <3>1. RestoreTypeOK'
      BY ZenonT(60)
    <3>2. UntouchedBefore'
      OBVIOUS
    <3>3. Erasure'
      OBVIOUS
    <3>4. Construction'
      OBVIOUS
    <3>5. CleanUp'
      OBVIOUS
    <3>6. Ordered'
      OBVIOUS
    <3>7. Spared'
      OBVIOUS
    <3>8. Told'
      OBVIOUS
    <3>9. QED
      BY <3>1, <3>2, <3>3, <3>4, <3>5, <3>6, <3>7, <3>8
  <2>2. CASE swap = "none" /\ stray # "mkfs" /\ pc = "close-part" /\ pc' = "cleanup-identity"
      /\ part' = FALSE /\ Restore!DrainPart /\ UNCHANGED <<cursor, stray, Restore!channel,
      Restore!fate>>
    <3> USE <1>40, <2>2 DEF Restore!Step, Restore!DrainPart, Restore!PersistPart
    <3>1. RestoreTypeOK'
      <4>1. dur' \in [Disk -> Restore!Content]
        OBVIOUS
      <4>2. alien' \subseteq Disk \X (Restore!Content \ {"old"})
        OBVIOUS
      <4>3. ppage' = [b \in Disk |-> "absent"] /\ pdirty' = {} /\ UNCHANGED <<page, dirty, weak>>
        OBVIOUS
      <4>4. QED
        BY <4>1, <4>2, <4>3, ZenonT(60)
    <3>2. UntouchedBefore'
      OBVIOUS
    <3>3. Erasure'
      OBVIOUS
    <3>4. Construction'
      OBVIOUS
    <3>5. CleanUp'
      OBVIOUS
    <3>6. Ordered'
      <4>1. ASSUME Erased PROVE Erased'
        BY <4>1
      <4>2. ASSUME NoImage PROVE NoImage'
        BY <4>2
      <4>3. QED
        BY <4>1, <4>2
    <3>7. Spared'
      OBVIOUS
    <3>8. Told'
      OBVIOUS
    <3>9. QED
      BY <3>1, <3>2, <3>3, <3>4, <3>5, <3>6, <3>7, <3>8
  <2>3. CASE swap # "none" /\ stray # "mkfs" /\ pc = "close-part" /\ pc' = "cleanup-identity"
      /\ part' = FALSE /\ Restore!DrainPart /\ UNCHANGED <<cursor, stray, Restore!channel,
      Restore!fate>>
    <3> USE <1>40, <2>3 DEF Restore!Step, Restore!DrainPart, Restore!PersistPart
    <3>1. RestoreTypeOK'
      <4>1. dur' \in [Disk -> Restore!Content]
        OBVIOUS
      <4>2. alien' \subseteq Disk \X (Restore!Content \ {"old"})
        OBVIOUS
      <4>3. ppage' = [b \in Disk |-> "absent"] /\ pdirty' = {} /\ UNCHANGED <<page, dirty, weak>>
        OBVIOUS
      <4>4. QED
        BY <4>1, <4>2, <4>3, ZenonT(60)
    <3>2. UntouchedBefore'
      OBVIOUS
    <3>3. Erasure'
      OBVIOUS
    <3>4. Construction'
      OBVIOUS
    <3>5. CleanUp'
      OBVIOUS
    <3>6. Ordered'
      <4>1. ASSUME Erased PROVE Erased'
        BY <4>1
      <4>2. ASSUME NoImage PROVE NoImage'
        BY <4>2
      <4>3. QED
        BY <4>1, <4>2
    <3>7. Spared'
      OBVIOUS
    <3>8. Told'
      OBVIOUS
    <3>9. QED
      BY <3>1, <3>2, <3>3, <3>4, <3>5, <3>6, <3>7, <3>8
  <2>4. QED
    BY <1>40, <2>1, <2>2, <2>3 DEF Restore!ClosePartition, Restore!Step, Restore!DrainPart,
        Restore!PersistPart
<1>41. CASE Restore!CleanupIdentity
  BY <1>41 DEF Restore!CleanupIdentity, Restore!Look, Restore!Step, Restore!SameGeneration
<1>42. CASE Restore!CleanupWrite
  BY <1>42 DEF Restore!CleanupWrite, Restore!Step, Restore!Put
<1>43. CASE Restore!CleanupFsync
  <2> USE <1>43 DEF Restore!CleanupFsync, Restore!Step, Restore!Fsync, Restore!Persist
  <2>1. RestoreTypeOK'
    OBVIOUS
  <2>2. UntouchedBefore'
    OBVIOUS
  <2>3. Erasure'
    OBVIOUS
  <2>4. Construction'
    OBVIOUS
  <2>5. CleanUp'
    OBVIOUS
  <2>6. Ordered'
    OBVIOUS
  <2>7. Spared'
    OBVIOUS
  <2>8. Told'
    OBVIOUS
  <2>9. QED
    BY <2>1, <2>2, <2>3, <2>4, <2>5, <2>6, <2>7, <2>8
<1>44. CASE Restore!CleanupFlush
  <2> USE <1>44 DEF Restore!CleanupFlush, Restore!Step, Restore!FlushBuffers, Restore!Persist
  <2>1. RestoreTypeOK'
    OBVIOUS
  <2>2. UntouchedBefore'
    OBVIOUS
  <2>3. Erasure'
    OBVIOUS
  <2>4. Construction'
    OBVIOUS
  <2>5. CleanUp'
    OBVIOUS
  <2>6. Ordered'
    OBVIOUS
  <2>7. Spared'
    OBVIOUS
  <2>8. Told'
    OBVIOUS
  <2>9. QED
    BY <2>1, <2>2, <2>3, <2>4, <2>5, <2>6, <2>7, <2>8
<1>45. CASE Restore!CleanupRead
  BY <1>45 DEF Restore!CleanupRead, Restore!Look, Restore!Step, Restore!MayRead
<1>46. CASE Restore!CleanupReread
  <2> USE <1>46 DEF Restore!CleanupReread, Restore!Step, Restore!Fsync, Restore!Persist
  <2>1. RestoreTypeOK'
    OBVIOUS
  <2>2. UntouchedBefore'
    OBVIOUS
  <2>3. Erasure'
    OBVIOUS
  <2>4. Construction'
    OBVIOUS
  <2>5. CleanUp'
    OBVIOUS
  <2>6. Ordered'
    OBVIOUS
  <2>7. Spared'
    OBVIOUS
  <2>8. Told'
    OBVIOUS
  <2>9. QED
    BY <2>1, <2>2, <2>3, <2>4, <2>5, <2>6, <2>7, <2>8
<1>47. QED
  BY <1>1, <1>2, <1>3, <1>4, <1>5, <1>6, <1>7, <1>8, <1>9, <1>10, <1>11, <1>12, <1>13, <1>14,
      <1>15, <1>16, <1>17, <1>18, <1>19, <1>20, <1>21, <1>22, <1>23, <1>24, <1>25, <1>26,
      <1>27, <1>28, <1>29, <1>30, <1>31, <1>32, <1>33, <1>34, <1>35, <1>36, <1>37, <1>38,
      <1>39, <1>40, <1>41, <1>42, <1>43, <1>44, <1>45, <1>46 DEF Restore!Works

\* The kernel, the children that were left behind, and the user at the slot.
LEMMA MachineStep ==
  ASSUME RestoreInv, Restore!Machine, UNCHANGED <<Restore!helperEnd, Restore!runnerVars>>
  PROVE  RestoreInv'
<1> USE ErasureAssumption, EndsOfDisk
    DEF RestoreInv, RestoreTypeOK, UntouchedBefore, Erasure, Construction, CleanUp, Ordered, Spared,
        Told, Absent, PartAbsent, Clean, PartClean, Zeroed, NoImage, Erased, Before, NotYet, Opened,
        Dropped, Formatted, TableRead, Closed, Untouched, Disk, Layout,
        Restore!Untouched, Restore!TypeOK, Restore!DeviceTypeOK, Restore!Blocks, Restore!Content,
        Restore!PreCommit, Restore!Erasing, Restore!Building, Restore!Cleaning, Restore!Running,
        Restore!Ended, Restore!helperVars, Restore!partVars, Restore!channel, Restore!fate,
        Restore!targetVars, Restore!runnerVars, Restore!helperEnd, Restore!transactionVars
<1>1. CASE Restore!StrayWrites
  <2>1. CASE stray = "sfdisk" /\ pc \notin {"killed", "powerloss"} /\ (\E b \in Table :
      Restore!Put({b}, "image")) /\ UNCHANGED <<pc, Restore!helperVars>>
    BY <1>1, <2>1 DEF Restore!Put, Restore!PutPart
  <2>2. CASE stray = "mkfs" /\ pc \notin {"killed", "powerloss"} /\ (\E b \in Metadata :
      Restore!PutPart({b}, "image")) /\ UNCHANGED <<pc, cursor, part, stray, Restore!channel,
      Restore!fate, Restore!targetVars>>
    BY <1>1, <2>2 DEF Restore!Put, Restore!PutPart
  <2>3. QED
    BY <1>1, <2>1, <2>2 DEF Restore!StrayWrites, Restore!Put, Restore!PutPart
<1>2. CASE Restore!WriteBack
  <2>1. CASE (\E b \in dirty : Restore!WriteBackSector(b)) /\ UNCHANGED <<ppage, pdirty, pc,
      cursor, part, stray, Restore!channel, Restore!fate>> /\ pc # "powerloss"
    BY <1>2, <2>1 DEF Restore!WriteBackSector, Restore!Persist, Restore!PersistPart
  <2>2. CASE (\E b \in pdirty : Restore!PersistPart({b}) /\ pdirty' = pdirty \ {b}) /\
      UNCHANGED <<ppage, page, dirty, pc, cursor, part, stray, Restore!channel, Restore!fate>>
      /\ pc # "powerloss"
    BY <1>2, <2>2 DEF Restore!WriteBackSector, Restore!Persist, Restore!PersistPart
  <2>3. QED
    BY <1>2, <2>1, <2>2 DEF Restore!WriteBack, Restore!WriteBackSector, Restore!Persist,
        Restore!PersistPart
<1>3. CASE Restore!PowerLoss
  BY <1>3 DEF Restore!PowerLoss, Restore!LosePower
<1>4. CASE Restore!Kill
  BY <1>4 DEF Restore!Kill, Restore!Look, Restore!Step
<1>5. CASE Restore!MediumReplaced
  BY <1>5 DEF Restore!MediumReplaced, Restore!PhaseOf
<1>6. QED
  BY <1>1, <1>2, <1>3, <1>4, <1>5 DEF Restore!Machine

\* A step of the runner.
LEMMA RunnerStep ==
  ASSUME RestoreInv, Restore!Runner
  PROVE  RestoreInv'
<1> USE ErasureAssumption, EndsOfDisk
    DEF RestoreInv, RestoreTypeOK, UntouchedBefore, Erasure, Construction, CleanUp, Ordered, Spared,
        Told, Absent, PartAbsent, Clean, PartClean, Zeroed, NoImage, Erased, Before, NotYet, Opened,
        Dropped, Formatted, TableRead, Closed, Untouched, Disk, Layout,
        Restore!Untouched, Restore!TypeOK, Restore!DeviceTypeOK, Restore!Blocks, Restore!Content,
        Restore!PreCommit, Restore!Erasing, Restore!Building, Restore!Cleaning, Restore!Running,
        Restore!Ended, Restore!helperVars, Restore!partVars, Restore!channel, Restore!fate,
        Restore!targetVars, Restore!runnerVars, Restore!helperEnd, Restore!transactionVars
<1>1. CASE Restore!CancelRunner
  BY <1>1 DEF Restore!CancelRunner
<1>2. CASE Restore!ReceivePrepared
  BY <1>2 DEF Restore!ReceivePrepared, Restore!Run, Restore!Beside
<1>3. CASE Restore!ReceiveResult
  BY <1>3 DEF Restore!ReceiveResult, Restore!Run, Restore!Beside
<1>4. CASE Restore!ReceiveError
  BY <1>4 DEF Restore!ReceiveError, Restore!Raises, Restore!Run, Restore!Beside
<1>5. CASE Restore!SelectEmpty
  BY <1>5 DEF Restore!SelectEmpty, Restore!Run, Restore!Beside
<1>6. CASE Restore!PollRunning
  BY <1>6 DEF Restore!PollRunning, Restore!Run, Restore!Beside
<1>7. CASE Restore!PollExited
  BY <1>7 DEF Restore!PollExited, Restore!Raises, Restore!Run, Restore!Beside
<1>8. CASE Restore!Stall
  BY <1>8 DEF Restore!Stall, Restore!Raises, Restore!Run, Restore!Beside
<1>9. CASE Restore!ConfirmRaises
  BY <1>9 DEF Restore!ConfirmRaises, Restore!Raises, Restore!Run, Restore!Beside
<1>10. CASE Restore!DecideCommit
  BY <1>10 DEF Restore!DecideCommit
<1>11. CASE Restore!DecideCancel
  BY <1>11 DEF Restore!DecideCancel
<1>12. CASE Restore!AbortCommitted
  BY <1>12 DEF Restore!AbortCommitted, Restore!Run
<1>13. CASE Restore!AbortExited
  BY <1>13 DEF Restore!AbortExited, Restore!Run, Restore!Beside
<1>14. CASE Restore!AbortUncommitted
  BY <1>14, SMTT(30) DEF Restore!AbortUncommitted, Restore!Run, Restore!Beside
<1>15. CASE Restore!Terminate
  <2>1. CASE rpc = "terminate" /\ rpc' = "returning" /\ UNCHANGED <<Restore!transactionVars,
      Restore!helperEnd, cancelled, committed>> /\ ((exited # "running" /\ UNCHANGED report)
      \/ report' = "error")
    BY <1>15, <2>1 DEF Restore!Run, Restore!Beside
  <2>2. CASE rpc = "terminate" /\ rpc' = "returning" /\ pc \in Restore!Running /\ pc' =
      "killed" /\ exited' = "1" /\ UNCHANGED <<Restore!helperVars, Restore!targetVars, packet,
      cancelled, committed, report>>
    BY <1>15, <2>2 DEF Restore!Run, Restore!Beside
  <2>3. QED
    BY <1>15, <2>1, <2>2 DEF Restore!Terminate, Restore!Run, Restore!Beside
<1>16. CASE Restore!WaitExit
  BY <1>16 DEF Restore!WaitExit, Restore!Run, Restore!Beside
<1>17. CASE Restore!Return
  BY <1>17 DEF Restore!Return, Restore!Run
<1>18. QED
  BY <1>1, <1>2, <1>3, <1>4, <1>5, <1>6, <1>7, <1>8, <1>9, <1>10, <1>11, <1>12, <1>13, <1>14,
      <1>15, <1>16, <1>17 DEF Restore!Runner

\* The helper's side of the channel.
LEMMA ServeStep ==
  ASSUME RestoreInv, Restore!ServeRestore
  PROVE  RestoreInv'
<1> USE ErasureAssumption, EndsOfDisk
    DEF RestoreInv, RestoreTypeOK, UntouchedBefore, Erasure, Construction, CleanUp, Ordered, Spared,
        Told, Absent, PartAbsent, Clean, PartClean, Zeroed, NoImage, Erased, Before, NotYet, Opened,
        Dropped, Formatted, TableRead, Closed, Untouched, Disk, Layout,
        Restore!Untouched, Restore!TypeOK, Restore!DeviceTypeOK, Restore!Blocks, Restore!Content,
        Restore!PreCommit, Restore!Erasing, Restore!Building, Restore!Cleaning, Restore!Running,
        Restore!Ended, Restore!helperVars, Restore!partVars, Restore!channel, Restore!fate,
        Restore!targetVars, Restore!runnerVars, Restore!helperEnd, Restore!transactionVars
<1>1. CASE Restore!HelperPrepares /\ UNCHANGED Restore!runnerVars
  BY <1>1 DEF Restore!HelperPrepares, Restore!OpenTarget, Restore!SameGeneration,
      Restore!Look, Restore!Step
<1>2. CASE Restore!HelperReplies /\ UNCHANGED Restore!runnerVars
  BY <1>2 DEF Restore!HelperReplies
<1>3. CASE Restore!HelperDies /\ UNCHANGED Restore!runnerVars
  BY <1>3 DEF Restore!HelperDies
<1>4. CASE Restore!HelperWorks /\ UNCHANGED Restore!runnerVars
  BY <1>4, HelperStep DEF Restore!HelperWorks
<1>5. QED
  BY <1>1, <1>2, <1>3, <1>4 DEF Restore!ServeRestore

LEMMA RestoreStep ==
  ASSUME RestoreInv, Restore!Next
  PROVE  RestoreInv'
BY ServeStep, RunnerStep, MachineStep DEF Restore!Next, Restore!Environment

-----------------------------------------------------------------------------
(* The fast zero. *)


Target == FastZero!Blocks
LastChunk == ZeroTail \div ChunkSize
Chunk(b) == b \div ChunkSize
Results == FastZero!Partial \union {"success"}

\* The types that the rest needs.
ZeroTypeOK ==
  /\ pc \in FastZero!Running \union FastZero!Ended
  /\ FastZero!DeviceTypeOK
  /\ cause \in {"none", "cancel", "fault"}
  /\ {cancelled, committed} \subseteq BOOLEAN
  /\ terminal \in Results \union {"none"}
  /\ swap \in {"none", "guarded", "exposed"}
  /\ \A b \in Target : page[b] \in {"zero", "absent"}
  /\ verified \in 0..(LastChunk + 1)

-----------------------------------------------------------------------------
(* The chunks. *)

Uncached == page = [b \in Target |-> "absent"] /\ dirty = {}
ZeroUntouched == FastZero!Untouched

\* The chunks that were classified are a prefix, so that their number is the next one.
InOrder ==
  /\ FastZero!Offset \in 0..(LastChunk + 1)
  /\ FastZero!scanned = 0..(FastZero!Offset - 1)
  /\ pc \in {"read", "identity", "write"} => FastZero!Offset <= LastChunk
  /\ pc \in {"fsync", "flush", "readback", "final-identity", "success"} =>
       FastZero!Offset = LastChunk + 1
  /\ pc \in FastZero!PreCommit \union {"committed", "scan", "read", "identity", "write",
                                        "fsync", "flush"} => verified = 0

\* The exception that is handled, and where it leads.
Caused ==
  /\ cause = "none" =>
       pc \notin FastZero!Cleaning \union FastZero!Partial \union {"unknown", "refused"}
  /\ cause # "none" =>
       pc \in FastZero!Cleaning \union FastZero!Partial
               \union {"unknown", "refused", "killed", "powerloss"}
  /\ pc = "partial-cancel" => cause = "cancel"
  /\ pc = "partial-failure" => cause = "fault"

\* What is on its way to the medium, or has changed there, was counted, is in flight or
\* lies at an end that the clean-up writes.
Accounted ==
  /\ \A b \in Target : dur[b] # before[b] \/ b \in dirty =>
       \/ Chunk(b) \in written
       \/ cause # "none" /\ (Chunk(b) = FastZero!Offset \/ b \in FastZero!Ends)
  /\ pc \in FastZero!PreCommit \union {"committed", "refused", "cancelled"} => ZeroUntouched

\* Unless a cache was lost, the cache and the medium agree, and a classified sector is zero
\* or will be.
Stored ==
  swap = "none" /\ cause # "fault" /\ pc \notin {"unknown", "powerloss"} =>
    \A b \in Target :
      page[b] # "absent" \/ Chunk(b) \in FastZero!scanned =>
        b \in dirty \/ dur[b] = "zero" \/ b \in weak

\* The read-back of the medium, and that of its ends.
Verified ==
  /\ pc \in {"readback", "final-identity", "success", "cleanup-verify", "cleanup-final"}
            \union FastZero!Partial => Uncached
  /\ pc \in {"readback", "final-identity", "success"} /\ swap = "none" =>
       \A b \in Target : Chunk(b) < verified => dur[b] = "zero"
  /\ pc \in {"final-identity", "success"} => verified = LastChunk + 1
  /\ pc \in {"cleanup-final"} \union FastZero!Partial /\ swap = "none" =>
       \A b \in FastZero!Ends : dur[b] = "zero"
  /\ pc \in Results => swap = "none"

ZeroSpared ==
  /\ swap = "none" => alien = {}
  /\ swap = "guarded" => alien = {} /\ dirty = {} /\ pc \notin {"write", "cleanup-write"}

-----------------------------------------------------------------------------
(* The runner. *)

ZeroTold ==
  /\ ~committed =>
       /\ decision # "commit" /\ ZeroUntouched
       /\ pc \in FastZero!PreCommit \union {"cancelled", "refused", "killed", "powerloss"}
  /\ rpc = "handshake" => ~committed
  /\ rpc \in {"handshake", "receive", "wait"} => report = "none"
  /\ report = "cancelled" => ~committed
  /\ packet \in Results => pc = packet
  /\ terminal # "none" => pc = terminal
  /\ report \in Results => pc = report
  /\ exited # "running" => pc \notin FastZero!Running
  /\ rpc = "done" /\ committed /\ report # "lost" => pc \notin FastZero!Running

ZeroInv ==
  /\ ZeroTypeOK
  /\ InOrder /\ Caused /\ Accounted /\ Stored /\ Verified /\ ZeroSpared
  /\ ZeroTold

-----------------------------------------------------------------------------
LEMMA ZeroEnds == FastZero!Ends \subseteq Target
BY DEF FastZero!Ends, FastZero!Blocks, Target

\* The module counts with the operator of the library.
LEMMA SameCount == \A S : FastZero!Cardinality(S) = Cardinality(S)
BY DEF FastZero!Cardinality, Cardinality

LEMMA OffsetIs == FastZero!Offset = Cardinality(written \union skipped)
BY SameCount DEF FastZero!Offset, FastZero!scanned

\* Every sector lies in one of the chunks, and there is one more of them than the last number.
LEMMA ChunkOf == LastChunk \in Nat /\ \A b \in Target : Chunk(b) \in 0..LastChunk
BY ErasureAssumption DEF Target, FastZero!Blocks, LastChunk, Chunk

LEMMA SectorsAre == \A k : FastZero!SectorsOf(k) = {b \in Target : Chunk(b) = k}
BY DEF FastZero!SectorsOf, Target, Chunk

LEMMA NumberOfChunks ==
  /\ FastZero!Chunks = 0..LastChunk
  /\ Cardinality(FastZero!Chunks) = LastChunk + 1
<1>1. FastZero!Chunks = 0..LastChunk
  BY DEF FastZero!Chunks, LastChunk
<1>2. QED
  BY <1>1, ChunkOf, FS_Interval

\* The next chunk is counted.
LEMMA Counts ==
  ASSUME NEW S, NEW n \in Nat, S = 0..(n - 1)
  PROVE  /\ Cardinality(S) = n
         /\ S \union {n} = 0..n
         /\ Cardinality(S \union {n}) = n + 1
<1>1. S \union {n} = 0..n
  OBVIOUS
<1>2. Cardinality(0..(n - 1)) = n /\ Cardinality(0..n) = n + 1
  BY FS_Interval
<1>3. QED
  BY <1>1, <1>2

\* The next chunk of the disk is counted, or there is none.
LEMMA ChunkCounted ==
  ASSUME InOrder, pc \in {"read", "write"}, pc' = "scan", verified' = verified,
         (written \union skipped)' = (written \union skipped) \union {FastZero!Offset}
  PROVE  InOrder'
<1> DEFINE n == Cardinality(written \union skipped)
<1>0. FastZero!Offset = n
  BY OffsetIs
<1> HIDE DEF n
<1>1. n \in Nat /\ written \union skipped = 0..(n - 1) /\ n <= LastChunk /\ verified = 0
  BY <1>0, ChunkOf DEF InOrder, FastZero!scanned, FastZero!PreCommit
<1>2. (written \union skipped)' = (written \union skipped) \union {n}
  BY <1>0
<1>3. (written \union skipped)' = 0..n /\ Cardinality((written \union skipped)') = n + 1
  BY <1>1, <1>2, Counts
<1>4. FastZero!Offset' = n + 1 /\ FastZero!scanned' = 0..n
  BY <1>3, SameCount DEF FastZero!Offset, FastZero!scanned
<1>5. QED
  BY <1>1, <1>4, ChunkOf DEF InOrder, FastZero!PreCommit

\* All of them were classified, or there is a next one.
LEMMA ChunkChosen ==
  ASSUME InOrder, FastZero!scanned' = FastZero!scanned, verified' = verified, pc = "scan",
         pc' = IF FastZero!scanned = FastZero!Chunks THEN "fsync" ELSE "read"
  PROVE  InOrder'
<1>1. FastZero!Offset = Cardinality(FastZero!scanned) /\ FastZero!Offset' = FastZero!Offset
  BY SameCount DEF FastZero!Offset
<1>2. CASE FastZero!scanned = FastZero!Chunks
  <2>1. FastZero!Offset = LastChunk + 1
    BY <1>1, <1>2, NumberOfChunks
  <2>2. QED
    BY <1>1, <1>2, <2>1, ChunkOf DEF InOrder, FastZero!PreCommit
<1>3. CASE FastZero!scanned # FastZero!Chunks
  <2>1. FastZero!Offset # LastChunk + 1
    BY <1>3, NumberOfChunks, ChunkOf DEF InOrder
  <2>2. QED
    BY <1>1, <1>3, <2>1, ChunkOf DEF InOrder, FastZero!PreCommit
<1>4. QED
  BY <1>2, <1>3

LEMMA ZeroInitially == FastZero!Init => ZeroInv
<1> SUFFICES ASSUME FastZero!Init PROVE ZeroInv
  OBVIOUS
<1> USE ZeroEnds, ChunkOf, NumberOfChunks, SectorsAre
    DEF ZeroInv, ZeroTypeOK, InOrder, Caused, Accounted, Stored, Verified, ZeroSpared, ZeroTold,
        Uncached, ZeroUntouched, Results, Target, FastZero!Untouched,
        FastZero!DeviceTypeOK, FastZero!Content,
        FastZero!Offset, FastZero!scanned, FastZero!PreCommit, FastZero!Erasing,
        FastZero!Cleaning, FastZero!Running, FastZero!Partial, FastZero!Ended,
        FastZero!targetVars, FastZero!counters, FastZero!asked, FastZero!transactionVars,
        FastZero!runnerVars, FastZero!helperEnd, FastZero!Beside, FastZero!Alive
<1> USE DEF FastZero!Init, FastZero!TransactionInit, FastZero!DeviceInit
<1>1. FastZero!Cardinality({} \union {}) = 0
  BY FS_EmptySet, SameCount
<1>2. ZeroTypeOK
  <2>1. pc \in FastZero!Running
    OBVIOUS
  <2>2. FastZero!DeviceTypeOK
    OBVIOUS
  <2>3. cause = "none" /\ {cancelled, committed} \subseteq BOOLEAN /\ terminal = "none" /\ swap
      = "none"
    OBVIOUS
  <2>4. \A b \in Target : page[b] \in {"zero", "absent"}
    OBVIOUS
  <2>5. verified \in 0..(LastChunk + 1)
    OBVIOUS
  <2>6. QED
    BY <2>1, <2>2, <2>3, <2>4, <2>5
<1>3. Caused /\ Accounted /\ Verified
  OBVIOUS
<1>5. ZeroSpared /\ ZeroTold
  OBVIOUS
<1>6. InOrder
  BY <1>1
<1>7. Stored
  BY <1>1
<1>4. QED
  BY <1>2, <1>3, <1>5, <1>6, <1>7
\* A step of the transaction.
LEMMA ZeroHelperStep ==
  ASSUME ZeroInv, FastZero!Works, UNCHANGED <<packet, exited, FastZero!runnerVars>>
  PROVE  ZeroInv'
<1> USE ZeroEnds, ChunkOf, NumberOfChunks, SectorsAre
    DEF ZeroInv, ZeroTypeOK, InOrder, Caused, Accounted, Stored, Verified, ZeroSpared, ZeroTold,
        Uncached, ZeroUntouched, Results, Target, FastZero!Untouched,
        FastZero!DeviceTypeOK, FastZero!Content,
        FastZero!Offset, FastZero!scanned, FastZero!PreCommit, FastZero!Erasing,
        FastZero!Cleaning, FastZero!Running, FastZero!Partial, FastZero!Ended,
        FastZero!targetVars, FastZero!counters, FastZero!asked, FastZero!transactionVars,
        FastZero!runnerVars, FastZero!helperEnd, FastZero!Beside, FastZero!Alive
<1>1. CASE FastZero!RecheckAfterCommit
  BY <1>1 DEF FastZero!RecheckAfterCommit, FastZero!Look, FastZero!Step,
      FastZero!SameGeneration
<1>2. CASE FastZero!NextChunk
  <2> USE <1>2 DEF FastZero!NextChunk, FastZero!Look, FastZero!Step, FastZero!Quiet
  <2>1. ZeroTypeOK' /\ InOrder' /\ Caused'
    <3>1. ZeroTypeOK' /\ Caused'
      OBVIOUS
    <3>2. FastZero!scanned' = FastZero!scanned /\ verified' = verified
      OBVIOUS
    <3>3. pc = "scan" /\ pc' = (IF FastZero!scanned = FastZero!Chunks THEN "fsync" ELSE "read")
      OBVIOUS
    <3>4. InOrder'
      BY ONLY ZeroInv, <3>2, <3>3, ChunkChosen DEF ZeroInv
    <3>5. QED
      BY <3>1, <3>4
  <2>2. Accounted' /\ Stored' /\ Verified' /\ ZeroSpared'
    OBVIOUS
  <2>3. ZeroTold'
    OBVIOUS
  <2>4. QED
    BY <2>1, <2>2, <2>3
<1>3. CASE FastZero!SkipChunk
  <2> USE <1>3 DEF FastZero!SkipChunk, FastZero!Step, FastZero!MayRead, FastZero!Quiet
  <2>1. ZeroTypeOK' /\ Caused'
    OBVIOUS
  <2>2. InOrder'
    <3>1. (written \union skipped)' = (written \union skipped) \union {FastZero!Offset}
      OBVIOUS
    <3>2. pc = "read" /\ pc' = "scan" /\ verified' = verified
      OBVIOUS
    <3>3. QED
      BY ONLY ZeroInv, <3>1, <3>2, ChunkCounted DEF ZeroInv
  <2>3. Accounted' /\ Stored'
    OBVIOUS
  <2>4. Verified' /\ ZeroSpared' /\ ZeroTold'
    OBVIOUS
  <2>5. QED
    BY <2>1, <2>2, <2>3, <2>4
<1>4. CASE FastZero!FindData
  BY <1>4 DEF FastZero!FindData, FastZero!Look, FastZero!Step, FastZero!Quiet
<1>5. CASE FastZero!CheckIdentity
  BY <1>5 DEF FastZero!CheckIdentity, FastZero!Look, FastZero!Step, FastZero!SameGeneration
<1>6. CASE FastZero!WriteChunk
  <2> USE <1>6 DEF FastZero!WriteChunk, FastZero!Step, FastZero!Put, FastZero!Quiet
  <2>1. ZeroTypeOK' /\ Caused'
    OBVIOUS
  <2>2. InOrder'
    <3>1. (written \union skipped)' = (written \union skipped) \union {FastZero!Offset}
      OBVIOUS
    <3>2. pc = "write" /\ pc' = "scan" /\ verified' = verified
      OBVIOUS
    <3>3. QED
      BY ONLY ZeroInv, <3>1, <3>2, ChunkCounted DEF ZeroInv
  <2>3. Accounted' /\ Stored'
    OBVIOUS
  <2>4. Verified' /\ ZeroSpared' /\ ZeroTold'
    OBVIOUS
  <2>5. QED
    BY <2>1, <2>2, <2>3, <2>4
<1>7. CASE FastZero!FsyncZero
  <2> USE <1>7 DEF FastZero!FsyncZero, FastZero!Step, FastZero!Fsync, FastZero!Persist
  <2>1. ZeroTypeOK' /\ Caused'
    OBVIOUS
  <2>2. InOrder'
    OBVIOUS
  <2>3. Accounted' /\ Stored'
    OBVIOUS
  <2>4. Verified' /\ ZeroSpared' /\ ZeroTold'
    OBVIOUS
  <2>5. QED
    BY <2>1, <2>2, <2>3, <2>4
<1>8. CASE FastZero!FlushZero
  <2> USE <1>8 DEF FastZero!FlushZero, FastZero!Step, FastZero!FlushBuffers, FastZero!Persist
  <2>1. ZeroTypeOK' /\ Caused'
    OBVIOUS
  <2>2. InOrder'
    OBVIOUS
  <2>3. Accounted' /\ Stored'
    OBVIOUS
  <2>4. Verified' /\ ZeroSpared' /\ ZeroTold'
    OBVIOUS
  <2>5. QED
    BY <2>1, <2>2, <2>3, <2>4
<1>9. CASE FastZero!ReadBack
  <2> USE <1>9 DEF FastZero!ReadBack, FastZero!MayRead, FastZero!Quiet
  <2>1. ZeroTypeOK' /\ Caused'
    OBVIOUS
  <2>2. InOrder'
    OBVIOUS
  <2>3. Accounted' /\ Stored'
    OBVIOUS
  <2>4. Verified' /\ ZeroSpared' /\ ZeroTold'
    OBVIOUS
  <2>5. QED
    BY <2>1, <2>2, <2>3, <2>4
<1>10. CASE FastZero!ReadBackDone
  <2> USE <1>10 DEF FastZero!ReadBackDone, FastZero!Look, FastZero!Step, FastZero!Quiet
  <2>1. ZeroTypeOK' /\ InOrder' /\ Caused'
    OBVIOUS
  <2>2. Accounted' /\ Stored' /\ Verified' /\ ZeroSpared'
    OBVIOUS
  <2>3. ZeroTold'
    OBVIOUS
  <2>4. QED
    BY <2>1, <2>2, <2>3
<1>11. CASE FastZero!FinalIdentity
  BY <1>11 DEF FastZero!FinalIdentity, FastZero!Look, FastZero!Step, FastZero!SameGeneration
<1>12. CASE FastZero!StepFails
  <2> USE <1>12 DEF FastZero!StepFails, FastZero!Raise, FastZero!Handler,
      FastZero!BeingWritten, FastZero!Put
  <2>1. ZeroTypeOK' /\ Caused'
    OBVIOUS
  <2>2. InOrder'
    OBVIOUS
  <2>3. Accounted' /\ Stored'
    OBVIOUS
  <2>4. Verified' /\ ZeroSpared' /\ ZeroTold'
    OBVIOUS
  <2>5. QED
    BY <2>1, <2>2, <2>3, <2>4
<1>13. CASE FastZero!FsyncFails
  <2> USE <1>13 DEF FastZero!FsyncFails, FastZero!Raise, FastZero!Handler, FastZero!LoseDirty
  <2>1. ZeroTypeOK' /\ Caused'
    OBVIOUS
  <2>2. InOrder'
    OBVIOUS
  <2>3. Accounted' /\ Stored'
    OBVIOUS
  <2>4. Verified' /\ ZeroSpared' /\ ZeroTold'
    OBVIOUS
  <2>5. QED
    BY <2>1, <2>2, <2>3, <2>4
<1>14. CASE FastZero!PollRaises
  <2> USE <1>14 DEF FastZero!PollRaises, FastZero!Raise, FastZero!Handler,
      FastZero!BeingWritten, FastZero!Put
  <2>1. ZeroTypeOK' /\ Caused'
    OBVIOUS
  <2>2. InOrder'
    OBVIOUS
  <2>3. Accounted' /\ Stored'
    BY ZenonT(60)
  <2>4. Verified' /\ ZeroSpared' /\ ZeroTold'
    OBVIOUS
  <2>5. QED
    BY <2>1, <2>2, <2>3, <2>4
<1>15. CASE FastZero!CleanupIdentity
  BY <1>15 DEF FastZero!CleanupIdentity, FastZero!Look, FastZero!Step, FastZero!SameGeneration
<1>16. CASE FastZero!CleanupWrite
  <2> USE <1>16 DEF FastZero!CleanupWrite, FastZero!Step, FastZero!Put
  <2>1. ZeroTypeOK' /\ Caused'
    OBVIOUS
  <2>2. InOrder'
    OBVIOUS
  <2>3. Accounted' /\ Stored'
    OBVIOUS
  <2>4. Verified' /\ ZeroSpared' /\ ZeroTold'
    OBVIOUS
  <2>5. QED
    BY <2>1, <2>2, <2>3, <2>4
<1>17. CASE FastZero!CleanupFsync
  <2> USE <1>17 DEF FastZero!CleanupFsync, FastZero!Step, FastZero!Fsync, FastZero!Persist
  <2>1. ZeroTypeOK' /\ Caused'
    OBVIOUS
  <2>2. InOrder'
    OBVIOUS
  <2>3. Accounted' /\ Stored'
    <3>1. CASE swap = "none"
      <4>1. Accounted'
        BY <3>1, ZenonT(60)
      <4>2. Stored'
        BY <3>1
      <4>3. QED
        BY <4>1, <4>2
    <3>2. CASE swap # "none"
      BY <3>2
    <3>3. QED
      BY <3>1, <3>2
  <2>4. Verified' /\ ZeroSpared' /\ ZeroTold'
    OBVIOUS
  <2>5. QED
    BY <2>1, <2>2, <2>3, <2>4
<1>18. CASE FastZero!CleanupFlush
  <2> USE <1>18 DEF FastZero!CleanupFlush, FastZero!Step, FastZero!FlushBuffers,
      FastZero!Persist
  <2>1. ZeroTypeOK' /\ Caused'
    OBVIOUS
  <2>2. InOrder'
    OBVIOUS
  <2>3. Accounted' /\ Stored'
    <3>1. CASE swap = "none"
      <4>1. Accounted'
        BY <3>1, ZenonT(60)
      <4>2. Stored'
        BY <3>1
      <4>3. QED
        BY <4>1, <4>2
    <3>2. CASE swap # "none"
      BY <3>2
    <3>3. QED
      BY <3>1, <3>2
  <2>4. Verified' /\ ZeroSpared' /\ ZeroTold'
    OBVIOUS
  <2>5. QED
    BY <2>1, <2>2, <2>3, <2>4
<1>19. CASE FastZero!CleanupVerify
  BY <1>19 DEF FastZero!CleanupVerify, FastZero!Look, FastZero!Step, FastZero!MayRead
<1>20. CASE FastZero!CleanupFinal
  BY <1>20 DEF FastZero!CleanupFinal, FastZero!Look, FastZero!Step, FastZero!SameGeneration
<1>21. QED
  BY <1>1, <1>2, <1>3, <1>4, <1>5, <1>6, <1>7, <1>8, <1>9, <1>10, <1>11, <1>12, <1>13, <1>14,
      <1>15, <1>16, <1>17, <1>18, <1>19, <1>20 DEF FastZero!Works

\* The kernel, and the user at the slot.
LEMMA ZeroMachineStep ==
  ASSUME ZeroInv, FastZero!Machine, UNCHANGED <<FastZero!helperEnd, FastZero!runnerVars>>
  PROVE  ZeroInv'
<1> USE ZeroEnds, ChunkOf, NumberOfChunks, SectorsAre
    DEF ZeroInv, ZeroTypeOK, InOrder, Caused, Accounted, Stored, Verified, ZeroSpared, ZeroTold,
        Uncached, ZeroUntouched, Results, Target, FastZero!Untouched,
        FastZero!DeviceTypeOK, FastZero!Content,
        FastZero!Offset, FastZero!scanned, FastZero!PreCommit, FastZero!Erasing,
        FastZero!Cleaning, FastZero!Running, FastZero!Partial, FastZero!Ended,
        FastZero!targetVars, FastZero!counters, FastZero!asked, FastZero!transactionVars,
        FastZero!runnerVars, FastZero!helperEnd, FastZero!Beside, FastZero!Alive
<1>1. CASE FastZero!WriteBack
  <2> USE <1>1 DEF FastZero!WriteBack, FastZero!WriteBackSector, FastZero!Persist
  <2>1. ZeroTypeOK' /\ Caused'
    OBVIOUS
  <2>2. InOrder'
    OBVIOUS
  <2>3. Accounted' /\ Stored'
    <3>1. CASE swap = "none"
      <4>1. PICK b \in dirty :
               /\ dirty' = dirty \ {b} /\ page' = page /\ alien' = alien
               /\ \A a \in FastZero!Blocks : a # b => dur'[a] = dur[a]
               /\ b \notin weak => dur'[b] = page[b]
               /\ dur'[b] \in {dur[b], "bad", page[b]}
        BY <3>1
      <4>2. \A a \in Target : dur'[a] # before[a] \/ a \in dirty' => dur[a] # before[a] \/ a \in
          dirty
        BY <4>1
      <4>3. Accounted'
        BY <4>1, <4>2
      <4>4. Stored'
        BY <4>1, <3>1
      <4>5. QED
        BY <4>3, <4>4
    <3>2. CASE swap # "none"
      BY <3>2
    <3>3. QED
      BY <3>1, <3>2
  <2>4. Verified' /\ ZeroSpared' /\ ZeroTold'
    OBVIOUS
  <2>5. QED
    BY <2>1, <2>2, <2>3, <2>4
<1>2. CASE FastZero!PowerLoss
  <2> USE <1>2 DEF FastZero!PowerLoss, FastZero!LosePower
  <2>1. ZeroTypeOK' /\ Caused'
    OBVIOUS
  <2>2. InOrder'
    OBVIOUS
  <2>3. Accounted' /\ Stored'
    OBVIOUS
  <2>4. Verified' /\ ZeroSpared' /\ ZeroTold'
    OBVIOUS
  <2>5. QED
    BY <2>1, <2>2, <2>3, <2>4
<1>3. CASE FastZero!Kill
  <2> USE <1>3 DEF FastZero!Kill, FastZero!Look, FastZero!Step
  <2>1. ZeroTypeOK' /\ InOrder' /\ Caused'
    <3>1. ZeroTypeOK' /\ Caused'
      OBVIOUS
    <3>2. InOrder'
      OBVIOUS
    <3>3. QED
      BY <3>1, <3>2
  <2>2. Accounted' /\ Stored' /\ Verified' /\ ZeroSpared'
    OBVIOUS
  <2>3. ZeroTold'
    OBVIOUS
  <2>4. QED
    BY <2>1, <2>2, <2>3
<1>4. CASE FastZero!MediumReplaced
  <2> USE <1>4 DEF FastZero!MediumReplaced, FastZero!Guarded
  <2>1. ZeroTypeOK' /\ InOrder' /\ Caused'
    <3>1. ZeroTypeOK' /\ Caused'
      OBVIOUS
    <3>2. InOrder'
      OBVIOUS
    <3>3. QED
      BY <3>1, <3>2
  <2>2. Accounted' /\ Stored' /\ Verified' /\ ZeroSpared'
    OBVIOUS
  <2>3. ZeroTold'
    OBVIOUS
  <2>4. QED
    BY <2>1, <2>2, <2>3
<1>5. QED
  BY <1>1, <1>2, <1>3, <1>4 DEF FastZero!Machine

\* A step of the runner.
LEMMA ZeroRunnerStep ==
  ASSUME ZeroInv, FastZero!Runner
  PROVE  ZeroInv'
<1> USE ZeroEnds, ChunkOf, NumberOfChunks, SectorsAre
    DEF ZeroInv, ZeroTypeOK, InOrder, Caused, Accounted, Stored, Verified, ZeroSpared, ZeroTold,
        Uncached, ZeroUntouched, Results, Target, FastZero!Untouched,
        FastZero!DeviceTypeOK, FastZero!Content,
        FastZero!Offset, FastZero!scanned, FastZero!PreCommit, FastZero!Erasing,
        FastZero!Cleaning, FastZero!Running, FastZero!Partial, FastZero!Ended,
        FastZero!targetVars, FastZero!counters, FastZero!asked, FastZero!transactionVars,
        FastZero!runnerVars, FastZero!helperEnd, FastZero!Beside, FastZero!Alive
<1>1. CASE FastZero!CancelEarly
  <2> USE <1>1 DEF FastZero!CancelEarly, FastZero!MayCancel
  <2>1. ZeroTypeOK' /\ InOrder' /\ Caused'
    <3>1. ZeroTypeOK' /\ Caused'
      OBVIOUS
    <3>2. InOrder'
      OBVIOUS
    <3>3. QED
      BY <3>1, <3>2
  <2>2. Accounted' /\ Stored' /\ Verified' /\ ZeroSpared'
    OBVIOUS
  <2>3. ZeroTold'
    OBVIOUS
  <2>4. QED
    BY <2>1, <2>2, <2>3
<1>2. CASE FastZero!CancelLate
  <2> USE <1>2 DEF FastZero!CancelLate, FastZero!MayCancel
  <2>1. ZeroTypeOK' /\ InOrder' /\ Caused'
    <3>1. ZeroTypeOK' /\ Caused'
      OBVIOUS
    <3>2. InOrder'
      OBVIOUS
    <3>3. QED
      BY <3>1, <3>2
  <2>2. Accounted' /\ Stored' /\ Verified' /\ ZeroSpared'
    OBVIOUS
  <2>3. ZeroTold'
    OBVIOUS
  <2>4. QED
    BY <2>1, <2>2, <2>3
<1>3. CASE FastZero!CancelTooLate
  <2> USE <1>3 DEF FastZero!CancelTooLate, FastZero!MayCancel
  <2>1. ZeroTypeOK' /\ InOrder' /\ Caused'
    <3>1. ZeroTypeOK' /\ Caused'
      OBVIOUS
    <3>2. InOrder'
      OBVIOUS
    <3>3. QED
      BY <3>1, <3>2
  <2>2. Accounted' /\ Stored' /\ Verified' /\ ZeroSpared'
    OBVIOUS
  <2>3. ZeroTold'
    OBVIOUS
  <2>4. QED
    BY <2>1, <2>2, <2>3
<1>4. CASE FastZero!HandshakeFails
  <2> USE <1>4 DEF FastZero!HandshakeFails, FastZero!Raises, FastZero!Only,
      FastZero!HelperAside, FastZero!Run
  <2>1. ZeroTypeOK' /\ InOrder' /\ Caused'
    <3>1. ZeroTypeOK' /\ Caused'
      OBVIOUS
    <3>2. InOrder'
      OBVIOUS
    <3>3. QED
      BY <3>1, <3>2
  <2>2. Accounted' /\ Stored' /\ Verified' /\ ZeroSpared'
    OBVIOUS
  <2>3. ZeroTold'
    OBVIOUS
  <2>4. QED
    BY <2>1, <2>2, <2>3
<1>5. CASE FastZero!SendRequest
  <2> USE <1>5 DEF FastZero!SendRequest, FastZero!HelperAside, FastZero!Run
  <2>1. ZeroTypeOK' /\ InOrder' /\ Caused'
    <3>1. ZeroTypeOK' /\ Caused'
      OBVIOUS
    <3>2. InOrder'
      OBVIOUS
    <3>3. QED
      BY <3>1, <3>2
  <2>2. Accounted' /\ Stored' /\ Verified' /\ ZeroSpared'
    OBVIOUS
  <2>3. ZeroTold'
    OBVIOUS
  <2>4. QED
    BY <2>1, <2>2, <2>3
<1>6. CASE FastZero!ReceiveFails
  <2> USE <1>6 DEF FastZero!ReceiveFails, FastZero!Raises, FastZero!Only,
      FastZero!HelperAside, FastZero!Run
  <2>1. ZeroTypeOK' /\ InOrder' /\ Caused'
    <3>1. ZeroTypeOK' /\ Caused'
      OBVIOUS
    <3>2. InOrder'
      OBVIOUS
    <3>3. QED
      BY <3>1, <3>2
  <2>2. Accounted' /\ Stored' /\ Verified' /\ ZeroSpared'
    OBVIOUS
  <2>3. ZeroTold'
    OBVIOUS
  <2>4. QED
    BY <2>1, <2>2, <2>3
<1>7. CASE FastZero!ReceivePrepared
  <2> USE <1>7 DEF FastZero!ReceivePrepared, FastZero!Only, FastZero!HelperAside, FastZero!Run
  <2>1. ZeroTypeOK' /\ InOrder' /\ Caused'
    <3>1. ZeroTypeOK' /\ Caused'
      OBVIOUS
    <3>2. InOrder'
      OBVIOUS
    <3>3. QED
      BY <3>1, <3>2
  <2>2. Accounted' /\ Stored' /\ Verified' /\ ZeroSpared'
    OBVIOUS
  <2>3. ZeroTold'
    OBVIOUS
  <2>4. QED
    BY <2>1, <2>2, <2>3
<1>8. CASE FastZero!DecidePrepared
  <2> USE <1>8 DEF FastZero!DecidePrepared, FastZero!HelperAside, FastZero!Run
  <2>1. ZeroTypeOK' /\ InOrder' /\ Caused'
    <3>1. ZeroTypeOK' /\ Caused'
      OBVIOUS
    <3>2. InOrder'
      OBVIOUS
    <3>3. QED
      BY <3>1, <3>2
  <2>2. Accounted' /\ Stored' /\ Verified' /\ ZeroSpared'
    OBVIOUS
  <2>3. ZeroTold'
    OBVIOUS
  <2>4. QED
    BY <2>1, <2>2, <2>3
<1>9. CASE FastZero!DecisionFails
  <2> USE <1>9 DEF FastZero!DecisionFails, FastZero!Raises, FastZero!Only,
      FastZero!HelperAside, FastZero!Run
  <2>1. ZeroTypeOK' /\ InOrder' /\ Caused'
    <3>1. ZeroTypeOK' /\ Caused'
      OBVIOUS
    <3>2. InOrder'
      OBVIOUS
    <3>3. QED
      BY <3>1, <3>2
  <2>2. Accounted' /\ Stored' /\ Verified' /\ ZeroSpared'
    OBVIOUS
  <2>3. ZeroTold'
    OBVIOUS
  <2>4. QED
    BY <2>1, <2>2, <2>3
<1>10. CASE FastZero!ReceiveTerminal
  <2> USE <1>10 DEF FastZero!ReceiveTerminal, FastZero!HelperAside, FastZero!Run
  <2>1. ZeroTypeOK' /\ InOrder' /\ Caused'
    <3>1. ZeroTypeOK' /\ Caused'
      OBVIOUS
    <3>2. InOrder'
      OBVIOUS
    <3>3. QED
      BY <3>1, <3>2
  <2>2. Accounted' /\ Stored' /\ Verified' /\ ZeroSpared'
    OBVIOUS
  <2>3. ZeroTold'
    OBVIOUS
  <2>4. QED
    BY <2>1, <2>2, <2>3
<1>11. CASE FastZero!PollExited
  <2> USE <1>11 DEF FastZero!PollExited, FastZero!Only, FastZero!HelperAside, FastZero!Run
  <2>1. ZeroTypeOK' /\ InOrder' /\ Caused'
    <3>1. ZeroTypeOK' /\ Caused'
      OBVIOUS
    <3>2. InOrder'
      OBVIOUS
    <3>3. QED
      BY <3>1, <3>2
  <2>2. Accounted' /\ Stored' /\ Verified' /\ ZeroSpared'
    OBVIOUS
  <2>3. ZeroTold'
    OBVIOUS
  <2>4. QED
    BY <2>1, <2>2, <2>3
<1>12. CASE FastZero!Stall
  <2> USE <1>12 DEF FastZero!Stall, FastZero!Raises, FastZero!Only, FastZero!HelperAside,
      FastZero!Run
  <2>1. ZeroTypeOK' /\ InOrder' /\ Caused'
    <3>1. ZeroTypeOK' /\ Caused'
      OBVIOUS
    <3>2. InOrder'
      OBVIOUS
    <3>3. QED
      BY <3>1, <3>2
  <2>2. Accounted' /\ Stored' /\ Verified' /\ ZeroSpared'
    OBVIOUS
  <2>3. ZeroTold'
    OBVIOUS
  <2>4. QED
    BY <2>1, <2>2, <2>3
<1>13. CASE FastZero!WaitTimesOut
  <2> USE <1>13 DEF FastZero!WaitTimesOut, FastZero!Raises, FastZero!Only,
      FastZero!HelperAside, FastZero!Run
  <2>1. ZeroTypeOK' /\ InOrder' /\ Caused'
    <3>1. ZeroTypeOK' /\ Caused'
      OBVIOUS
    <3>2. InOrder'
      OBVIOUS
    <3>3. QED
      BY <3>1, <3>2
  <2>2. Accounted' /\ Stored' /\ Verified' /\ ZeroSpared'
    OBVIOUS
  <2>3. ZeroTold'
    OBVIOUS
  <2>4. QED
    BY <2>1, <2>2, <2>3
<1>14. CASE FastZero!Conclude
  <2> USE <1>14 DEF FastZero!Conclude, FastZero!Only, FastZero!HelperAside, FastZero!Run
  <2>1. ZeroTypeOK' /\ InOrder' /\ Caused'
    <3>1. ZeroTypeOK' /\ Caused'
      OBVIOUS
    <3>2. InOrder'
      OBVIOUS
    <3>3. QED
      BY <3>1, <3>2
  <2>2. Accounted' /\ Stored' /\ Verified' /\ ZeroSpared'
    OBVIOUS
  <2>3. ZeroTold'
    OBVIOUS
  <2>4. QED
    BY <2>1, <2>2, <2>3
<1>15. CASE FastZero!Finished
  <2> USE <1>15 DEF FastZero!Finished
  <2>1. ZeroTypeOK' /\ InOrder' /\ Caused'
    <3>1. ZeroTypeOK' /\ Caused'
      OBVIOUS
    <3>2. InOrder'
      OBVIOUS
    <3>3. QED
      BY <3>1, <3>2
  <2>2. Accounted' /\ Stored' /\ Verified' /\ ZeroSpared'
    OBVIOUS
  <2>3. ZeroTold'
    OBVIOUS
  <2>4. QED
    BY <2>1, <2>2, <2>3
<1>16. CASE FastZero!StopAndReap
  <2> USE <1>16 DEF FastZero!StopAndReap, FastZero!Run, FastZero!SafeToKill, FastZero!Closes
  <2>1. ZeroTypeOK' /\ InOrder' /\ Caused'
    <3>1. ZeroTypeOK' /\ Caused'
      OBVIOUS
    <3>2. InOrder'
      OBVIOUS
    <3>3. QED
      BY <3>1, <3>2
  <2>2. Accounted' /\ Stored' /\ Verified' /\ ZeroSpared'
    OBVIOUS
  <2>3. ZeroTold'
    OBVIOUS
  <2>4. QED
    BY <2>1, <2>2, <2>3
<1>17. CASE FastZero!Drain
  <2> USE <1>17 DEF FastZero!Drain, FastZero!Only, FastZero!HelperAside, FastZero!Run
  <2>1. ZeroTypeOK' /\ InOrder' /\ Caused'
    <3>1. ZeroTypeOK' /\ Caused'
      OBVIOUS
    <3>2. InOrder'
      OBVIOUS
    <3>3. QED
      BY <3>1, <3>2
  <2>2. Accounted' /\ Stored' /\ Verified' /\ ZeroSpared'
    BY ZenonT(60)
  <2>3. ZeroTold'
    OBVIOUS
  <2>4. QED
    BY <2>1, <2>2, <2>3
<1>18. CASE FastZero!ApplicationDies
  <2> USE <1>18 DEF FastZero!ApplicationDies, FastZero!Closes
  <2>1. ZeroTypeOK' /\ InOrder' /\ Caused'
    <3>1. ZeroTypeOK' /\ Caused'
      OBVIOUS
    <3>2. InOrder'
      OBVIOUS
    <3>3. QED
      BY <3>1, <3>2
  <2>2. Accounted' /\ Stored' /\ Verified' /\ ZeroSpared'
    OBVIOUS
  <2>3. ZeroTold'
    OBVIOUS
  <2>4. QED
    BY <2>1, <2>2, <2>3
<1>19. QED
  BY <1>1, <1>2, <1>3, <1>4, <1>5, <1>6, <1>7, <1>8, <1>9, <1>10, <1>11, <1>12, <1>13, <1>14,
      <1>15, <1>16, <1>17, <1>18 DEF FastZero!Runner

\* The helper's side of the channel.
LEMMA ZeroServeStep ==
  ASSUME ZeroInv, FastZero!Serve
  PROVE  ZeroInv'
<1> USE ZeroEnds, ChunkOf, NumberOfChunks, SectorsAre
    DEF ZeroInv, ZeroTypeOK, InOrder, Caused, Accounted, Stored, Verified, ZeroSpared, ZeroTold,
        Uncached, ZeroUntouched, Results, Target, FastZero!Untouched,
        FastZero!DeviceTypeOK, FastZero!Content,
        FastZero!Offset, FastZero!scanned, FastZero!PreCommit, FastZero!Erasing,
        FastZero!Cleaning, FastZero!Running, FastZero!Partial, FastZero!Ended,
        FastZero!targetVars, FastZero!counters, FastZero!asked, FastZero!transactionVars,
        FastZero!runnerVars, FastZero!helperEnd, FastZero!Beside, FastZero!Alive
<1>1. CASE FastZero!HelperPrepares /\ UNCHANGED FastZero!runnerVars
  <2> USE <1>1 DEF FastZero!HelperPrepares, FastZero!OpenTarget, FastZero!SameGeneration,
      FastZero!Look, FastZero!Step
  <2>1. ZeroTypeOK' /\ Caused'
    OBVIOUS
  <2>2. InOrder'
    OBVIOUS
  <2>3. Accounted' /\ Stored' /\ Verified' /\ ZeroSpared'
    OBVIOUS
  <2>4. ZeroTold'
    OBVIOUS
  <2>5. QED
    BY <2>1, <2>2, <2>3, <2>4
<1>2. CASE FastZero!HelperCommits /\ UNCHANGED FastZero!runnerVars
  <2> USE <1>2 DEF FastZero!HelperCommits, FastZero!Commit, FastZero!Step, FastZero!Hears
  <2>1. ZeroTypeOK' /\ Caused'
    OBVIOUS
  <2>2. InOrder'
    OBVIOUS
  <2>3. Accounted' /\ Stored' /\ Verified' /\ ZeroSpared'
    OBVIOUS
  <2>4. ZeroTold'
    OBVIOUS
  <2>5. QED
    BY <2>1, <2>2, <2>3, <2>4
<1>3. CASE FastZero!HelperIsCancelled /\ UNCHANGED FastZero!runnerVars
  <2> USE <1>3 DEF FastZero!HelperIsCancelled, FastZero!CancelBeforeCommit, FastZero!Hears
  <2>1. ZeroTypeOK' /\ Caused'
    OBVIOUS
  <2>2. InOrder'
    OBVIOUS
  <2>3. Accounted' /\ Stored' /\ Verified' /\ ZeroSpared'
    OBVIOUS
  <2>4. ZeroTold'
    OBVIOUS
  <2>5. QED
    BY <2>1, <2>2, <2>3, <2>4
<1>4. CASE FastZero!HelperReplies /\ UNCHANGED FastZero!runnerVars
  <2> USE <1>4 DEF FastZero!HelperReplies
  <2>1. ZeroTypeOK' /\ Caused'
    OBVIOUS
  <2>2. InOrder'
    OBVIOUS
  <2>3. Accounted' /\ Stored' /\ Verified' /\ ZeroSpared'
    OBVIOUS
  <2>4. ZeroTold'
    OBVIOUS
  <2>5. QED
    BY <2>1, <2>2, <2>3, <2>4
<1>5. CASE FastZero!HelperExits /\ UNCHANGED FastZero!runnerVars
  <2> USE <1>5 DEF FastZero!HelperExits
  <2>1. ZeroTypeOK' /\ InOrder' /\ Caused'
    <3>1. ZeroTypeOK' /\ Caused'
      OBVIOUS
    <3>2. InOrder'
      OBVIOUS
    <3>3. QED
      BY <3>1, <3>2
  <2>2. Accounted' /\ Stored' /\ Verified' /\ ZeroSpared'
    OBVIOUS
  <2>3. ZeroTold'
    OBVIOUS
  <2>4. QED
    BY <2>1, <2>2, <2>3
<1>6. CASE FastZero!HelperWorks /\ UNCHANGED FastZero!runnerVars
  BY <1>6, ZeroHelperStep DEF FastZero!HelperWorks
<1>7. QED
  BY <1>1, <1>2, <1>3, <1>4, <1>5, <1>6 DEF FastZero!Serve

LEMMA ZeroStep ==
  ASSUME ZeroInv, FastZero!Next
  PROVE  ZeroInv'
BY ZeroServeStep, ZeroRunnerStep, ZeroMachineStep DEF FastZero!Next, FastZero!Environment
-----------------------------------------------------------------------------
(* Sums over chunks. *)

\* The sets that are counted.
LEMMA UpTo ==
  ASSUME NEW n \in Int, n >= -1, NEW S \in SUBSET (0..n)
  PROVE  IsFiniteSet(S) /\ Cardinality(S) \in Nat /\ Cardinality(S) <= n + 1
<1>1. IsFiniteSet(0..n) /\ Cardinality(0..n) = n + 1
  BY FS_Interval
<1>2. IsFiniteSet(S) /\ Cardinality(S) <= Cardinality(0..n)
  BY <1>1, FS_Subset
<1>3. QED
  BY <1>1, <1>2, FS_CardinalityType

LEMMA FromTo ==
  ASSUME NEW m \in Nat, NEW n \in Nat, m <= n
  PROVE  IsFiniteSet(m..n) /\ Cardinality(m..n) = n - m + 1
BY FS_Interval

LEMMA Disjoint ==
  ASSUME NEW S, NEW T, IsFiniteSet(S), IsFiniteSet(T), S \intersect T = {}
  PROVE  Cardinality(S \union T) = Cardinality(S) + Cardinality(T)
<1>1. Cardinality(S \union T) = Cardinality(S) + Cardinality(T) - Cardinality(S \intersect T)
  BY FS_Union
<1>2. Cardinality(S \intersect T) = 0
  BY FS_EmptySet
<1>3. Cardinality(S) \in Nat /\ Cardinality(T) \in Nat
  BY FS_CardinalityType
<1>4. QED
  BY <1>1, <1>2, <1>3

\* The numbers up to n whose quotient by c lies in W, if all with these quotients do.
LEMMA FullGroups ==
  ASSUME NEW c \in Nat \ {0}, NEW n \in Nat, NEW W \in SUBSET Nat, IsFiniteSet(W),
         \A k \in W : k * c + c - 1 <= n
  PROVE  Cardinality({b \in 0..n : b \div c \in W}) = Cardinality(W) * c
<1> DEFINE U == {b \in 0..n : b \div c \in W}
           R == 0..(c - 1)
           f == [b \in U |-> <<b \div c, b % c>>]
<1>1. ASSUME NEW b \in Nat
      PROVE  b \div c \in Nat /\ b % c \in R /\ b = c * (b \div c) + (b % c)
  OBVIOUS
<1>2. f \in [U -> W \X R]
  BY <1>1
<1>3. \A a, b \in U : f[a] = f[b] => a = b
  <2>1. SUFFICES ASSUME NEW a \in U, NEW b \in U, f[a] = f[b] PROVE a = b
    OBVIOUS
  <2>2. a \div c = b \div c /\ a % c = b % c
    BY <2>1
  <2>3. a = c * (a \div c) + (a % c) /\ b = c * (b \div c) + (b % c)
    BY <1>1
  <2>4. QED
    BY <2>2, <2>3
<1>4. \A t \in W \X R : \E b \in U : f[b] = t
  <2> TAKE t \in W \X R
  <2> DEFINE q == t[1]
             r == t[2]
  <2>1. q \in W /\ r \in R /\ t = <<q, r>>
    OBVIOUS
  <2> HIDE DEF q, r
  <2>2. (q * c + r) \div c = q /\ (q * c + r) % c = r
    BY <2>1
  <2>3. q * c + r \in 0..n
    BY <2>1
  <2>4. q * c + r \in U
    BY <2>1, <2>2, <2>3
  <2>5. QED
    BY <2>1, <2>2, <2>4
<1>5. f \in Bijection(U, W \X R)
  <2> HIDE DEF f, U, R
  <2>1. QED
    BY <1>2, <1>3, <1>4, Fun_IsBij
<1>6. IsFiniteSet(U)
  <2>1. U \in SUBSET (0..n) /\ IsFiniteSet(0..n)
    BY FS_Interval
  <2> HIDE DEF U
  <2>2. QED
    BY <2>1, FS_Subset
<1>7. IsFiniteSet(R) /\ Cardinality(R) = c
  BY FS_Interval
<1>8. Cardinality(U) = Cardinality(W \X R)
  <2> HIDE DEF f, U, R
  <2>1. ExistsBijection(U, W \X R)
    BY <1>5 DEF ExistsBijection
  <2>2. QED
    BY <1>6, <2>1, FS_Bijection
<1>9. QED
  <2> HIDE DEF f, U, R
  <2>1. Cardinality(W \X R) = Cardinality(W) * c
    BY <1>7, FS_Product
  <2>2. Cardinality(U) = Cardinality(W) * c
    BY <1>8, <2>1
  <2>3. QED
    BY <2>2 DEF U

\* What the sectors of some chunks amount to.
LEMMA BytesAre ==
  ASSUME NEW W
  PROVE  FastZero!Bytes(W) = Cardinality({b \in 0..ZeroTail : b \div ChunkSize \in W})
<1>1. UNION {FastZero!SectorsOf(k) : k \in W} = {b \in 0..ZeroTail : b \div ChunkSize \in W}
  BY DEF FastZero!SectorsOf, FastZero!Blocks
<1>2. QED
  BY <1>1, SameCount DEF FastZero!Bytes

\* The disk ends in its last chunk, and fills it if the size is a multiple.
LEMMA SizeOfDisk ==
  /\ ZeroTail \in Nat /\ ChunkSize \in Nat \ {0} /\ LastChunk \in Nat
  /\ LastChunk * ChunkSize <= ZeroTail /\ ZeroTail < LastChunk * ChunkSize + ChunkSize
  /\ (ZeroTail + 1) % ChunkSize = 0 => LastChunk * ChunkSize + ChunkSize = ZeroTail + 1
  /\ (ZeroTail + 1) % ChunkSize # 0 =>
       /\ (ZeroTail + 1) \div ChunkSize = LastChunk
       /\ LastChunk * ChunkSize + ((ZeroTail + 1) % ChunkSize) = ZeroTail + 1
<1>1. ZeroTail \in Nat /\ ChunkSize \in Nat \ {0}
  BY ErasureAssumption
<1>2. LastChunk \in Nat /\ LastChunk * ChunkSize <= ZeroTail
      /\ ZeroTail < LastChunk * ChunkSize + ChunkSize
  BY <1>1 DEF LastChunk
<1> DEFINE q == (ZeroTail + 1) \div ChunkSize
           r == (ZeroTail + 1) % ChunkSize
<1>3. q \in Nat /\ r \in 0..(ChunkSize - 1) /\ ZeroTail + 1 = ChunkSize * q + r
  BY <1>1
<1> HIDE DEF q, r
<1>4. r = 0 => q = LastChunk + 1
  BY <1>1, <1>2, <1>3
<1>5. r # 0 => q = LastChunk
  BY <1>1, <1>2, <1>3
<1>6. QED
  BY <1>1, <1>2, <1>3, <1>4, <1>5 DEF q, r

\* Chunks that are all of the full size.
LEMMA WholeChunks ==
  ASSUME NEW W \in SUBSET (0..LastChunk),
         LastChunk \notin W \/ (ZeroTail + 1) % ChunkSize = 0
  PROVE  FastZero!Bytes(W) = Cardinality(W) * ChunkSize
<1>1. ASSUME NEW k \in W PROVE k * ChunkSize + ChunkSize - 1 <= ZeroTail
  <2>1. CASE k = LastChunk
    BY <2>1, SizeOfDisk
  <2>2. CASE k # LastChunk
    <3>1. k \in Nat /\ k + 1 <= LastChunk
      BY <2>2, SizeOfDisk
    <3>2. (k + 1) * ChunkSize <= LastChunk * ChunkSize
      BY <3>1, SizeOfDisk
    <3>3. QED
      BY <3>1, <3>2, SizeOfDisk
  <2>3. QED
    BY <2>1, <2>2
<1>2. IsFiniteSet(W) /\ W \in SUBSET Nat
  BY UpTo, SizeOfDisk
<1>3. QED
  BY <1>1, <1>2, FullGroups, SizeOfDisk, BytesAre

\* Chunks of which the last one is shorter.
LEMMA WithTheLastChunk ==
  ASSUME NEW W \in SUBSET (0..LastChunk),
         LastChunk \in W, (ZeroTail + 1) % ChunkSize # 0
  PROVE  /\ Cardinality(W) \in 1..(LastChunk + 1)
         /\ FastZero!Bytes(W)
              = (Cardinality(W) - 1) * ChunkSize + ((ZeroTail + 1) % ChunkSize)
<1> DEFINE V == W \ {LastChunk}
           A == {b \in 0..ZeroTail : b \div ChunkSize \in V}
           B == LastChunk * ChunkSize .. ZeroTail
<1>1. IsFiniteSet(W) /\ Cardinality(W) \in Nat /\ Cardinality(W) <= LastChunk + 1
  BY UpTo, SizeOfDisk
<1>2. Cardinality(V) = Cardinality(W) - 1 /\ Cardinality(V) \in Nat
  BY <1>1, FS_RemoveElement, FS_CardinalityType
<1>3. FastZero!Bytes(V) = Cardinality(V) * ChunkSize
  BY WholeChunks
<1>4. \A b \in 0..ZeroTail : b \div ChunkSize = LastChunk <=> LastChunk * ChunkSize <= b
  BY SizeOfDisk
<1>5. {b \in 0..ZeroTail : b \div ChunkSize \in W} = A \union B /\ A \intersect B = {}
  BY <1>4, SizeOfDisk
<1>6. IsFiniteSet(A) /\ Cardinality(A) = Cardinality(V) * ChunkSize
  <2>1. A \in SUBSET (0..ZeroTail)
    OBVIOUS
  <2>2. Cardinality(A) = Cardinality(V) * ChunkSize
    BY <1>3, BytesAre
  <2> HIDE DEF A
  <2>3. QED
    BY <2>1, <2>2, UpTo, SizeOfDisk
<1>7. IsFiniteSet(B) /\ Cardinality(B) = (ZeroTail + 1) % ChunkSize
  <2>1. LastChunk * ChunkSize \in Nat /\ LastChunk * ChunkSize <= ZeroTail
    BY SizeOfDisk
  <2>2. IsFiniteSet(B) /\ Cardinality(B) = ZeroTail - LastChunk * ChunkSize + 1
    BY <2>1, FromTo, SizeOfDisk
  <2>3. QED
    BY <2>2, SizeOfDisk
<1> HIDE DEF A, B, V
<1>8. Cardinality(A \union B) = Cardinality(A) + Cardinality(B)
  BY <1>5, <1>6, <1>7, Disjoint
<1>9. QED
  BY <1>1, <1>2, <1>5, <1>6, <1>7, <1>8, BytesAre

\* The chunks up to the n-th, and their number again.
LEMMA PrefixOfChunks ==
  ASSUME NEW n \in 0..(LastChunk + 1)
  PROVE  /\ FastZero!Bytes(0..(n - 1)) = IF n <= LastChunk THEN n * ChunkSize ELSE ZeroTail + 1
         /\ n = (FastZero!Bytes(0..(n - 1)) + ChunkSize - 1) \div ChunkSize
<1>1. CASE n <= LastChunk
  <2>1. 0..(n - 1) \in SUBSET (0..LastChunk) /\ LastChunk \notin 0..(n - 1) /\ n \in Nat
    BY <1>1, SizeOfDisk
  <2>2. Cardinality(0..(n - 1)) = n
    BY <2>1, FS_Interval
  <2>3. FastZero!Bytes(0..(n - 1)) = n * ChunkSize
    BY <2>1, <2>2, WholeChunks
  <2>4. (n * ChunkSize + (ChunkSize - 1)) \div ChunkSize = n
    BY <2>1, SizeOfDisk
  <2>5. QED
    BY <1>1, <2>1, <2>3, <2>4, SizeOfDisk
<1>2. CASE n = LastChunk + 1
  <2>1. {b \in 0..ZeroTail : b \div ChunkSize \in 0..LastChunk} = 0..ZeroTail
    BY SizeOfDisk DEF LastChunk
  <2>2. n - 1 = LastChunk
    BY <1>2, SizeOfDisk
  <2>3. FastZero!Bytes(0..(n - 1)) = ZeroTail + 1
    <3>1. Cardinality(0..ZeroTail) = ZeroTail + 1
      BY FromTo, SizeOfDisk
    <3>2. QED
      BY <2>1, <2>2, <3>1, BytesAre
  <2>4. (ZeroTail + 1 + ChunkSize - 1) \div ChunkSize = LastChunk + 1
    BY SizeOfDisk
  <2>5. ~(n <= LastChunk)
    BY <1>2, SizeOfDisk
  <2>6. ZeroTail + 1 + ChunkSize - 1 = FastZero!Bytes(0..(n - 1)) + ChunkSize - 1
    BY <2>3
  <2>7. QED
    BY ONLY <1>2, <2>3, <2>4, <2>5, <2>6
<1>3. QED
  BY <1>1, <1>2, SizeOfDisk

\* What the runner demands of either class of chunks holds of any set of classified chunks.
LEMMA Classified ==
  ASSUME NEW n \in 0..(LastChunk + 1), NEW W \in SUBSET (0..(n - 1))
  PROVE  FastZero!ValidClassified(FastZero!Bytes(W), FastZero!Cardinality(W),
                                  FastZero!Bytes(0..(n - 1)))
<1>1. W \in SUBSET (0..LastChunk) /\ n \in Nat
  BY SizeOfDisk
<1>2. IsFiniteSet(W) /\ Cardinality(W) \in Nat /\ Cardinality(W) <= n
  <2>1. n - 1 \in Int /\ n - 1 >= -1 /\ (n - 1) + 1 = n
    BY <1>1
  <2>2. QED
    BY <2>1, UpTo
<1>3. CASE n <= LastChunk
  <2>1. (n * ChunkSize) % ChunkSize = 0
    <3>1. (n * ChunkSize + 0) % ChunkSize = 0
      BY <1>1, SizeOfDisk
    <3>2. QED
      BY <1>1, <3>1, SizeOfDisk
  <2>2. FastZero!Bytes(W) = Cardinality(W) * ChunkSize
    BY <1>1, <1>3, WholeChunks, SizeOfDisk
  <2>3. FastZero!Bytes(0..(n - 1)) = n * ChunkSize
    BY <1>3, PrefixOfChunks
  <2>4. QED
    BY <2>1, <2>2, <2>3, SameCount DEF FastZero!ValidClassified
<1>4. CASE n = LastChunk + 1
  <2>1. FastZero!Bytes(0..(n - 1)) = ZeroTail + 1
    <3>1. ~(n <= LastChunk)
      BY <1>4, SizeOfDisk
    <3>2. QED
      BY <3>1, PrefixOfChunks
  <2>2. CASE (ZeroTail + 1) % ChunkSize = 0
    <3>1. FastZero!Bytes(W) = Cardinality(W) * ChunkSize
      BY <1>1, <2>2, WholeChunks
    <3>2. QED
      BY <2>1, <2>2, <3>1, SameCount DEF FastZero!ValidClassified
  <2>3. CASE (ZeroTail + 1) % ChunkSize # 0 /\ LastChunk \notin W
    <3>1. FastZero!Bytes(W) = Cardinality(W) * ChunkSize
      BY <1>1, <2>3, WholeChunks
    <3>2. W \in SUBSET (0..(LastChunk - 1))
      BY <1>1, <2>3, SizeOfDisk
    <3>3. Cardinality(W) <= LastChunk
      BY <3>2, UpTo, SizeOfDisk
    <3>4. (ZeroTail + 1) \div ChunkSize = LastChunk
      BY <2>3, SizeOfDisk
    <3>5. QED
      BY <2>1, <2>3, <3>1, <3>3, <3>4, SameCount DEF FastZero!ValidClassified
  <2>4. CASE (ZeroTail + 1) % ChunkSize # 0 /\ LastChunk \in W
    <3>1. /\ Cardinality(W) \in 1..(LastChunk + 1)
          /\ FastZero!Bytes(W)
               = (Cardinality(W) - 1) * ChunkSize + ((ZeroTail + 1) % ChunkSize)
      BY <1>1, <2>4, WithTheLastChunk
    <3>2. (ZeroTail + 1) \div ChunkSize = LastChunk
      BY <2>4, SizeOfDisk
    <3>3. Cardinality(W) >= 1 /\ Cardinality(W) - 1 <= LastChunk
      BY <3>1, SizeOfDisk
    <3>4. QED
      BY ONLY <2>1, <2>4, <3>1, <3>2, <3>3, SameCount DEF FastZero!ValidClassified
  <2>5. QED
    BY <2>2, <2>3, <2>4
<1>5. QED
  BY <1>3, <1>4, SizeOfDisk

LEMMA BytesAdd ==
  ASSUME NEW V, NEW W, V \intersect W = {}
  PROVE  FastZero!Bytes(V \union W) = FastZero!Bytes(V) + FastZero!Bytes(W)
<1> DEFINE U(S) == {b \in 0..ZeroTail : b \div ChunkSize \in S}
<1>1. ASSUME NEW S PROVE IsFiniteSet(U(S)) /\ Cardinality(U(S)) \in Nat
  <2>1. U(S) \in SUBSET (0..ZeroTail) /\ IsFiniteSet(0..ZeroTail)
    BY FS_Interval, SizeOfDisk
  <2> HIDE DEF U
  <2>2. QED
    BY <2>1, FS_Subset, FS_CardinalityType
<1>2. U(V \union W) = U(V) \union U(W) /\ U(V) \intersect U(W) = {}
  OBVIOUS
<1> HIDE DEF U
<1>4. Cardinality(U(V) \union U(W)) = Cardinality(U(V)) + Cardinality(U(W))
  BY <1>1, <1>2, Disjoint
<1>5. QED
  BY <1>2, <1>4, BytesAre DEF U

-----------------------------------------------------------------------------
(* The counters that the runner compares: while the channel is connected, what was told *)
(* last is what the transaction has counted.                                            *)

Cleaned == {"cleanup-final"} \union FastZero!Partial

Tallied ==
  /\ told \in [mutation : BOOLEAN, scanning : Nat, readback : Nat, cleanup : BOOLEAN]
  /\ connected \in BOOLEAN
  /\ written \intersect skipped = {}
  /\ connected => told.scanning = FastZero!Offset /\ told.readback = verified
  /\ connected /\ pc \in FastZero!Erasing \union FastZero!Cleaning \union Results => told.mutation
  /\ connected /\ pc \in Cleaned => told.cleanup
  /\ told.cleanup => pc \in Cleaned \union {"unknown", "killed", "powerloss"}
  /\ report = "mismatch" => ~connected

LEMMA TalliedInitially ==
  ASSUME ZeroInv, FastZero!Init
  PROVE  Tallied
<1>1. FastZero!Offset = 0
  BY FS_EmptySet, SameCount
     DEF FastZero!Init, FastZero!TransactionInit, FastZero!Offset, FastZero!scanned
<1>2. told = FastZero!Nothing /\ connected = TRUE /\ written = {} /\ verified = 0
      /\ pc = "open" /\ report = "none"
  BY DEF FastZero!Init, FastZero!TransactionInit
<1>3. QED
  BY <1>1, <1>2
     DEF Tallied, FastZero!Nothing, Cleaned, Results, FastZero!Partial, FastZero!Erasing,
         FastZero!Cleaning

\* What the steps of the transaction do to its counters and its progress.
LEMMA WorkMoves ==
  ASSUME ZeroInv, FastZero!Works, written \intersect skipped = {}
  PROVE  /\ (written \intersect skipped)' = {}
         /\ pc \in FastZero!Running
         /\ pc' \in FastZero!Erasing \union FastZero!Cleaning \union Results =>
              pc \in FastZero!Erasing \union FastZero!Cleaning
         /\ pc' \in Cleaned => pc' = "cleanup-final" \/ pc = "cleanup-final"
         /\ pc = "cleanup-final" => pc' \in FastZero!Partial \union {"unknown"}
<1>1. FastZero!Offset \notin written \union skipped
  BY ChunkOf DEF ZeroInv, InOrder, FastZero!scanned
<1> USE DEF FastZero!counters, FastZero!PreCommit, FastZero!Erasing, FastZero!Cleaning,
        FastZero!Running, FastZero!Partial, Results, Cleaned
<1>2. CASE FastZero!RecheckAfterCommit
  BY <1>1, <1>2 DEF FastZero!RecheckAfterCommit, FastZero!Look, FastZero!Step, FastZero!Beside
<1>3. CASE FastZero!NextChunk
  BY <1>1, <1>3 DEF FastZero!NextChunk, FastZero!Look, FastZero!Step, FastZero!Beside,
      FastZero!Quiet
<1>4. CASE FastZero!SkipChunk
  BY <1>1, <1>4 DEF FastZero!SkipChunk, FastZero!Step, FastZero!Quiet
<1>5. CASE FastZero!FindData
  BY <1>1, <1>5 DEF FastZero!FindData, FastZero!Look, FastZero!Step, FastZero!Beside
<1>6. CASE FastZero!CheckIdentity
  BY <1>1, <1>6 DEF FastZero!CheckIdentity, FastZero!Look, FastZero!Step, FastZero!Beside
<1>7. CASE FastZero!WriteChunk
  BY <1>1, <1>7 DEF FastZero!WriteChunk, FastZero!Step, FastZero!Put
<1>8. CASE FastZero!FsyncZero
  BY <1>1, <1>8 DEF FastZero!FsyncZero, FastZero!Step, FastZero!Beside
<1>9. CASE FastZero!FlushZero
  BY <1>1, <1>9 DEF FastZero!FlushZero, FastZero!Step, FastZero!Beside
<1>10. CASE FastZero!ReadBack
  BY <1>1, <1>10 DEF FastZero!ReadBack
<1>11. CASE FastZero!ReadBackDone
  BY <1>1, <1>11 DEF FastZero!ReadBackDone, FastZero!Look, FastZero!Step, FastZero!Beside
<1>12. CASE FastZero!FinalIdentity
  BY <1>1, <1>12 DEF FastZero!FinalIdentity, FastZero!Look, FastZero!Step, FastZero!Beside
<1>13. CASE FastZero!StepFails
  BY <1>1, <1>13 DEF FastZero!StepFails, FastZero!Raise, FastZero!Handler
<1>14. CASE FastZero!FsyncFails
  BY <1>1, <1>14 DEF FastZero!FsyncFails, FastZero!Raise, FastZero!Handler
<1>15. CASE FastZero!PollRaises
  BY <1>1, <1>15 DEF FastZero!PollRaises, FastZero!Raise, FastZero!Handler
<1>16. CASE FastZero!CleanupIdentity
  BY <1>1, <1>16 DEF FastZero!CleanupIdentity, FastZero!Look, FastZero!Step, FastZero!Beside
<1>17. CASE FastZero!CleanupWrite
  BY <1>1, <1>17 DEF FastZero!CleanupWrite, FastZero!Step, FastZero!Beside
<1>18. CASE FastZero!CleanupFsync
  BY <1>1, <1>18 DEF FastZero!CleanupFsync, FastZero!Step, FastZero!Beside
<1>19. CASE FastZero!CleanupFlush
  BY <1>1, <1>19 DEF FastZero!CleanupFlush, FastZero!Step, FastZero!Beside
<1>20. CASE FastZero!CleanupVerify
  BY <1>1, <1>20 DEF FastZero!CleanupVerify, FastZero!Look, FastZero!Step, FastZero!Beside
<1>21. CASE FastZero!CleanupFinal
  BY <1>1, <1>21 DEF FastZero!CleanupFinal, FastZero!Look, FastZero!Step, FastZero!Beside
<1>22. QED
  BY <1>2, <1>3, <1>4, <1>5, <1>6, <1>7, <1>8, <1>9, <1>10, <1>11, <1>12, <1>13, <1>14, <1>15,
      <1>16, <1>17, <1>18, <1>19, <1>20, <1>21 DEF FastZero!Works

\* A result with the progress that was told satisfies the runner.
LEMMA AccountingHolds ==
  ASSUME ZeroInv, Tallied, connected, pc \in Results, terminal = pc
  PROVE  FastZero!Decodes(terminal) /\ FastZero!AccountingValid
<1> DEFINE n == FastZero!Offset
<1>1. n \in 0..(LastChunk + 1) /\ written \union skipped = 0..(n - 1)
  BY DEF ZeroInv, InOrder, FastZero!scanned
<1>2. written \in SUBSET (0..(n - 1)) /\ skipped \in SUBSET (0..(n - 1))
      /\ written \intersect skipped = {}
  BY <1>1 DEF Tallied
<1>3. n = Cardinality(written \union skipped)
  BY OffsetIs
<1> HIDE DEF n
<1>4. Cardinality(written \union skipped) = Cardinality(written) + Cardinality(skipped)
  <2>1. n - 1 \in Int /\ n - 1 >= -1
    BY <1>1, ChunkOf
  <2>2. IsFiniteSet(written) /\ IsFiniteSet(skipped)
    BY <1>2, <2>1, UpTo
  <2>3. QED
    BY <1>2, <2>2, Disjoint
<1>5. pc = "success" => n = LastChunk + 1 /\ verified = LastChunk + 1 /\ cause = "none"
  BY DEF ZeroInv, InOrder, Verified, Caused, n, FastZero!Partial, FastZero!Cleaning
<1>6. pc \in FastZero!Partial => cause # "none" /\ (pc = "partial-cancel" <=> cause = "cancel")
  BY DEF ZeroInv, Caused, FastZero!Partial
<1>7. pc \in FastZero!Partial \/ pc = "success"
  BY DEF Results
<1>8. pc = "success" => FastZero!scanned = FastZero!Chunks
                        /\ verified = FastZero!Cardinality(FastZero!Chunks)
  BY <1>1, <1>5, ChunkOf, NumberOfChunks, SameCount DEF FastZero!scanned
<1>9. FastZero!Decodes(terminal)
  BY <1>3, <1>4, <1>5, <1>6, <1>7, <1>8, SameCount
     DEF FastZero!Decodes, FastZero!scanned, FastZero!Partial
<1>10. told.mutation /\ told.scanning = FastZero!Offset /\ told.readback = verified
       /\ (pc = "success" => ~told.cleanup) /\ (pc \in FastZero!Partial => told.cleanup)
  BY <1>7 DEF Tallied, Results, Cleaned, FastZero!Partial
<1>11. FastZero!Bytes(FastZero!scanned) = FastZero!Bytes(written) + FastZero!Bytes(skipped)
  BY <1>2, BytesAdd DEF FastZero!scanned
<1>12. FastZero!Offset
         = (FastZero!Bytes(FastZero!scanned) + ChunkSize - 1) \div ChunkSize
  BY <1>1, PrefixOfChunks DEF FastZero!scanned, n
<1>13. /\ FastZero!ValidClassified(FastZero!Bytes(written), FastZero!Cardinality(written),
                                   FastZero!Bytes(FastZero!scanned))
       /\ FastZero!ValidClassified(FastZero!Bytes(skipped), FastZero!Cardinality(skipped),
                                   FastZero!Bytes(FastZero!scanned))
  BY <1>1, <1>2, Classified DEF FastZero!scanned
<1>14. QED
  BY <1>7, <1>8, <1>9, <1>10, <1>11, <1>12, <1>13
     DEF FastZero!AccountingValid, FastZero!Partial

\* A step that counts nothing and tells nothing.
LEMMA StillTallied ==
  ASSUME Tallied, UNCHANGED <<written, skipped, verified, told, connected>>,
         report' = "mismatch" => report = "mismatch",
         \/ pc' = pc
         \/ pc' \in {"killed", "powerloss"}
         \/ pc \in FastZero!PreCommit /\ pc' \in {"prepared", "cancelled"}
  PROVE  Tallied'
<1>1. FastZero!Offset' = FastZero!Offset
  BY DEF FastZero!Offset, FastZero!scanned
<1>2. CASE pc' = pc
  BY <1>1, <1>2 DEF Tallied
<1>3. CASE pc' \in {"killed", "powerloss"}
  BY <1>1, <1>3
     DEF Tallied, FastZero!Erasing, FastZero!Cleaning, Results, Cleaned, FastZero!Partial
<1>4. CASE pc \in FastZero!PreCommit /\ pc' \in {"prepared", "cancelled"}
  BY <1>1, <1>4
     DEF Tallied, FastZero!Erasing, FastZero!Cleaning, Results, Cleaned, FastZero!Partial,
         FastZero!PreCommit
<1>5. QED
  BY <1>2, <1>3, <1>4

\* What the runner may change, except for the conclusion.
LEMMA RunnerMoves ==
  ASSUME FastZero!Runner, ~FastZero!Conclude
  PROVE  /\ UNCHANGED <<written, skipped, verified, told, connected>>
         /\ report' = "mismatch" => report = "mismatch"
         /\ pc' = pc \/ pc' = "killed"
<1> USE DEF FastZero!counters, FastZero!targetVars, FastZero!transactionVars,
        FastZero!helperEnd, FastZero!asked, FastZero!HelperAside, FastZero!Only, FastZero!Run,
        FastZero!Raises, FastZero!MayCancel
<1>1. CASE FastZero!CancelEarly
  BY <1>1 DEF FastZero!CancelEarly
<1>2. CASE FastZero!CancelLate
  BY <1>2 DEF FastZero!CancelLate
<1>3. CASE FastZero!CancelTooLate
  BY <1>3 DEF FastZero!CancelTooLate
<1>4. CASE FastZero!HandshakeFails
  BY <1>4 DEF FastZero!HandshakeFails
<1>5. CASE FastZero!SendRequest
  BY <1>5 DEF FastZero!SendRequest
<1>6. CASE FastZero!ReceiveFails
  BY <1>6 DEF FastZero!ReceiveFails
<1>7. CASE FastZero!ReceivePrepared
  BY <1>7 DEF FastZero!ReceivePrepared
<1>8. CASE FastZero!DecidePrepared
  BY <1>8 DEF FastZero!DecidePrepared
<1>9. CASE FastZero!DecisionFails
  BY <1>9 DEF FastZero!DecisionFails
<1>10. CASE FastZero!ReceiveTerminal
  BY <1>10 DEF FastZero!ReceiveTerminal
<1>11. CASE FastZero!PollExited
  BY <1>11 DEF FastZero!PollExited
<1>12. CASE FastZero!Stall
  BY <1>12 DEF FastZero!Stall
<1>13. CASE FastZero!WaitTimesOut
  BY <1>13 DEF FastZero!WaitTimesOut
<1>14. CASE FastZero!Finished
  BY <1>14 DEF FastZero!Finished
<1>15. CASE FastZero!StopAndReap
  BY <1>15 DEF FastZero!StopAndReap
<1>16. CASE FastZero!Drain
  BY <1>16 DEF FastZero!Drain
<1>17. CASE FastZero!ApplicationDies
  BY <1>17 DEF FastZero!ApplicationDies
<1>18. QED
  BY <1>1, <1>2, <1>3, <1>4, <1>5, <1>6, <1>7, <1>8, <1>9, <1>10, <1>11, <1>12, <1>13, <1>14,
      <1>15, <1>16, <1>17 DEF FastZero!Runner

LEMMA TalliedStep ==
  ASSUME ZeroInv, Tallied, FastZero!Next
  PROVE  Tallied'
<1>1. CASE FastZero!HelperWorks /\ UNCHANGED FastZero!runnerVars
  <2>1. FastZero!Works /\ written \intersect skipped = {} /\ report' = report
    BY <1>1 DEF FastZero!HelperWorks, FastZero!runnerVars, Tallied
  <2>2. /\ (written \intersect skipped)' = {}
        /\ pc \in FastZero!Running
        /\ pc' \in FastZero!Erasing \union FastZero!Cleaning \union Results =>
             pc \in FastZero!Erasing \union FastZero!Cleaning
        /\ pc' \in Cleaned => pc' = "cleanup-final" \/ pc = "cleanup-final"
        /\ pc = "cleanup-final" => pc' \in FastZero!Partial \union {"unknown"}
    BY <2>1, WorkMoves
  <2>3. FastZero!Offset' \in Nat /\ verified' \in Nat
    BY ZeroStep, ChunkOf DEF ZeroInv, ZeroTypeOK, InOrder
  <2>4. \/ connected /\ connected' = connected
           /\ told' = [told EXCEPT !.scanning = FastZero!Offset', !.readback = verified',
                                   !.cleanup = @ \/ pc' = "cleanup-final"]
        \/ connected' = FALSE /\ told' = FastZero!Nothing
        \/ ~connected /\ connected' = connected /\ told' = told
    BY <1>1 DEF FastZero!HelperWorks, FastZero!Tell, FastZero!Offset, FastZero!scanned
  <2>5. told.cleanup => pc = "cleanup-final"
    BY <2>2 DEF Tallied, FastZero!Running, FastZero!PreCommit, FastZero!Erasing,
                FastZero!Cleaning, Cleaned, FastZero!Partial
  <2>6. CASE connected /\ connected' = connected
             /\ told' = [told EXCEPT !.scanning = FastZero!Offset', !.readback = verified',
                                     !.cleanup = @ \/ pc' = "cleanup-final"]
    <3>1. /\ told' \in [mutation : BOOLEAN, scanning : Nat, readback : Nat, cleanup : BOOLEAN]
          /\ told'.scanning = FastZero!Offset' /\ told'.readback = verified'
          /\ told'.mutation = told.mutation
          /\ told'.cleanup = (told.cleanup \/ pc' = "cleanup-final")
      BY <2>3, <2>6 DEF Tallied
    <3>2. QED
      BY <2>1, <2>2, <2>5, <2>6, <3>1 DEF Tallied, Cleaned
  <2>7. CASE connected' = FALSE /\ told' = FastZero!Nothing
    BY <2>1, <2>2, <2>7 DEF Tallied, FastZero!Nothing
  <2>8. CASE ~connected /\ connected' = connected /\ told' = told
    BY <2>1, <2>2, <2>5, <2>8 DEF Tallied, Cleaned
  <2>9. QED
    BY <2>4, <2>6, <2>7, <2>8
<1>2. CASE FastZero!HelperCommits /\ UNCHANGED FastZero!runnerVars
  <2>1. /\ pc = "prepared" /\ pc' = "committed" /\ report' = report
        /\ UNCHANGED <<written, skipped, verified>>
    BY <1>2 DEF FastZero!HelperCommits, FastZero!Commit, FastZero!Step, FastZero!Hears,
                FastZero!counters, FastZero!runnerVars
  <2>2. FastZero!Offset' = FastZero!Offset
    BY <2>1 DEF FastZero!Offset, FastZero!scanned
  <2>3. ~told.cleanup
    BY <2>1 DEF Tallied, Cleaned, FastZero!Partial
  <2>4. \/ connected /\ connected' = connected /\ told' = [told EXCEPT !.mutation = TRUE]
        \/ connected' = FALSE /\ told' = FastZero!Nothing
        \/ ~connected /\ connected' = connected /\ told' = told
    BY <1>2 DEF FastZero!HelperCommits, FastZero!Tell
  <2>5. CASE connected /\ connected' = connected /\ told' = [told EXCEPT !.mutation = TRUE]
    <3>1. /\ told' \in [mutation : BOOLEAN, scanning : Nat, readback : Nat, cleanup : BOOLEAN]
          /\ told'.scanning = told.scanning /\ told'.readback = told.readback
          /\ told'.mutation = TRUE /\ told'.cleanup = told.cleanup
      BY <2>5 DEF Tallied
    <3>2. QED
      BY <2>1, <2>2, <2>3, <2>5, <3>1 DEF Tallied, Cleaned, FastZero!Partial
  <2>6. CASE connected' = FALSE /\ told' = FastZero!Nothing
    BY <2>1, <2>6 DEF Tallied, FastZero!Nothing
  <2>7. CASE ~connected /\ connected' = connected /\ told' = told
    BY <2>1, <2>3, <2>7 DEF Tallied, Cleaned, FastZero!Partial
  <2>8. QED
    BY <2>4, <2>5, <2>6, <2>7
<1>3. CASE FastZero!Conclude
  <2>1. UNCHANGED <<pc, written, skipped, verified, told, connected>>
    BY <1>3 DEF FastZero!Conclude, FastZero!Only, FastZero!HelperAside,
                FastZero!transactionVars, FastZero!counters
  <2>2. FastZero!Offset' = FastZero!Offset
    BY <2>1 DEF FastZero!Offset, FastZero!scanned
  <2>3. connected /\ terminal # "none" =>
          FastZero!Decodes(terminal) /\ FastZero!AccountingValid
    BY AccountingHolds DEF ZeroInv, ZeroTypeOK, ZeroTold
  <2>4. report' = "mismatch" => ~connected
    BY <1>3, <2>3 DEF FastZero!Conclude, ZeroInv, ZeroTypeOK, Results, FastZero!Partial
  <2>5. QED
    BY <2>1, <2>2, <2>4 DEF Tallied
<1>4. CASE (\/ FastZero!HelperPrepares \/ FastZero!HelperIsCancelled \/ FastZero!HelperReplies
            \/ FastZero!HelperExits) /\ UNCHANGED FastZero!runnerVars
  <2>1. UNCHANGED <<written, skipped, verified, told, connected, report>>
    BY <1>4
       DEF FastZero!HelperPrepares, FastZero!OpenTarget, FastZero!Look, FastZero!Beside,
           FastZero!HelperIsCancelled, FastZero!CancelBeforeCommit, FastZero!Hears,
           FastZero!HelperReplies, FastZero!HelperExits, FastZero!helperEnd,
           FastZero!counters, FastZero!transactionVars, FastZero!runnerVars
  <2>2. pc' = pc \/ (pc \in FastZero!PreCommit /\ pc' \in {"prepared", "cancelled"})
    <3>1. CASE FastZero!HelperPrepares
      BY <3>1 DEF FastZero!HelperPrepares, FastZero!OpenTarget, FastZero!Look,
                  FastZero!Step, FastZero!PreCommit
    <3>2. CASE FastZero!HelperIsCancelled
      BY <3>2 DEF FastZero!HelperIsCancelled, FastZero!CancelBeforeCommit
    <3>3. CASE FastZero!HelperReplies \/ FastZero!HelperExits
      BY <3>3 DEF FastZero!HelperReplies, FastZero!HelperExits, FastZero!transactionVars
    <3>4. QED
      BY <1>4, <3>1, <3>2, <3>3
  <2>3. QED
    BY <2>1, <2>2, StillTallied
<1>5. CASE FastZero!Runner /\ ~FastZero!Conclude
  BY <1>5, RunnerMoves, StillTallied
<1>6. CASE FastZero!Environment
  <2>1. UNCHANGED <<written, skipped, verified, told, connected, report>>
        /\ (pc' = pc \/ pc' \in {"killed", "powerloss"})
    BY <1>6
       DEF FastZero!Environment, FastZero!Machine, FastZero!WriteBack, FastZero!PowerLoss,
           FastZero!Kill, FastZero!MediumReplaced, FastZero!Beside, FastZero!Look,
           FastZero!Step, FastZero!counters, FastZero!runnerVars, FastZero!helperEnd
  <2>2. QED
    BY <2>1, StillTallied
<1>7. QED
  BY <1>1, <1>2, <1>3, <1>4, <1>5, <1>6 DEF FastZero!Next, FastZero!Serve

-----------------------------------------------------------------------------
(* Both transactions. *)

IInv == IF kind = "restore" THEN RestoreInv ELSE ZeroInv /\ Tallied

LEMMA InitiallyIInv == Init => IInv
BY RestoreInitially, ZeroInitially, TalliedInitially DEF Init, IInv

LEMMA StutterKeepsIInv ==
  ASSUME IInv, UNCHANGED vars
  PROVE  IInv'
<1> USE DEF vars, sharedVars, zeroVars, restoreVars
<1>1. CASE kind = "restore"
  <2>1. RestoreInv'
    BY <1>1
       DEF IInv, RestoreInv, RestoreTypeOK, UntouchedBefore, Erasure, Construction, CleanUp,
           Ordered, Spared, Told, Absent, PartAbsent, Clean, PartClean, Zeroed, NoImage, Erased,
           Untouched, Restore!Untouched, Restore!TypeOK, Restore!DeviceTypeOK
  <2>2. QED
    BY <1>1, <2>1 DEF IInv
<1>2. CASE kind # "restore"
  <2>1. ZeroInv'
    BY <1>2
       DEF IInv, ZeroInv, ZeroTypeOK, InOrder, Caused, Accounted, Stored, Verified, ZeroSpared,
           ZeroTold, Uncached, ZeroUntouched, FastZero!Untouched, FastZero!DeviceTypeOK,
           FastZero!Offset, FastZero!scanned
  <2>2. Tallied'
    BY <1>2 DEF IInv, Tallied, FastZero!Offset, FastZero!scanned
  <2>3. QED
    BY <1>2, <2>1, <2>2 DEF IInv
<1>3. QED
  BY <1>1, <1>2

LEMMA NextKeepsIInv ==
  ASSUME IInv, Next
  PROVE  IInv'
<1>1. CASE FastZeroSteps
  BY <1>1, ZeroStep, TalliedStep DEF FastZeroSteps, IInv
<1>2. CASE RestoreSteps
  BY <1>2, RestoreStep DEF RestoreSteps, IInv
<1>3. QED
  BY <1>1, <1>2 DEF Next

\* What either transaction relies on holds in every state it reaches.
THEOREM Inductive == Spec => []IInv
<1>1. IInv /\ [Next]_vars => IInv'
  BY NextKeepsIInv, StutterKeepsIInv
<1>2. QED
  BY InitiallyIInv, <1>1, PTL DEF Spec

-----------------------------------------------------------------------------
(* What follows from it. *)

LEMMA RestoreConclusions ==
  ASSUME RestoreInv
  PROVE  /\ Restore!OutcomeIsTrue /\ Restore!ReportIsTrue
         /\ Restore!ReplacementIsSpared
         /\ Restore!ErasedBeforeNew /\ Restore!ReturnsLast
<1> USE EndsOfDisk DEF RestoreInv, Disk, Layout, Restore!Blocks, Clean, PartClean
<1>1. Restore!OutcomeIsTrue
  <2>1. pc = "success" /\ swap = "none" =>
          /\ \A b \in Table \union Metadata : dur[b] = "image"
          /\ \A b \in Restore!Blocks \ (Table \union Metadata) : dur[b] = "zero"
          /\ dirty = {} /\ pdirty = {} /\ alien = {}
    BY DEF Construction, Spared, Formatted, Dropped, TableRead
  <2>2. pc = "failed" /\ stray # "sfdisk" /\ swap = "none" =>
          (\A b \in Restore!Ends : dur[b] = "zero") /\ dirty = {} /\ pdirty = {}
    BY DEF RestoreTypeOK, CleanUp, Closed
  <2>3. pc \in {"refused", "cancelled"} => \A b \in Restore!Blocks : dur[b] \in {"old", "zero"}
    BY DEF UntouchedBefore, Before, Untouched, Restore!Untouched
  <2>4. QED
    BY <2>1, <2>2, <2>3 DEF Restore!OutcomeIsTrue
<1>2. Restore!ReportIsTrue
  BY <1>1 DEF Restore!ReportIsTrue, Told, UntouchedBefore, NotYet, Untouched
<1>3. Restore!ReplacementIsSpared
  BY DEF Restore!ReplacementIsSpared, RestoreTypeOK, Spared, Restore!PreCommit, Restore!Erasing
<1>4. Restore!ErasedBeforeNew
  BY DEF Restore!ErasedBeforeNew, Ordered, NoImage, Erased
<1>5. Restore!ReturnsLast
  BY DEF Restore!ReturnsLast, Told
<1>6. QED
  BY <1>1, <1>2, <1>3, <1>4, <1>5

LEMMA ZeroConclusions ==
  ASSUME ZeroInv, Tallied
  PROVE  /\ FastZero!ReportIsTrue
         /\ FastZero!ReplacementIsSpared
         /\ FastZero!ReturnsLast
<1> USE DEF ZeroInv, Target
<1>1. FastZero!SuccessIsZero
  <2>1. SUFFICES ASSUME pc = "success"
                 PROVE  (\A b \in Target : dur[b] = "zero") /\ dirty = {} /\ alien = {}
    BY DEF FastZero!SuccessIsZero
  <2>2. swap = "none" /\ verified = LastChunk + 1 /\ dirty = {}
    BY <2>1 DEF Verified, Uncached, Results
  <2>3. \A b \in Target : Chunk(b) < verified
    BY <2>2, ChunkOf
  <2>4. QED
    BY <2>1, <2>2, <2>3 DEF Verified, ZeroSpared
<1>2. FastZero!PartialIsInert
  BY DEF FastZero!PartialIsInert, Verified, Uncached, Results
<1>3. FastZero!AccountingIsTrue
  <2>1. ASSUME NEW b \in Target, dur[b] # before[b]
        PROVE  \/ Chunk(b) \in written
               \/ Chunk(b) = FastZero!Offset
                    /\ pc \notin FastZero!PreCommit \union {"refused", "cancelled"}
               \/ b \in FastZero!Ends /\ cause # "none"
    BY <2>1 DEF Accounted, ZeroUntouched, FastZero!Untouched
  <2>2. pc = "partial-cancel" =>
          \A b \in Target : Chunk(b) \in FastZero!scanned => dur[b] = "zero" \/ b \in weak
    BY DEF Stored, Verified, Uncached, Caused, Results, FastZero!Partial
  <2>3. QED
    BY <2>1, <2>2 DEF FastZero!AccountingIsTrue, Chunk
<1>4. FastZero!ReportIsTrue
  <2>1. rpc = "done" =>
          /\ report \in FastZero!Partial \union {"success"} => pc = report
          /\ report = "cancelled" \/ ~committed => FastZero!Untouched
          /\ report = "mismatch" => ~connected
    BY DEF ZeroTold, Tallied, Results, ZeroUntouched
  <2>2. QED
    BY <1>1, <1>2, <1>3, <2>1 DEF FastZero!ReportIsTrue, FastZero!OutcomeIsTrue
<1>5. FastZero!ReplacementIsSpared
  BY DEF FastZero!ReplacementIsSpared, ZeroSpared
<1>6. FastZero!ReturnsLast
  BY DEF FastZero!ReturnsLast, ZeroTold
<1>7. QED
  BY <1>4, <1>5, <1>6

LEMMA Conclusions == IInv => ReportIsTrue /\ ReplacementIsSpared /\ ErasureIsOrdered
BY RestoreConclusions, ZeroConclusions
   DEF IInv, ReportIsTrue, ReplacementIsSpared, ErasureIsOrdered

\* What either runner reports is true of the medium, of every sector of it: of a success, of
\* a partial result and its counters, of a cancellation and of an error without COMMIT; and a
\* result is only refused if progress packets were lost.
THEOREM Reports == Spec => []ReportIsTrue
<1>1. IInv => ReportIsTrue
  BY Conclusions
<1>2. QED
  BY <1>1, Inductive, PTL

\* A disk that takes the place of the target before the last look at the identity gets
\* nothing, and one that comes during the erasure of a restore gets no table.
THEOREM Replacement == Spec => []ReplacementIsSpared
<1>1. IInv => ReplacementIsSpared
  BY Conclusions
<1>2. QED
  BY <1>1, Inductive, PTL

\* Nothing of the new layout is durable on a disk that is not erased, and no runner returns
\* from a committed erasure while root may still write.
THEOREM Order == Spec => []ErasureIsOrdered
<1>1. IInv => ErasureIsOrdered
  BY Conclusions
<1>2. QED
  BY <1>1, Inductive, PTL
=============================================================================
