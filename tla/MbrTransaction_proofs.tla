------------------------- MODULE MbrTransaction_proofs -------------------------
(***************************************************************************)
(* Proofs about MbrTransaction for every size of disk, any interleaving    *)
(* with the page cache and any set of weak sectors, of which each keeps,   *)
(* drops or spoils every write that reaches it.                            *)
(***************************************************************************)
EXTENDS MbrTransaction, TLAPS

-----------------------------------------------------------------------------
(* The inductive invariant. *)

Genuine == swap = "none"

Before == PreCommit \union {"committed", "zero-roots", "cancelled", "refused"}
\* The forward path from the fsync of the backup header on, and of the roots.
AfterBackup ==
  {"copy", "check-digest", "fsync-body", "flush-body", "verify-body", "identity"}
    \union Activating
AfterRoots == {"zero-backup", "fsync-backup"} \union AfterBackup
Unmarked == Inactive \union {"verify-inactive", "write-mbr", "failed", "cancelled", "refused"}

Stored(S) == \A b \in S : dur[b] = "image" /\ b \notin dirty
\* A commit marker is there, or may come from the cache.
Marked == dur[0] = "image" \/ (0 \in dirty /\ page[0] = "image")

\* Nothing has been written; no marker is written yet; an exchanged medium gets
\* nothing, or no marker.
UntouchedBefore == pc \in Before => dirty = {} /\ alien = {} /\ \A b \in Blocks : dur[b] = "old"
NotMarked == pc \in Unmarked => dur[0] # "image" /\ page[0] # "image"
EarlySwap ==
  swap \in PreCommit \union {"committed"} =>
    /\ dirty = {} /\ alien = {}
    /\ pc \in PreCommit \union {"committed", "cancelled", "refused", "killed", "powerloss"}
SwapUnmarked ==
  swap \in Inactive =>
    pc \notin Activating \union {"success"} /\ page[0] # "image" /\ <<0, "image">> \notin alien
Quarantine == UntouchedBefore /\ NotMarked /\ EarlySwap /\ SwapUnmarked

\* What memory and cache hold.
CacheDropped ==
  pc \in {"verify-body", "identity", "verify-inactive", "write-mbr", "verify-all",
          "final-identity", "success", "deactivated", "powerloss"} =>
    \A b \in Blocks : page[b] = "absent"
HeldImage ==
  pc \in {"fsync-body", "flush-body", "verify-body", "identity"} \union Activating => held = "image"
GenuineAlien == Genuine => alien = {}
SuccessGenuine == pc = "success" => Genuine
Bookkeeping == CacheDropped /\ HeldImage /\ GenuineAlien /\ SuccessGenuine

\* The order roots, backup, bulk, marker, of what is durable or may become so.
MarkedOverImage == Genuine /\ Marked => Stored(Rest)
RootsBeforeRest ==
  Genuine => \A r \in Roots \ weak :
               dur[r] = "old" => \A b \in Bulk \union {Backup} : b \notin dirty
BackupBeforeBulk ==
  Genuine /\ Backup \notin weak /\ dur[Backup] = "old" => \A b \in Bulk : b \notin dirty
RootsZeroing ==
  pc = "fsync-roots" /\ Genuine => \A r \in Roots \ weak : r \in dirty \/ dur[r] # "old"
RootsCleared == pc \in AfterRoots /\ Genuine => \A r \in Roots \ weak : dur[r] # "old"
BackupZeroing ==
  pc = "fsync-backup" /\ Genuine /\ Backup \notin weak => Backup \in dirty \/ dur[Backup] # "old"
BackupCleared ==
  pc \in AfterBackup /\ Genuine /\ Backup \notin weak => dur[Backup] # "old"
BodyDone == pc \in Activating \union {"identity"} /\ Genuine => Stored(Rest)
\* Sector zero has been read back before the marker is written over it.
RootsVerified == pc \in Activating \ {"verify-inactive"} /\ Genuine => ~RootsOld
NeverMixed == Genuine /\ RootsOld => ~Marked
Order ==
  /\ MarkedOverImage /\ RootsBeforeRest /\ BackupBeforeBulk
  /\ RootsZeroing /\ RootsCleared /\ BackupZeroing /\ BackupCleared
  /\ BodyDone /\ RootsVerified /\ NeverMixed

\* The ends of the transaction.
ActiveDone == pc = "success" \/ (pc = "final-identity" /\ Genuine) => Complete
MarkerZeroed ==
  pc \in {"fsync-deactivation", "flush-deactivation", "deactivated"} /\ Genuine /\ 0 \notin weak =>
    IF 0 \in dirty THEN page[0] = "zero" ELSE dur[0] = "zero"
DeactivationSynced == pc = "flush-deactivation" => dirty = {}
EndStates == ActiveDone /\ MarkerZeroed /\ DeactivationSynced

IInv == TypeOK /\ Quarantine /\ Bookkeeping /\ Order /\ EndStates /\ CrashSafe

-----------------------------------------------------------------------------
(* The regions of the disk. *)

\* How roots, bulk and backup lie on the disk.
LEMMA Regions ==
  /\ 0 \in Blocks /\ 1 \in Blocks /\ Backup \in Blocks /\ Backup \in Rest /\ 1 \in Rest
  /\ Roots \subseteq Blocks /\ Bulk \subseteq Rest /\ Rest \subseteq Blocks
  /\ 0 \notin Rest /\ 0 \notin Bulk /\ 1 \notin Bulk /\ Backup \notin Bulk
  /\ Backup \notin Roots /\ Backup # 0 /\ Backup # 1
  /\ Roots = {0, 1} /\ Rest = Bulk \union {1, Backup} /\ Blocks = Rest \union {0}
  /\ 1 \in 1..(TargetTail + 1)
  /\ \A o \in 1..(TargetTail + 1) :
       o <= TargetTail => o \in Rest /\ o + 1 \in 1..(TargetTail + 1)
BY DeviceAssumption, ImageAssumption DEF Roots, Bulk, Rest, Backup, Blocks

\* The initial states satisfy the invariant.
LEMMA InitInv == Init => IInv
<1> SUFFICES ASSUME Init PROVE IInv
  OBVIOUS
<1> USE Regions DEF Init, DeviceInit, Running, Inactive, PreCommit
<1>1. TypeOK
  BY DEF TypeOK, DeviceTypeOK, Content
<1>2. Quarantine /\ Bookkeeping
  BY DEF Quarantine, UntouchedBefore, NotMarked, EarlySwap, SwapUnmarked, Bookkeeping,
    CacheDropped, HeldImage, GenuineAlien, SuccessGenuine, Activating
<1>3. Order
  BY DEF Order, MarkedOverImage, Marked, RootsBeforeRest, BackupBeforeBulk, RootsZeroing,
    RootsCleared, BackupZeroing, BackupCleared, BodyDone, RootsVerified, NeverMixed, AfterRoots, AfterBackup, Activating
<1>4. EndStates /\ CrashSafe
  BY DEF EndStates, ActiveDone, MarkerZeroed, DeactivationSynced, CrashSafe,
    MarkerFollowsImage, BackupOutlivesRoots, BulkFollowsBackup
<1>5. QED
  BY <1>1, <1>2, <1>3, <1>4 DEF IInv

\* Every step preserves it: one step of the proof per action.
LEMMA StepInv == IInv /\ [Next]_vars => IInv'
<1> SUFFICES ASSUME IInv, [Next]_vars PROVE IInv'
  OBVIOUS
<1> USE Regions DEF IInv, TypeOK, DeviceTypeOK, Content, Quarantine, UntouchedBefore, NotMarked,
    EarlySwap, SwapUnmarked, Bookkeeping, CacheDropped, HeldImage, GenuineAlien,
    SuccessGenuine, Order, MarkedOverImage, RootsBeforeRest, BackupBeforeBulk, RootsZeroing,
    RootsCleared, BackupZeroing, BackupCleared, BodyDone, RootsVerified, NeverMixed, EndStates, ActiveDone, MarkerZeroed,
    DeactivationSynced, CrashSafe, MarkerFollowsImage, BackupOutlivesRoots, BulkFollowsBackup,
    Marked, Stored, RootsOld, Complete, Genuine, Before, AfterRoots, AfterBackup, Unmarked,
    Activating, Inactive, Deactivating, PreCommit, Running, Ended,
    Step, Beside, Look, targetVars, SameGeneration, SourceUnchanged
<1>1. CASE ReadLayout
  BY <1>1 DEF ReadLayout
<1>2. CASE ValidateSource
  BY <1>2 DEF ValidateSource
<1>3. CASE OpenTarget
  BY <1>3 DEF OpenTarget
<1>4. CASE Commit
  BY <1>4 DEF Commit
<1>5. CASE Cancel
  BY <1>5 DEF Cancel
<1>6. CASE RecheckAfterCommit
  BY <1>6 DEF RecheckAfterCommit
<1>7. CASE ZeroRoots
  BY <1>7 DEF ZeroRoots, Put
<1>8. CASE FsyncRoots
  BY <1>8 DEF FsyncRoots, Fsync, Persist
<1>9. CASE ZeroBackup
  BY <1>9 DEF ZeroBackup, Put
<1>10. CASE FsyncBackup
  BY <1>10 DEF FsyncBackup, Fsync, Persist
<1>11. CASE CopySector
  BY <1>11 DEF CopySector, Put
<1>12. CASE CopyDone
  BY <1>12 DEF CopyDone
<1>13. CASE CheckDigest
  BY <1>13 DEF CheckDigest
<1>14. CASE FsyncBody
  BY <1>14 DEF FsyncBody, Fsync, Persist
<1>15. CASE FlushBody
  BY <1>15 DEF FlushBody, FlushBuffers, Persist
<1>16. CASE VerifyBody
  BY <1>16 DEF VerifyBody, MayRead
<1>17. CASE CheckIdentity
  BY <1>17 DEF CheckIdentity
<1>18. CASE VerifyInactive
  BY <1>18 DEF VerifyInactive, MayRead
<1>19. CASE WriteMbr
  BY <1>19 DEF WriteMbr, Put
<1>20. CASE FsyncActivation
  BY <1>20 DEF FsyncActivation, Fsync, Persist
<1>21. CASE FlushActivation
  BY <1>21 DEF FlushActivation, FlushBuffers, Persist
<1>22. CASE VerifyAll
  BY <1>22 DEF VerifyAll, MayRead
<1>23. CASE FinalIdentity
  BY <1>23 DEF FinalIdentity
<1>24. CASE StepFails
  BY <1>24 DEF StepFails, Put, Handler, BeingWritten, Payload
<1>25. CASE FsyncFails
  BY <1>25 DEF FsyncFails, LoseDirty, Handler
<1>26. CASE SkipDeactivation
  BY <1>26 DEF SkipDeactivation
<1>27. CASE BeginDeactivation
  BY <1>27 DEF BeginDeactivation
<1>28. CASE Deactivate
  BY <1>28 DEF Deactivate, Put
<1>29. CASE FsyncDeactivation
  BY <1>29 DEF FsyncDeactivation, Fsync, Persist
<1>30. CASE FlushDeactivation
  BY <1>30 DEF FlushDeactivation, FlushBuffers, Persist
<1>31. CASE WriteBack
  BY <1>31 DEF WriteBack, WriteBackSector, Persist
<1>32. CASE PowerLoss
  BY <1>32 DEF PowerLoss, LosePower
<1>33. CASE Kill
  BY <1>33 DEF Kill
<1>34. CASE SourceChanges
  BY <1>34 DEF SourceChanges
<1>35. CASE MediumReplaced
  BY <1>35 DEF MediumReplaced
<1>36. CASE UNCHANGED vars
  BY <1>36 DEF vars
<1>37. QED
  BY <1>1, <1>2, <1>3, <1>4, <1>5, <1>6, <1>7, <1>8, <1>9, <1>10, <1>11, <1>12, <1>13,
    <1>14, <1>15, <1>16, <1>17, <1>18, <1>19, <1>20, <1>21, <1>22, <1>23, <1>24, <1>25,
    <1>26, <1>27, <1>28, <1>29, <1>30, <1>31, <1>32, <1>33, <1>34, <1>35, <1>36 DEF
    Next, Helper, Environment

\* The invariant holds in every reachable state.
THEOREM Inductive == Spec => []IInv
<1>1. Init => IInv
  BY InitInv
<1>2. IInv /\ [Next]_vars => IInv'
  BY StepInv
<1>3. QED
  BY <1>1, <1>2, PTL DEF Spec

-----------------------------------------------------------------------------
(* What a reader should know of. *)

\* Every variable keeps its type, for every size of disk.
THEOREM TypeCorrect == Spec => []TypeOK
<1>1. IInv => TypeOK
  BY DEF IInv
<1>2. QED
  BY <1>1, Inductive, PTL

\* Whenever the power is cut: the commit marker only over the complete image, on any
\* disk; old roots only over the old backup and data, and the old backup only over the
\* old data, but for sectors that dropped zeroes they had acknowledged.
THEOREM CrashConsistency == Spec => []CrashSafe
<1>1. IInv => CrashSafe
  BY DEF IInv
<1>2. QED
  BY <1>1, Inductive, PTL

\* A reported success is the complete durable image on the authorized disk.
THEOREM Durability == Spec => []SuccessIsDurable
<1>1. IInv => SuccessIsDurable
  BY DEF IInv, TypeOK, DeviceTypeOK, Bookkeeping, CacheDropped, GenuineAlien, SuccessGenuine,
    EndStates, ActiveDone, SuccessIsDurable
<1>2. QED
  BY <1>1, Inductive, PTL

\* An emergency deactivation that went through leaves no commit marker, if sector zero
\* keeps what it acknowledges: nothing reads the zeroes back.
THEOREM Deactivation == Spec => []DeactivatedIsInert
<1>1. IInv => DeactivatedIsInert
  BY Regions DEF IInv, TypeOK, DeviceTypeOK, Bookkeeping, CacheDropped, EndStates,
    MarkerZeroed, DeactivatedIsInert, Genuine
<1>2. QED
  BY <1>1, Inductive, PTL

\* Success is true of any disk, deactivation if sector zero keeps what it acknowledges.
THEOREM Reports == Spec => []ReportIsTrue
<1>1. SuccessIsDurable /\ DeactivatedIsInert => ReportIsTrue
  BY DEF ReportIsTrue
<1>2. QED
  BY <1>1, Durability, Deactivation, PTL

\* A disk exchanged in time gets no write, or no commit marker.
THEOREM Replacement == Spec => []ReplacementIsSpared
<1>1. IInv => ReplacementIsSpared
  BY DEF IInv, Quarantine, EarlySwap, SwapUnmarked, ReplacementIsSpared
<1>2. QED
  BY <1>1, Inductive, PTL

-----------------------------------------------------------------------------
(* The transaction implements the abstract medium. *)

\* With nothing dirty, writing back changes nothing.
LEMMA NothingToPersist == ASSUME TypeOK, Persist({}) PROVE dur' = dur
BY DEF Persist, TypeOK, DeviceTypeOK

\* What one sector holds after sectors have reached the medium.
LEMMA Persisted ==
  ASSUME TypeOK, NEW S \in SUBSET dirty, Persist(S), NEW b \in Blocks
  PROVE  dur'[b] = dur[b] \/ (Genuine /\ b \in S /\ dur'[b] \in {"bad", page[b]})
BY DEF Persist, Genuine, TypeOK, DeviceTypeOK

\* A step changes the disk only by persisting dirty sectors, and never ends the
\* transaction at the same time.
LEMMA StepShape ==
  ASSUME IInv, [Next]_vars
  PROVE  /\ dur' = dur \/ \E S \in SUBSET dirty : Persist(S)
         /\ weak' = weak
         /\ pc' # pc => pc \in Running
         /\ pc' # pc /\ dur' # dur => pc' \in Running
<1> USE DEF Running, Inactive, Activating, PreCommit, Deactivating, Step, Look, Beside, Put,
    Fsync, FlushBuffers, LoseDirty, targetVars
<1>1. CASE FlushDeactivation
  <2>1. dirty = {}
    BY <1>1 DEF FlushDeactivation, IInv, EndStates, DeactivationSynced
  <2>2. dur' = dur
    BY <1>1, <2>1, NothingToPersist DEF FlushDeactivation, IInv
  <2>3. QED
    BY <1>1, <2>2 DEF FlushDeactivation
<1>2. CASE ReadLayout \/ ValidateSource \/ OpenTarget \/ Commit \/ Cancel \/ RecheckAfterCommit
  BY <1>2 DEF ReadLayout, ValidateSource, OpenTarget, Commit, Cancel, RecheckAfterCommit
<1>3. CASE ZeroRoots \/ FsyncRoots \/ ZeroBackup \/ FsyncBackup \/ CopySector \/ CopyDone
  BY <1>3 DEF ZeroRoots, FsyncRoots, ZeroBackup, FsyncBackup, CopySector, CopyDone
<1>4. CASE CheckDigest \/ FsyncBody \/ FlushBody \/ VerifyBody \/ CheckIdentity
  BY <1>4 DEF CheckDigest, FsyncBody, FlushBody, VerifyBody, CheckIdentity
<1>5. CASE VerifyInactive \/ WriteMbr \/ FsyncActivation \/ FlushActivation \/ VerifyAll
  BY <1>5 DEF VerifyInactive, WriteMbr, FsyncActivation, FlushActivation, VerifyAll
<1>6. CASE FinalIdentity \/ StepFails \/ FsyncFails
  BY <1>6 DEF FinalIdentity, StepFails, FsyncFails
<1>7. CASE SkipDeactivation \/ BeginDeactivation \/ Deactivate \/ FsyncDeactivation
  BY <1>7 DEF SkipDeactivation, BeginDeactivation, Deactivate, FsyncDeactivation
<1>8. CASE Environment
  BY <1>8 DEF Environment, WriteBack, WriteBackSector, PowerLoss, LosePower, Kill,
    SourceChanges, MediumReplaced
<1>9. CASE UNCHANGED vars
  BY <1>9 DEF vars
<1>10. QED
  BY <1>1, <1>2, <1>3, <1>4, <1>5, <1>6, <1>7, <1>8, <1>9 DEF Next, Helper

\* A sector that still holds old content has never been written.
LEMMA OldIsGone ==
  ASSUME IInv, [Next]_vars
  PROVE  \A b \in Blocks : dur'[b] = "old" => dur[b] = "old"
<1>1. \A b \in Blocks :
        dur'[b] = dur[b] \/ (Genuine /\ b \in dirty /\ dur'[b] \in {"bad", page[b]})
  BY StepShape, Persisted DEF IInv
<1>2. \A b \in dirty : page[b] # "old"
  BY DEF IInv, TypeOK, DeviceTypeOK, Content
<1>3. QED
  BY <1>1, <1>2

\* The views, told apart by the roots, the rest and the commit marker.
OldView == IF Intact THEN "intact" ELSE IF RestOld THEN "opened" ELSE "stale"

LEMMA ViewCases ==
  ASSUME IInv
  PROVE  /\ RootsOld => View = OldView
         /\ ~RootsOld => View = IF dur[0] = "image" THEN "active" ELSE "inert"
<1>1. dur[0] = "image" => Complete
  BY DEF IInv, CrashSafe, MarkerFollowsImage
<1>2. (Intact => RootsOld /\ RestOld) /\ (Complete => ~RootsOld /\ dur[0] = "image")
  BY Regions DEF Intact, RootsOld, RestOld, Complete
<1>3. CASE RootsOld /\ Intact
  BY <1>2, <1>3 DEF View, OldView
<1>4. CASE RootsOld /\ ~Intact
  BY <1>1, <1>2, <1>4 DEF View, OldView
<1>5. CASE ~RootsOld /\ dur[0] = "image"
  BY <1>1, <1>2, <1>5 DEF View
<1>6. CASE ~RootsOld /\ dur[0] # "image"
  BY <1>2, <1>6 DEF View
<1>7. QED
  BY <1>3, <1>4, <1>5, <1>6

\* The same facts after a step.
LEMMA ViewCasesNext ==
  ASSUME IInv'
  PROVE  /\ RootsOld' => View' = OldView'
         /\ ~RootsOld' => View' = IF dur'[0] = "image" THEN "active" ELSE "inert"
<1>1. dur'[0] = "image" => Complete'
  BY DEF IInv, CrashSafe, MarkerFollowsImage
<1>2. (Intact' => RootsOld' /\ RestOld') /\ (Complete' => ~RootsOld' /\ dur'[0] = "image")
  BY Regions DEF Intact, RootsOld, RestOld, Complete
<1>3. CASE RootsOld' /\ Intact'
  BY <1>2, <1>3 DEF View, OldView
<1>4. CASE RootsOld' /\ ~Intact'
  BY <1>1, <1>2, <1>4 DEF View, OldView
<1>5. CASE ~RootsOld' /\ dur'[0] = "image"
  BY <1>1, <1>2, <1>5 DEF View
<1>6. CASE ~RootsOld' /\ dur'[0] # "image"
  BY <1>2, <1>6 DEF View
<1>7. QED
  BY <1>3, <1>4, <1>5, <1>6

\* A marker does not appear in the step in which the roots go.
LEMMA RootsThenMarker ==
  ASSUME IInv, IInv', [Next]_vars, RootsOld
  PROVE  dur'[0] # "image"
<1> SUFFICES ASSUME dur'[0] = "image" PROVE FALSE
  OBVIOUS
<1>1. dur[0] # "image"
  BY Regions DEF IInv, CrashSafe, MarkerFollowsImage, Complete, RootsOld
<1>2. PICK S \in SUBSET dirty : Persist(S)
  BY <1>1, StepShape
<1>3. Genuine /\ 0 \in dirty /\ page[0] = "image"
  BY <1>1, <1>2, Persisted, Regions DEF IInv
<1>4. QED
  BY <1>3 DEF Marked, IInv, Order, NeverMixed

\* Where an old root stands over written data, there is a weak sector.
LEMMA StaleIsWeak == ASSUME IInv, RootsOld, ~RestOld PROVE weak # {}
<1>1. PICK r \in Roots : dur[r] = "old"
  BY DEF RootsOld
<1>2. r \in weak
  BY <1>1 DEF IInv, CrashSafe, BackupOutlivesRoots, RestOld
<1>3. QED
  BY <1>2

\* The disk moves along the edges of the abstract machine, those of a disk that
\* drops writes included if it has weak sectors.
LEMMA ViewStep ==
  ASSUME IInv, IInv', [Next]_vars
  PROVE  \/ View' = View
         \/ <<View, View'>> \in Activation!Edges
         \/ weak # {} /\ <<View, View'>> \in Activation!StaleEdges
<1>1. (RootsOld' => RootsOld) /\ (Intact' => Intact) /\ (RestOld' => RestOld)
  BY OldIsGone, Regions DEF Intact, RootsOld, RestOld
<1>2. Intact => RestOld
  BY Regions DEF Intact, RestOld
<1>3. CASE ~RootsOld
  BY <1>1, <1>3, ViewCases, ViewCasesNext DEF Activation!Edges
<1>4. CASE RootsOld /\ ~RootsOld'
  <2>1. View = OldView /\ View' = "inert"
    BY <1>4, RootsThenMarker, ViewCases, ViewCasesNext
  <2>2. RestOld \/ weak # {}
    BY <1>4, StaleIsWeak
  <2>3. QED
    BY <1>2, <2>1, <2>2 DEF OldView, Activation!Edges, Activation!StaleEdges
<1>5. CASE RootsOld /\ RootsOld'
  <2>1. View = OldView /\ View' = OldView'
    BY <1>5, ViewCases, ViewCasesNext
  <2>2. RestOld' \/ weak # {}
    <3> SUFFICES ASSUME ~RestOld' PROVE weak' # {}
      BY StepShape
    <3>1. PICK r \in Roots : dur'[r] = "old"
      BY <1>5 DEF RootsOld
    <3>2. r \in weak'
      BY <3>1 DEF IInv, CrashSafe, BackupOutlivesRoots, RestOld
    <3>3. QED
      BY <3>2
  <2>3. QED
    BY <1>1, <1>2, <2>1, <2>2 DEF OldView, Activation!Edges, Activation!StaleEdges
<1>6. QED
  BY <1>3, <1>4, <1>5

\* After a success or a refusal nothing is left that could reach a disk.
LEMMA FinishedIsStill ==
  ASSUME IInv, IInv', [Next]_vars, View' # View
  PROVE  Outcome \in {"running", "failed"}
<1>1. dur' # dur
  BY DEF View, Intact, RestOld, RootsOld, Complete
<1>2. dirty # {}
  BY <1>1, StepShape, NothingToPersist DEF IInv
<1>3. pc \notin {"success", "cancelled", "refused"}
  BY <1>2 DEF IInv, TypeOK, DeviceTypeOK, Bookkeeping, CacheDropped, Quarantine,
    UntouchedBefore, Before
<1>4. QED
  BY <1>3 DEF Outcome

\* What the caller is told is true when it is told.
LEMMA OutcomeStep ==
  ASSUME IInv, IInv', [Next]_vars
  PROVE  \/ Outcome' = Outcome
         \/ Outcome = "running" /\ Outcome' = "failed" /\ View' = View
         \/ Outcome = "running" /\ Outcome' = "succeeded" /\ View = "active" /\ View' = View
         \/ Outcome = "running" /\ Outcome' = "untouched" /\ View = "intact" /\ View' = View
<1>1. CASE pc' = pc
  BY <1>1 DEF Outcome
<1>2. CASE pc' # pc /\ pc \in Running /\ dur' = dur
  <2>1. View' = View
    BY <1>2 DEF View, Intact, RestOld, RootsOld, Complete
  <2>2. pc' = "success" => View' = "active"
    BY ViewCasesNext, Regions DEF IInv, EndStates, ActiveDone, Complete, RootsOld
  <2>3. pc' \in {"cancelled", "refused"} => View' = "intact"
    BY ViewCasesNext, Regions
       DEF IInv, Quarantine, UntouchedBefore, Before, OldView, Intact, RootsOld
  <2>4. QED
    BY <1>2, <2>1, <2>2, <2>3 DEF Outcome, Running, Inactive, Activating, PreCommit, Deactivating
<1>3. CASE pc' # pc /\ dur' # dur
  <2>1. pc \in Running /\ pc' \in Running
    BY <1>3, StepShape
  <2>2. QED
    BY <2>1 DEF Outcome, Running, Inactive, Activating, PreCommit, Deactivating
<1>4. QED
  BY <1>1, <1>2, <1>3, StepShape

\* The transaction implements the abstract medium, for every size of disk: old roots
\* stay over overwritten data on an unreliable disk only.
THEOREM Refinement == Spec => ImplementsActivation
<1>1. Init => Activation!Init
  <2> SUFFICES ASSUME Init PROVE Activation!Init
    OBVIOUS
  <2>1. Intact /\ RootsOld
    BY Regions DEF Init, Intact, RootsOld
  <2>2. View = "intact"
    BY <2>1, ViewCases, InitInv DEF OldView
  <2>3. Outcome = "running"
    BY DEF Init, Outcome, Running, Inactive, PreCommit
  <2>4. (weak = {}) \in BOOLEAN
    OBVIOUS
  <2>5. QED
    BY <2>2, <2>3, <2>4 DEF Activation!Init
<1>2. IInv /\ IInv' /\ [Next]_vars => [Activation!Next]_(Activation!vars)
  <2> SUFFICES ASSUME IInv, IInv', [Next]_vars PROVE [Activation!Next]_(Activation!vars)
    OBVIOUS
  <2>0. weak' = weak
    BY StepShape
  <2>1. CASE Outcome' = Outcome /\ View' = View
    BY <2>0, <2>1 DEF Activation!vars
  <2>2. CASE Outcome' = Outcome /\ View' # View
    <3>1. \/ <<View, View'>> \in Activation!Edges
          \/ weak # {} /\ <<View, View'>> \in Activation!StaleEdges
      BY <2>2, ViewStep
    <3>2. Outcome \in {"running", "failed"}
      BY <2>2, FinishedIsStill
    <3>3. QED
      BY <2>0, <2>2, <3>1, <3>2 DEF Activation!Next, Activation!MediumMoves
  <2>3. CASE Outcome' # Outcome
    BY <2>0, <2>3, OutcomeStep
       DEF Activation!Next, Activation!Succeed, Activation!Refuse, Activation!Fail, Activation!Tells
  <2>4. QED
    BY <2>1, <2>2, <2>3
<1>3. QED
  BY <1>1, <1>2, Inductive, PTL DEF Spec, ImplementsActivation, Activation!Spec
=============================================================================
