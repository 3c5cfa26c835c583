------------------------- MODULE RawTransaction_proofs -------------------------
(***************************************************************************)
(* Proofs about RawTransaction for every geometry of image and target, any *)
(* interleaving with the page cache and any set of weak sectors, of which  *)
(* each keeps, drops or spoils every write that reaches it.                *)
(***************************************************************************)
EXTENDS RawTransaction, TLAPS

-----------------------------------------------------------------------------
(* The inductive invariant. *)

Genuine == swap = "none"

\* Before the first write.
Before == PreCommit \union {"committed", "zero-front", "cancelled", "refused"}
\* The forward path from the first fsync on.
Cleared ==
  {"zero-tails", "fsync-tails", "copy", "check-digest", "fsync-body", "flush-body",
   "verify-inactive", "identity", "write-source-tail", "fsync-source-tail", "write-front",
   "fsync-activation", "flush-activation", "verify-active", "final-identity", "success"}
\* The forward path from the identity check on, and from the write of the front.
Activating ==
  {"write-source-tail", "fsync-source-tail", "write-front",
   "fsync-activation", "flush-activation", "verify-active", "final-identity", "success"}
Arming == {"write-front", "fsync-activation", "flush-activation", "verify-active",
           "final-identity", "success"}
Unarmed == PreActivation \union {"write-source-tail", "fsync-source-tail", "write-front",
                                 "cancelled", "refused"}

BodyStored == \A b \in Middle : dur[b] = "image" /\ b \notin dirty
TailStored == dur[SourceTail] = "image" /\ SourceTail \notin dirty

\* Nothing has been written, or cached.
UntouchedBefore ==
  pc \in Before => dirty = {} /\ alien = {} /\ \A b \in Blocks : dur[b] = "old"

\* Until its write, no front sector can become an image sector.
NotArmed ==
  /\ pc \in Unarmed => \A b \in Front : dur[b] # "image" /\ page[b] # "image"
  /\ pc \in PreActivation => page[SourceTail] # "image"

\* Sectors of the front that are or may become new metadata.
FrontArmed == \E b \in Front : dur[b] = "image" \/ (b \in dirty /\ page[b] = "image")
ArmedOverBody == Genuine /\ FrontArmed => BodyStored
NeverMixed ==
  /\ FrontOld => ~FrontNew
  /\ Genuine /\ FrontOld => ~FrontArmed
OldOverBody ==
  Genuine => \A b \in Front \ weak : dur[b] = "old" => \A m \in Middle : m \notin dirty

\* fsync of the front guard, and what holds after it of the sectors that kept the
\* zeroes; of all of them once they have been read back.
FrontZeroing ==
  pc = "fsync-front" /\ Genuine => \A b \in Front \ weak : b \in dirty \/ dur[b] # "old"
FrontCleared == pc \in Cleared /\ Genuine => \A b \in Front \ weak : dur[b] # "old"
FrontVerified == pc \in Activating \union {"identity"} /\ Genuine => ~FrontOld

\* BLKFLSBUF has dropped the cache, so that verification reads the medium.
CacheDropped ==
  pc \in {"verify-inactive", "identity", "verify-active", "final-identity", "success",
          "deactivated", "powerloss"} =>
    \A b \in Blocks : page[b] = "absent"

HeldImage == pc \in Activating \union {"fsync-body", "flush-body", "verify-inactive", "identity"} =>
               held = "image"

\* Verified before, and not written again during, the activation.
BodyDone == pc \in Activating \union {"identity"} /\ Genuine => BodyStored
TailWritten ==
  pc = "fsync-source-tail" /\ Genuine /\ SourceTail \notin weak =>
    IF SourceTail \in dirty THEN page[SourceTail] = "image" ELSE dur[SourceTail] = "image"
TailDone == pc \in Arming /\ Genuine /\ SourceTail \notin weak => TailStored

\* The final read-back.
ActiveDone ==
  pc = "success" \/ (pc = "final-identity" /\ Genuine) => Complete
GenuineAlien == Genuine => alien = {}
SuccessGenuine == pc = "success" => Genuine

\* The emergency deactivation.
RegionsZeroed ==
  pc \in {"fsync-deactivation", "flush-deactivation", "deactivated"} /\ Genuine =>
    \A b \in DeactivationRegions \ weak :
      IF b \in dirty THEN page[b] = "zero" ELSE dur[b] = "zero"

DeactivationSynced == pc = "flush-deactivation" => dirty = {}

\* A medium exchanged early is not written; one exchanged before the
\* activation gets none.
EarlySwap ==
  swap \in PreCommit \union {"committed"} =>
    /\ dirty = {} /\ alien = {}
    /\ pc \in PreCommit \union {"committed", "cancelled", "refused", "killed", "powerloss"}
SwapUnarmed ==
  swap \in PreActivation =>
    /\ pc \notin Activating
    /\ \A b \in Front \union {SourceTail} : page[b] # "image" /\ <<b, "image">> \notin alien

\* The parts of the invariant: what is not written yet, what memory and cache
\* hold, the order of body and front, the order of tail and front, the ends.
Quarantine == UntouchedBefore /\ NotArmed /\ EarlySwap /\ SwapUnarmed
Bookkeeping == CacheDropped /\ HeldImage /\ GenuineAlien /\ SuccessGenuine
BodyOrder ==
  /\ ArmedOverBody /\ NeverMixed /\ OldOverBody
  /\ FrontZeroing /\ FrontCleared /\ FrontVerified /\ BodyDone
TailOrder == TailWritten /\ TailDone
EndStates == ActiveDone /\ RegionsZeroed /\ DeactivationSynced

IInv ==
  TypeOK /\ Quarantine /\ Bookkeeping /\ BodyOrder /\ TailOrder /\ EndStates /\ CrashSafe

-----------------------------------------------------------------------------
(* The regions of the medium. *)

\* How front guard, body and tails lie on the target; the only place where the
\* proofs look at the geometry.
LEMMA Regions ==
  /\ 0 \in Front /\ SourceTail \in Blocks /\ TargetTail \in Blocks
  /\ Front \subseteq Blocks /\ Middle \subseteq Blocks /\ Tails \subseteq Blocks
  /\ DeactivationRegions \subseteq Blocks
  /\ Front \intersect Middle = {} /\ Tails \intersect Middle = {}
  /\ SourceTail \notin Front /\ TargetTail \notin Front /\ SourceTail \notin Middle
  /\ SourceTail \in DeactivationRegions /\ Front \subseteq DeactivationRegions
  /\ 0..SourceTail = Front \union Middle \union {SourceTail}
  /\ DeactivationRegions \intersect Middle = {}
  /\ Guard \in Guard..SourceTail
  /\ \A o \in Guard..SourceTail : o < SourceTail => o \in Middle /\ o + 1 \in Guard..SourceTail
BY GeometryAssumption, DeviceAssumption DEF Front, Middle, Tails, Blocks, DeactivationRegions

\* The initial states satisfy the invariant: nothing is written or cached.
LEMMA InitInv == Init => IInv
<1> SUFFICES ASSUME Init PROVE IInv
  OBVIOUS
<1>1. TypeOK
  BY Regions DEF Init, DeviceInit, TypeOK, DeviceTypeOK, Running, PreCommit, Content
<1>2. Quarantine /\ Bookkeeping
  BY Regions DEF Init, DeviceInit, Quarantine, UntouchedBefore, NotArmed, EarlySwap, SwapUnarmed, Bookkeeping,
    CacheDropped, HeldImage, GenuineAlien, SuccessGenuine, Activating,
    PreActivation, PreCommit
<1>3. ~FrontNew /\ ~FrontArmed /\ BodyOld
  BY Regions DEF Init, DeviceInit, FrontNew, FrontArmed, BodyOld
<1>4. BodyOrder /\ TailOrder
  BY <1>3 DEF Init, DeviceInit, BodyOrder, ArmedOverBody, NeverMixed, OldOverBody, FrontZeroing, FrontCleared,
    FrontVerified, BodyDone, TailOrder, TailWritten, TailDone, Cleared, Activating, Arming
<1>5. EndStates /\ CrashSafe
  BY <1>3 DEF Init, DeviceInit, EndStates, ActiveDone, RegionsZeroed, DeactivationSynced, CrashSafe,
    ActivationFollowsBody, OldMetadataFollowsBody, TailBeforeFront
<1>6. QED
  BY <1>1, <1>2, <1>4, <1>5 DEF IInv

\* Every step preserves it.
LEMMA StepInv == IInv /\ [Next]_vars => IInv'
<1> SUFFICES ASSUME IInv, [Next]_vars PROVE IInv'
  OBVIOUS
<1> USE Regions DEF TypeOK, DeviceTypeOK, Running, Ended, Content, Deactivating, IInv, Quarantine, Bookkeeping, BodyOrder, TailOrder, EndStates,
    NeverMixed, DeactivationSynced,
    UntouchedBefore, NotArmed, ArmedOverBody, OldOverBody, FrontZeroing, FrontCleared,
    CacheDropped, HeldImage, FrontVerified, BodyDone, TailWritten, TailDone,
    ActiveDone, GenuineAlien, SuccessGenuine, RegionsZeroed, EarlySwap, SwapUnarmed,
    CrashSafe, ActivationFollowsBody, OldMetadataFollowsBody, TailBeforeFront,
    FrontNew, FrontOld, BodyNew, BodyOld, FrontArmed, BodyStored, TailStored, Complete, Genuine,
    Before, Cleared, Activating, Arming, Unarmed, PreActivation, PreCommit
<1>1. CASE ValidateSource
  BY <1>1 DEF ValidateSource, SourceUnchanged, sourceVars, targetVars, Step
<1>2. CASE ReadGuards
  BY <1>2 DEF ReadGuards, targetVars, Step
<1>3. CASE OpenTarget
  BY <1>3 DEF OpenTarget, SameGeneration, SourceUnchanged, sourceVars, targetVars, Step
<1>4. CASE Commit
  BY <1>4 DEF Commit, sourceVars, targetVars, Step
<1>5. CASE Cancel
  BY <1>5 DEF Cancel, sourceVars, targetVars
<1>6. CASE RecheckAfterCommit
  BY <1>6 DEF RecheckAfterCommit, SameGeneration, SourceUnchanged, sourceVars, targetVars, Step
<1>7. CASE ZeroFront
  BY <1>7 DEF ZeroFront, Put, sourceVars, Step
<1>8. CASE FsyncFront
  BY <1>8 DEF FsyncFront, Fsync, Persist, sourceVars, Step
<1>9. CASE ZeroTails
  BY <1>9 DEF ZeroTails, Put, sourceVars, Step
<1>10. CASE FsyncTails
  BY <1>10 DEF FsyncTails, Fsync, Persist, sourceVars, Step
<1>11. CASE CopySector
  BY <1>11 DEF CopySector, Put
<1>12. CASE CopyDone
  BY <1>12 DEF CopyDone, sourceVars, targetVars, Step
<1>13. CASE CheckDigest
  BY <1>13 DEF CheckDigest, SourceUnchanged, sourceVars, targetVars, Step
<1>14. CASE FsyncBody
  BY <1>14 DEF FsyncBody, Fsync, Persist, sourceVars, Step
<1>15. CASE FlushBody
  BY <1>15 DEF FlushBody, FlushBuffers, Persist, sourceVars, Step
<1>16. CASE VerifyInactive
  BY <1>16 DEF VerifyInactive, MayRead, sourceVars, targetVars, Step, DeactivationRegions
<1>17. CASE CheckIdentity
  BY <1>17 DEF CheckIdentity, SameGeneration, sourceVars, targetVars, Step
<1>18. CASE WriteSourceTail
  BY <1>18 DEF WriteSourceTail, Put, sourceVars, Step
<1>19. CASE FsyncSourceTail
  BY <1>19 DEF FsyncSourceTail, Fsync, Persist, sourceVars, Step
<1>20. CASE WriteFront
  BY <1>20 DEF WriteFront, Put, sourceVars, Step
<1>21. CASE FsyncActivation
  BY <1>21 DEF FsyncActivation, Fsync, Persist, sourceVars, Step
<1>22. CASE FlushActivation
  BY <1>22 DEF FlushActivation, FlushBuffers, Persist, sourceVars, Step
<1>23. CASE VerifyActive
  BY <1>23 DEF VerifyActive, MayRead, sourceVars, targetVars, Step
<1>24. CASE FinalIdentity
  BY <1>24 DEF FinalIdentity, SameGeneration, SourceUnchanged, sourceVars, targetVars, Step
<1>25. CASE StepFails
  BY <1>25 DEF StepFails, Put, Handler, BeingWritten, Payload, sourceVars
<1>26. CASE FsyncFails
  BY <1>26 DEF FsyncFails, LoseDirty, Handler, sourceVars
<1>27. CASE SkipDeactivation
  BY <1>27 DEF SkipDeactivation, sourceVars, targetVars, Step
<1>28. CASE BeginDeactivation
  BY <1>28 DEF BeginDeactivation, SameGeneration, sourceVars, targetVars, Step
<1>29. CASE ZeroRawRegions
  BY <1>29 DEF ZeroRawRegions, Put, sourceVars, Step, DeactivationRegions
<1>30. CASE FsyncDeactivation
  BY <1>30 DEF FsyncDeactivation, Fsync, Persist, sourceVars, Step
<1>31. CASE FlushDeactivation
  BY <1>31 DEF FlushDeactivation, FlushBuffers, Persist, sourceVars, Step
<1>32. CASE WriteBack
  BY <1>32 DEF WriteBack, WriteBackSector, Persist, sourceVars
<1>33. CASE PowerLoss
  BY <1>33 DEF PowerLoss, LosePower, sourceVars
<1>34. CASE Kill
  BY <1>34 DEF Kill, sourceVars, targetVars
<1>35. CASE SourceChanges
  BY <1>35 DEF SourceChanges, targetVars
<1>36. CASE MediumReplaced
  BY <1>36 DEF MediumReplaced, sourceVars, targetVars
<1>37. CASE UNCHANGED vars
  BY <1>37 DEF vars
<1>38. QED
  BY <1>1, <1>2, <1>3, <1>4, <1>5, <1>6, <1>7, <1>8, <1>9, <1>10, <1>11, <1>12, <1>13, <1>14, <1>15, <1>16, <1>17, <1>18, <1>19, <1>20, <1>21, <1>22, <1>23, <1>24, <1>25, <1>26, <1>27, <1>28, <1>29, <1>30, <1>31, <1>32, <1>33, <1>34, <1>35, <1>36, <1>37 DEF Next, Helper, Environment

\* The invariant holds in every reachable state.
THEOREM Inductive == Spec => []IInv
<1>1. Init => IInv
  BY InitInv
<1>2. IInv /\ [Next]_vars => IInv'
  BY StepInv
<1>3. QED
  BY <1>1, <1>2, PTL DEF Spec

-----------------------------------------------------------------------------
(* What a reader should know of. *)

\* Every variable keeps its type, for every geometry.
THEOREM TypeCorrect == Spec => []TypeOK
<1>1. IInv => TypeOK
  BY DEF IInv
<1>2. QED
  BY <1>1, Inductive, PTL

\* A power cut, a SIGKILL or an I/O error at any moment leaves new metadata only
\* over a complete body and never beside old metadata, on any medium.  Old metadata
\* is left only over the untouched body, and the front of the image only after its
\* tail, but for sectors that dropped a write they had acknowledged.
THEOREM CrashConsistency == Spec => []CrashSafe
<1>1. IInv => CrashSafe
  BY DEF IInv
<1>2. QED
  BY <1>1, Inductive, PTL

\* A reported success is a complete durable image on the authorized disk.
THEOREM Durability == Spec => []SuccessIsDurable
<1>1. IInv => SuccessIsDurable
  <2> SUFFICES ASSUME IInv, pc = "success" PROVE Complete /\ dirty = {} /\ alien = {}
    BY DEF SuccessIsDurable
  <2>1. Complete
    BY DEF IInv, EndStates, ActiveDone
  <2>2. dirty = {}
    BY DEF IInv, TypeOK, DeviceTypeOK, Bookkeeping, CacheDropped
  <2>3. alien = {}
    BY DEF IInv, Bookkeeping, SuccessGenuine, GenuineAlien
  <2>4. QED
    BY <2>1, <2>2, <2>3
<1>2. QED
  BY <1>1, Inductive, PTL

\* A refused or cancelled request has written nothing, here or elsewhere.
THEOREM Refusal == Spec => []RefusedIsUntouched
<1>1. IInv => RefusedIsUntouched
  BY DEF IInv, Quarantine, UntouchedBefore, Before, RefusedIsUntouched
<1>2. QED
  BY <1>1, Inductive, PTL

\* An emergency deactivation that went through leaves zeroes in both regions, but for
\* sectors that did not keep them: nothing reads them back.
THEOREM Deactivation == Spec => []DeactivatedIsInert
<1>1. IInv => DeactivatedIsInert
  BY Regions DEF IInv, TypeOK, DeviceTypeOK, Bookkeeping, CacheDropped, EndStates, RegionsZeroed,
    DeactivatedIsInert, Genuine
<1>2. QED
  BY <1>1, Inductive, PTL

\* Success and refusal are true of any medium, deactivation of each of its sectors that
\* keeps what it acknowledges.
THEOREM Reports == Spec => []ReportIsTrue
<1>1. SuccessIsDurable /\ RefusedIsUntouched /\ DeactivatedIsInert => ReportIsTrue
  BY DEF ReportIsTrue
<1>2. QED
  BY <1>1, Durability, Refusal, Deactivation, PTL

\* A medium exchanged in time gets no write, or no activation.
THEOREM Replacement == Spec => []ReplacementIsSpared
<1>1. IInv => ReplacementIsSpared
  BY DEF IInv, Quarantine, EarlySwap, SwapUnarmed, ReplacementIsSpared
<1>2. QED
  BY <1>1, Inductive, PTL

-----------------------------------------------------------------------------
(* The transaction implements the abstract medium. *)

\* With nothing dirty, writing back changes nothing.
LEMMA NothingToPersist == ASSUME TypeOK, Persist({}) PROVE dur' = dur
BY DEF Persist, TypeOK, DeviceTypeOK

\* What a step can do to the medium and to the outcome at once.
LEMMA StepShape ==
  ASSUME IInv, [Next]_vars
  PROVE  /\ dur' = dur \/ \E S \in SUBSET dirty : Persist(S)
         /\ weak' = weak
         /\ pc' # pc => pc \in Running
         /\ pc' # pc /\ dur' # dur => pc' \in Running
<1> USE DEF Running, PreCommit, Deactivating, Step, Put, Fsync, FlushBuffers, targetVars
<1>1. CASE FlushDeactivation
  <2>1. dirty = {}
    BY <1>1 DEF FlushDeactivation, IInv, EndStates, DeactivationSynced
  <2>2. dur' = dur
    BY <1>1, <2>1, NothingToPersist DEF FlushDeactivation, IInv
  <2>3. QED
    BY <1>1, <2>2 DEF FlushDeactivation
<1>2. CASE ValidateSource \/ ReadGuards \/ OpenTarget \/ Commit \/ Cancel \/ RecheckAfterCommit
  BY <1>2 DEF ValidateSource, ReadGuards, OpenTarget, Commit, Cancel, RecheckAfterCommit
<1>3. CASE ZeroFront \/ FsyncFront \/ ZeroTails \/ FsyncTails \/ CopySector \/ CopyDone \/ CheckDigest
  BY <1>3 DEF ZeroFront, FsyncFront, ZeroTails, FsyncTails, CopySector, CopyDone, CheckDigest
<1>4. CASE FsyncBody \/ FlushBody \/ VerifyInactive \/ CheckIdentity
  BY <1>4 DEF FsyncBody, FlushBody, VerifyInactive, CheckIdentity
<1>5. CASE WriteSourceTail \/ FsyncSourceTail \/ WriteFront \/ FsyncActivation \/ FlushActivation
  BY <1>5 DEF WriteSourceTail, FsyncSourceTail, WriteFront, FsyncActivation, FlushActivation
<1>6. CASE VerifyActive \/ FinalIdentity \/ StepFails \/ FsyncFails
  BY <1>6 DEF VerifyActive, FinalIdentity, StepFails, FsyncFails, LoseDirty
<1>7. CASE SkipDeactivation \/ BeginDeactivation \/ ZeroRawRegions \/ FsyncDeactivation
  BY <1>7 DEF SkipDeactivation, BeginDeactivation, ZeroRawRegions, FsyncDeactivation
<1>8. CASE Environment
  BY <1>8 DEF Environment, WriteBack, WriteBackSector, PowerLoss, LosePower, Kill, SourceChanges, MediumReplaced
<1>9. CASE UNCHANGED vars
  BY <1>9 DEF vars
<1>10. QED
  BY <1>1, <1>2, <1>3, <1>4, <1>5, <1>6, <1>7, <1>8, <1>9 DEF Next, Helper

\* What one sector holds after sectors have reached the medium.
LEMMA Persisted ==
  ASSUME TypeOK, NEW S \in SUBSET dirty, Persist(S), NEW b \in Blocks
  PROVE  dur'[b] = dur[b] \/ (Genuine /\ b \in S /\ dur'[b] \in {"bad", page[b]})
BY DEF Persist, Genuine, TypeOK, DeviceTypeOK

\* No step brings old content back, and none puts new metadata beside old.
LEMMA OldIsGone ==
  ASSUME IInv, IInv', [Next]_vars
  PROVE  /\ \A b \in Blocks : dur'[b] = "old" => dur[b] = "old"
         /\ FrontOld => ~FrontNew'
<1>1. \A b \in Blocks :
        dur'[b] = dur[b] \/ (Genuine /\ b \in dirty /\ dur'[b] \in {"bad", page[b]})
  BY StepShape, Persisted DEF IInv
<1>2. \A b \in dirty : page[b] # "old"
  BY DEF IInv, TypeOK, DeviceTypeOK, Content
<1>3. \A b \in Blocks : dur'[b] = "old" => dur[b] = "old"
  BY <1>1, <1>2
<1>4. FrontOld => ~FrontNew'
  BY <1>1, Regions DEF IInv, BodyOrder, NeverMixed, FrontArmed, FrontOld, FrontNew
<1>5. QED
  BY <1>3, <1>4

\* A view is determined by what front guard and body hold.
Intact == \A b \in Blocks : dur[b] = "old"
OldView == IF Intact THEN "intact" ELSE IF BodyOld THEN "opened" ELSE "stale"

LEMMA ViewCases ==
  ASSUME IInv
  PROVE  /\ FrontOld => View = OldView
         /\ ~FrontOld /\ ~FrontNew => View = "inert"
         /\ ~FrontOld /\ FrontNew => View = IF Complete THEN "active" ELSE "arming"
<1> USE Regions DEF View, OldView, Intact, FrontOld, FrontNew
<1>1. (FrontOld => ~FrontNew) /\ (FrontNew => BodyNew)
  BY DEF IInv, CrashSafe, ActivationFollowsBody, OldMetadataFollowsBody
<1>2. (Complete => FrontNew) /\ (Intact => BodyOld /\ FrontOld)
  BY DEF Complete, BodyOld
<1>3. QED
  BY <1>1, <1>2

\* The medium moves along the edges of the abstract machine, those of a medium
\* that drops writes included if it has weak sectors.
LEMMA ViewStep ==
  ASSUME IInv, IInv', [Next]_vars
  PROVE  \/ View' = View
         \/ <<View, View'>> \in Activation!Edges
         \/ weak # {} /\ <<View, View'>> \in Activation!StaleEdges
<1>1. (FrontOld' => FrontOld) /\ (Intact' => Intact) /\ (BodyOld' => BodyOld)
      /\ (FrontOld => ~FrontNew')
  BY OldIsGone, Regions DEF Intact, FrontOld, BodyOld
<1>2. ~FrontOld => View \in {"inert", "arming", "active"}
  BY ViewCases
<1>3. /\ FrontOld' => View' = OldView'
      /\ ~FrontOld' /\ ~FrontNew' => View' = "inert"
      /\ ~FrontOld' /\ FrontNew' => View' \in {"active", "arming"}
  <2>1. (FrontOld' => ~FrontNew') /\ (FrontNew' => BodyNew')
    BY DEF IInv, CrashSafe, ActivationFollowsBody, OldMetadataFollowsBody
  <2>2. (Complete' => FrontNew') /\ (Intact' => BodyOld' /\ FrontOld')
    BY Regions DEF Complete, FrontNew, FrontOld, BodyOld, Intact
  <2>3. QED
    BY <2>1, <2>2, Regions DEF View, OldView, Intact, FrontOld, FrontNew
<1>4. FrontOld' /\ ~BodyOld' => weak # {}
  BY StepShape DEF IInv, CrashSafe, OldMetadataFollowsBody, FrontOld
<1>5. CASE FrontOld
  <2>1. Intact => BodyOld
    BY Regions DEF Intact, BodyOld
  <2>2. View = OldView
    BY <1>5, ViewCases
  <2>3. CASE FrontOld'
    BY <1>1, <1>3, <1>4, <2>1, <2>2, <2>3 DEF OldView, Activation!Edges, Activation!StaleEdges
  <2>4. CASE ~FrontOld'
    <3>1. View' = "inert"
      BY <1>1, <1>3, <1>5, <2>4
    <3>2. QED
      BY <1>5, <2>1, <2>2, <3>1, StepShape
         DEF OldView, Activation!Edges, Activation!StaleEdges, IInv, CrashSafe,
             OldMetadataFollowsBody, FrontOld
  <2>5. QED
    BY <2>3, <2>4
<1>6. CASE ~FrontOld
  BY <1>1, <1>2, <1>3, <1>6 DEF Activation!Edges
<1>7. QED
  BY <1>5, <1>6

\* After a success or a refusal there is nothing left that could reach a medium.
LEMMA FinishedIsStill ==
  ASSUME IInv, IInv', [Next]_vars, View' # View
  PROVE  Outcome \in {"running", "failed"}
<1>1. dur' # dur
  BY DEF View, FrontOld, FrontNew, BodyOld, BodyNew, Complete
<1>2. dirty # {}
  BY <1>1, StepShape, NothingToPersist DEF IInv
<1>3. pc \notin {"success", "cancelled", "refused"}
  BY <1>2 DEF IInv, TypeOK, DeviceTypeOK, Bookkeeping, CacheDropped, Quarantine, UntouchedBefore, Before
<1>4. QED
  BY <1>3 DEF Outcome

\* What the caller is told is true when it is told.
LEMMA OutcomeStep ==
  ASSUME IInv, IInv', [Next]_vars
  PROVE  \/ Outcome' = Outcome
         \/ Outcome = "running" /\ Outcome' = "failed" /\ View' = View
         \/ Outcome = "running" /\ Outcome' = "succeeded" /\ View = "active" /\ View' = View
         \/ Outcome = "running" /\ Outcome' = "untouched" /\ View = "intact" /\ View' = View
<1>1. CASE pc' = pc
  BY <1>1 DEF Outcome
<1>2. CASE pc' # pc /\ pc \in Running /\ dur' = dur
  <2>1. View' = View
    BY <1>2 DEF View, FrontOld, FrontNew, BodyOld, BodyNew, Complete
  <2>2. pc' = "success" => View = "active"
    <3> SUFFICES ASSUME pc' = "success" PROVE View' = "active"
      BY <2>1
    <3>1. Complete'
      BY DEF IInv, EndStates, ActiveDone
    <3>2. FrontNew' /\ ~FrontOld'
      BY <3>1, Regions DEF Complete, FrontNew, IInv, BodyOrder, NeverMixed
    <3>3. QED
      BY <3>1, <3>2, Regions DEF View, FrontNew, FrontOld
  <2>3. pc' \in {"cancelled", "refused"} => View = "intact"
    <3> SUFFICES ASSUME pc' \in {"cancelled", "refused"} PROVE View' = "intact"
      BY <2>1
    <3>1. QED
      BY Regions
         DEF IInv, Quarantine, UntouchedBefore, Before, View, FrontOld, FrontNew, BodyOld, Complete
  <2>4. QED
    BY <1>2, <2>1, <2>2, <2>3 DEF Outcome, Running, PreCommit, Deactivating
<1>3. CASE pc' # pc /\ dur' # dur
  <2>1. pc \in Running /\ pc' \in Running
    BY <1>3, StepShape
  <2>2. QED
    BY <2>1 DEF Outcome, Running, PreCommit, Deactivating
<1>4. QED
  BY <1>1, <1>2, <1>3, StepShape

\* The detailed transaction implements the abstract medium, for every geometry: old
\* metadata stays over an overwritten body on an unreliable medium only.
THEOREM Refinement == Spec => ImplementsActivation
<1>1. Init => Activation!Init
  <2> SUFFICES ASSUME Init PROVE Activation!Init
    OBVIOUS
  <2>1. View = "intact" /\ Outcome = "running"
    BY Regions DEF Init, View, Outcome, FrontOld, FrontNew, BodyOld, Complete, Running, PreCommit
  <2>2. (weak = {}) \in BOOLEAN
    OBVIOUS
  <2>3. QED
    BY <2>1, <2>2 DEF Activation!Init
<1>2. IInv /\ IInv' /\ [Next]_vars => [Activation!Next]_(Activation!vars)
  <2> SUFFICES ASSUME IInv, IInv', [Next]_vars PROVE [Activation!Next]_(Activation!vars)
    OBVIOUS
  <2>0. weak' = weak
    BY StepShape
  <2>1. CASE Outcome' = Outcome
    <3>1. CASE View' = View
      BY <2>0, <2>1, <3>1 DEF Activation!vars
    <3>2. CASE View' # View
      <4>1. \/ <<View, View'>> \in Activation!Edges
            \/ weak # {} /\ <<View, View'>> \in Activation!StaleEdges
        BY <3>2, ViewStep
      <4>2. Outcome \in {"running", "failed"}
        BY <3>2, FinishedIsStill
      <4>3. QED
        BY <2>0, <2>1, <4>1, <4>2 DEF Activation!Next, Activation!MediumMoves
    <3>3. QED
      BY <3>1, <3>2
  <2>2. CASE Outcome' # Outcome
    BY <2>0, <2>2, OutcomeStep
       DEF Activation!Next, Activation!Succeed, Activation!Refuse, Activation!Fail, Activation!Tells
  <2>3. QED
    BY <2>1, <2>2
<1>3. QED
  BY <1>1, <1>2, Inductive, PTL DEF Spec, ImplementsActivation, Activation!Spec
=============================================================================
