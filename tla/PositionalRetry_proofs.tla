------------------------- MODULE PositionalRetry_proofs -------------------------
(***************************************************************************)
(* Proofs about PositionalRetry: whatever the length of the data, the      *)
(* bound on the calls, the delays and the deadline, no retrying writer     *)
(* misplaces a byte, reports a complete transfer as a failure, calls the   *)
(* kernel more often than its policy allows, or makes a second call after  *)
(* a cancellation or a deadline; and none of them repeats a call on a      *)
(* medium that was exchanged since the transient error.                    *)
(***************************************************************************)
EXTENDS PositionalRetry, TLAPS

Primitive == {"descriptor", "reader"}

RetryTypeOK ==
  /\ IoTypeOK
  /\ writer \in {"helper", "restore"} \union Primitive
  /\ left \in Nat /\ interrupts \in Nat
  /\ pending \in BOOLEAN /\ clock \in 0..Deadline /\ until \in 0..Deadline /\ overdue \in Nat
  /\ writer \in Primitive /\ pc = "backoff" => stalls > 0

\* What has arrived is the prefix that was counted; only the loop sees a complete one.
Placed ==
  /\ \A p \in Positions : bytes[p] \in {0, p}
  /\ pc # "failed" => \A p \in Positions : bytes[p] = IF p <= written THEN p ELSE 0
  /\ pc = "done" => written = Length
  /\ pc \notin {"loop", "done"} => written < Length

\* An exchange between the error and the repetition leaves no way to the next call: the
\* primitive passes its loop once more, but remembers that it repeats.
OnTheWayToTheGuard ==
  \/ pc \in Retrying \union Ended
  \/ writer \in Primitive /\ pc \in {"loop", "budget"} /\ pending

Guarded ==
  /\ swap = "none" => alien = {}
  /\ swap \in Retrying => alien = {} /\ OnTheWayToTheGuard

\* A retry unit of the helper: each stall allows one more call.
HelperCounts ==
  writer = "helper" =>
    /\ calls <= MaxSyscalls + stalls
    /\ pc \in {"call", "cancel-eintr", "wait", "cancel-wait", "guard-before"} =>
         calls < MaxSyscalls + stalls

\* Between two steps of progress of the restore: one call for each interruption and each
\* stall that was counted, and the one whose error was not counted yet.
RestoreCounts ==
  writer = "restore" =>
    /\ interrupts < MaxSyscalls
    /\ calls <= interrupts + stalls + 1
    /\ pc \in {"loop", "call", "wait", "guard-before"} => calls <= interrupts + stalls

PrimitiveCounts == writer \in Primitive => calls <= MaxSyscalls

\* Where a writer cannot be any more after a call that came too late: every way from there
\* to the next call passes a cancel_check, or a look at the clock.
CancelHeard ==
  /\ late <= 1
  /\ ~cancelled => late = 0
  /\ writer = "restore" => ~cancelled
  /\ late = 1 /\ writer = "helper" => pc \notin {"cancel-wait", "guard-before", "call"}
  /\ late = 1 /\ writer \in Primitive =>
       pc \in {"loop", "budget", "cancel-eintr", "cancel-eagain"} \union Ended

DeadlineHeard ==
  /\ overdue <= 1
  /\ writer \notin Primitive => overdue = 0
  /\ overdue = 1 =>
       /\ clock = Deadline
       /\ pc \notin {"cancel-before", "guard-before", "call", "wait", "woken"}

Counted == HelperCounts /\ RestoreCounts /\ PrimitiveCounts
Stopped == CancelHeard /\ DeadlineHeard

IInv == RetryTypeOK /\ Placed /\ Guarded /\ Counted /\ Stopped

-----------------------------------------------------------------------------
(* Every step preserves it, writer by writer. *)

\* A wait is a number of slices.
LEMMA Waits == MaxStalls \in Nat /\ \A n \in 1..MaxStalls : Delays[n] \in Nat
BY PolicyAssumption DEF MaxStalls

LEMMA InitInv == RetryInit => IInv
<1> SUFFICES ASSUME RetryInit PROVE IInv
  OBVIOUS
<1> USE PolicyAssumption, Waits
    DEF RetryInit, HelperInit, RestoreInit, Descriptor!Init, IoInit,
        Descriptor!IoInit, Positions, Descriptor!Positions, Primitive
<1>1. cancelled \in BOOLEAN /\ pending \in BOOLEAN
  BY Zenon
<1>2. RetryTypeOK
  BY <1>1 DEF RetryTypeOK, IoTypeOK, Control
<1>3. Placed
  BY DEF Placed
<1>4. Guarded
  BY DEF Guarded, Retrying
<1>5. Counted /\ Stopped
  BY DEF Counted, HelperCounts, RestoreCounts, PrimitiveCounts, Stopped, CancelHeard,
         DeadlineHeard
<1>6. QED
  BY <1>2, <1>3, <1>4, <1>5 DEF IInv

\* The writer of the device helper.
LEMMA HelperStep ==
  ASSUME IInv, HelperSteps
  PROVE  IInv'
<1> USE PolicyAssumption, Waits DEF IInv, RetryTypeOK, IoTypeOK, Control, Primitive, Placed,
    Guarded, OnTheWayToTheGuard,
    Retrying, Ended, Positions, MaxStalls,
    Counted, HelperCounts, RestoreCounts, PrimitiveCounts, Stopped, CancelHeard, DeadlineHeard,
    HelperSteps, restoreVars, descriptorVars
<1>1. CASE HelperWriteLoop
  BY <1>1 DEF HelperWriteLoop, Unchanged, mediumVars
<1>2. CASE EnterUnit
  BY <1>2 DEF EnterUnit, CheckCancel, mediumVars
<1>3. CASE HelperCallSucceeds
  BY <1>3 DEF HelperCallSucceeds, Returns, Call,
    Accept, Land, Positions
<1>4. CASE HelperCallFails
  BY <1>4 DEF HelperCallFails, Returns, Call,
    AmbiguousError, Land, Positions
<1>5. CASE HelperCallInterrupted
  BY <1>5 DEF HelperCallInterrupted, Returns, Call,
    mediumVars
<1>6. CASE HelperCallStalls
  BY <1>6 DEF HelperCallStalls, Returns, Call,
    mediumVars
<1>7. CASE HelperGuardInterrupted
  BY <1>7 DEF HelperGuardInterrupted, Guard, Unchanged,
    mediumVars
<1>8. CASE CheckInterrupted
  BY <1>8 DEF CheckInterrupted, CheckCancel, Unchanged,
    mediumVars
<1>9. CASE HelperGuardStalled
  <2> USE <1>9 DEF HelperGuardStalled, Guard, MaxStalls,
    mediumVars
  <2>1. RetryTypeOK'
    OBVIOUS
  <2>2. Placed' /\ Guarded'
    OBVIOUS
  <2>3. Counted' /\ Stopped'
    OBVIOUS
  <2>4. QED
    BY <2>1, <2>2, <2>3
<1>10. CASE WaitForRetry
  BY <1>10 DEF WaitForRetry, CheckCancel, mediumVars
<1>11. CASE CheckWaited
  BY <1>11 DEF CheckWaited, CheckCancel, Unchanged,
    mediumVars
<1>12. CASE HelperGuardBefore
  BY <1>12 DEF HelperGuardBefore, Guard, Unchanged,
    mediumVars
<1>13. CASE HelperEnvironment
  <2>1. CASE UserCancels
  BY <1>13, <2>1 DEF HelperEnvironment, UserCancels, mediumVars
  <2>2. CASE MediumReplaced
  BY <1>13, <2>2 DEF HelperEnvironment, MediumReplaced, mediumVars,
      Ended
  <2>3. QED
  BY <1>13, <2>1, <2>2 DEF HelperEnvironment
<1>14. QED
  BY <1>1, <1>2, <1>3, <1>4, <1>5, <1>6, <1>7, <1>8, <1>9, <1>10, <1>11, <1>12, <1>13
    DEF HelperNext, HelperWriter

\* The writer of the restore helper.
LEMMA RestoreStep ==
  ASSUME IInv, RestoreSteps
  PROVE  IInv'
<1> USE PolicyAssumption, Waits DEF IInv, RetryTypeOK, IoTypeOK, Control, Primitive, Placed,
    Guarded, OnTheWayToTheGuard,
    Retrying, Ended, Positions, MaxStalls,
    Counted, HelperCounts, RestoreCounts, PrimitiveCounts, Stopped, CancelHeard, DeadlineHeard,
    RestoreSteps, helperVars, descriptorVars
<1>1. CASE RestoreWriteLoop
  BY <1>1 DEF RestoreWriteLoop, mediumVars
<1>2. CASE RestoreCallSucceeds
  BY <1>2 DEF RestoreCallSucceeds, Call, Accept, Land,
    Positions
<1>3. CASE RestoreCallFails
  BY <1>3 DEF RestoreCallFails, Call, AmbiguousError,
    Land, Positions
<1>4. CASE RestoreCallInterrupted
  BY <1>4 DEF RestoreCallInterrupted, Transient, Call,
    mediumVars
<1>5. CASE RestoreCallStalls
  BY <1>5 DEF RestoreCallStalls, Transient, Call,
    mediumVars
<1>6. CASE RestoreGuardInterrupted
  BY <1>6 DEF RestoreGuardInterrupted, Guard, mediumVars
<1>7. CASE RestoreGuardStalled
  <2> USE <1>7 DEF RestoreGuardStalled, Guard, MaxStalls,
    mediumVars
  <2>1. RetryTypeOK'
    OBVIOUS
  <2>2. Placed' /\ Guarded'
    OBVIOUS
  <2>3. Counted' /\ Stopped'
    OBVIOUS
  <2>4. QED
    BY <2>1, <2>2, <2>3
<1>8. CASE Wait
  BY <1>8 DEF Wait, mediumVars
<1>9. CASE RestoreGuardBefore
  BY <1>9 DEF RestoreGuardBefore, Guard, mediumVars
<1>10. CASE RestoreEnvironment
  BY <1>10 DEF RestoreEnvironment, MediumReplaced, mediumVars,
    Ended
<1>11. QED
  BY <1>1, <1>2, <1>3, <1>4, <1>5, <1>6, <1>7, <1>8, <1>9, <1>10 DEF
    RestoreNext, RestoreWriter

\* The writer and the reader of the primitive.
LEMMA PrimitiveStep ==
  ASSUME IInv, DescriptorSteps \/ ReaderSteps
  PROVE  IInv'
<1> USE PolicyAssumption, Waits DEF IInv, RetryTypeOK, IoTypeOK, Control, Primitive, Placed,
    Guarded, OnTheWayToTheGuard,
    Retrying, Ended, Positions, MaxStalls,
    Counted, HelperCounts, RestoreCounts, PrimitiveCounts, Stopped, CancelHeard, DeadlineHeard,
    DescriptorSteps, ReaderSteps, helperVars, restoreVars
<1>1. CASE Descriptor!WriteLoop
  BY <1>1 DEF Descriptor!WriteLoop, Descriptor!Unchanged, Descriptor!mediumVars
<1>2. CASE Descriptor!Budget
  BY <1>2 DEF Descriptor!Budget, Descriptor!RequireBudget, Descriptor!Refresh,
    Descriptor!CheckCancel, Descriptor!Unchanged, Descriptor!mediumVars
<1>3. CASE Descriptor!CancelBefore
  BY <1>3 DEF Descriptor!CancelBefore, Descriptor!Cancel, Descriptor!CheckCancel,
    Descriptor!Unchanged, Descriptor!mediumVars
<1>4. CASE Descriptor!GuardBefore
    <2> USE <1>4 DEF Descriptor!GuardBefore, Descriptor!Guard, Descriptor!Refresh,
    Descriptor!Unchanged, Descriptor!mediumVars
  <2>1. pending' \in BOOLEAN
    BY Zenon
  <2>2. RetryTypeOK'
    BY <2>1, SMTT(30)
  <2>3. Placed' /\ Guarded'
    OBVIOUS
  <2>4. Counted' /\ Stopped'
    OBVIOUS
  <2>5. QED
    BY <2>2, <2>3, <2>4
<1>5. CASE Descriptor!BoundExceeded
  BY <1>5 DEF Descriptor!BoundExceeded, Descriptor!Unchanged, Descriptor!mediumVars
<1>6. CASE Descriptor!CallSucceeds
  BY <1>6 DEF Descriptor!CallSucceeds, Descriptor!Returns, Descriptor!Refresh,
    Descriptor!Call, Descriptor!Accept, Descriptor!Land, Descriptor!Positions
<1>7. CASE Descriptor!CallFails
  BY <1>7 DEF Descriptor!CallFails, Descriptor!Returns, Descriptor!Refresh,
    Descriptor!Call, Descriptor!AmbiguousError, Descriptor!Land, Descriptor!Positions
<1>8. CASE Descriptor!ReadFails
  BY <1>8 DEF Descriptor!ReadFails, Descriptor!Returns, Descriptor!Refresh,
    Descriptor!Call, Descriptor!mediumVars
<1>9. CASE Descriptor!CallInterrupted
  BY <1>9 DEF Descriptor!CallInterrupted, Descriptor!Returns, Descriptor!Refresh,
    Descriptor!Call, Descriptor!mediumVars
<1>10. CASE Descriptor!CallStalls
  BY <1>10 DEF Descriptor!CallStalls, Descriptor!Returns, Descriptor!Refresh,
    Descriptor!Call, Descriptor!mediumVars
<1>11. CASE Descriptor!CancelInterrupted
  BY <1>11 DEF Descriptor!CancelInterrupted, Descriptor!Cancel,
    Descriptor!CheckCancel, Descriptor!Unchanged, Descriptor!mediumVars
<1>12. CASE Descriptor!GuardInterrupted
  <2> USE <1>12 DEF Descriptor!GuardInterrupted, Descriptor!Guard, Descriptor!Refresh,
    Descriptor!Unchanged, Descriptor!mediumVars
  <2>1. RetryTypeOK'
    OBVIOUS
  <2>2. Placed' /\ Guarded'
    OBVIOUS
  <2>3. Counted' /\ Stopped'
    OBVIOUS
  <2>4. QED
    BY <2>1, <2>2, <2>3
<1>13. CASE Descriptor!CancelStalled
  BY <1>13 DEF Descriptor!CancelStalled, Descriptor!Cancel, Descriptor!CheckCancel,
    Descriptor!Unchanged, Descriptor!mediumVars
<1>14. CASE Descriptor!GuardStalled
  <2> USE <1>14 DEF Descriptor!GuardStalled, Descriptor!Guard, Descriptor!Refresh,
    Descriptor!MaxStalls, Descriptor!mediumVars
  <2>1. RetryTypeOK'
    OBVIOUS
  <2>2. Placed' /\ Guarded'
    OBVIOUS
  <2>3. Counted' /\ Stopped'
    OBVIOUS
  <2>4. QED
    BY <2>1, <2>2, <2>3
<1>15. CASE Descriptor!Backoff
    <2> USE <1>15 DEF Descriptor!Backoff, Descriptor!RequireBudget, Descriptor!Refresh,
    Descriptor!CheckCancel, Descriptor!mediumVars
  <2>1. until' \in 0..Deadline
    <3>1. Delays[stalls] \in Nat
      <4>1. stalls \in 1..MaxStalls
        OBVIOUS
      <4>2. QED
        BY <4>1
    <3>2. clock' \in 0..Deadline
      OBVIOUS
    <3>3. QED
      BY <3>1, <3>2
  <2>2. RetryTypeOK'
    BY <2>1, SMTT(30)
  <2>3. Placed' /\ Guarded'
    OBVIOUS
  <2>4. Counted' /\ Stopped'
    OBVIOUS
  <2>5. QED
    BY <2>2, <2>3, <2>4
<1>16. CASE Descriptor!WaitSlice
  <2> USE <1>16 DEF Descriptor!WaitSlice, Descriptor!CheckCancel, Descriptor!Unchanged,
    Descriptor!mediumVars
  <2>1. RetryTypeOK'
    OBVIOUS
  <2>2. Placed' /\ Guarded'
    OBVIOUS
  <2>3. Counted' /\ Stopped'
    OBVIOUS
  <2>4. QED
    BY <2>1, <2>2, <2>3
<1>17. CASE Descriptor!Woken
  <2> USE <1>17 DEF Descriptor!Woken, Descriptor!Cancel, Descriptor!CheckCancel,
    Descriptor!Unchanged, Descriptor!mediumVars
  <2>1. RetryTypeOK'
    OBVIOUS
  <2>2. Placed' /\ Guarded'
    OBVIOUS
  <2>3. Counted' /\ Stopped'
    OBVIOUS
  <2>4. QED
    BY <2>1, <2>2, <2>3
<1>18. CASE Descriptor!Waited
  <2> USE <1>18 DEF Descriptor!Waited, Descriptor!Unchanged, Descriptor!mediumVars
  <2>1. RetryTypeOK'
    OBVIOUS
  <2>2. Placed' /\ Guarded'
    OBVIOUS
  <2>3. Counted' /\ Stopped'
    OBVIOUS
  <2>4. QED
    BY <2>1, <2>2, <2>3
<1>19. CASE Descriptor!Environment
  <2>1. CASE Descriptor!UserCancels
  BY <1>19, <2>1 DEF Descriptor!Environment, Descriptor!UserCancels, Descriptor!mediumVars
  <2>2. CASE Descriptor!MediumReplaced
  BY <1>19, <2>2 DEF Descriptor!Environment, Descriptor!MediumReplaced, Descriptor!mediumVars,
      Descriptor!Ended
  <2>3. QED
  BY <1>19, <2>1, <2>2 DEF Descriptor!Environment
<1>20. QED
  BY <1>1, <1>2, <1>3, <1>4, <1>5, <1>6, <1>7, <1>8, <1>9, <1>10, <1>11, <1>12, <1>13,
    <1>14, <1>15, <1>16, <1>17, <1>18, <1>19 DEF Descriptor!Next, Descriptor!ReadNext,
    Descriptor!Writer, Descriptor!Reader

LEMMA StepInv == IInv /\ [RetryNext]_retryVars => IInv'
<1> SUFFICES ASSUME IInv, [RetryNext]_retryVars PROVE IInv'
  OBVIOUS
<1>1. CASE UNCHANGED retryVars
  BY <1>1 DEF retryVars, ioVars, helperVars, restoreVars, descriptorVars, IInv, RetryTypeOK, IoTypeOK,
    Placed, Guarded, OnTheWayToTheGuard, Counted, HelperCounts, RestoreCounts, PrimitiveCounts,
    Stopped, CancelHeard, DeadlineHeard
<1>2. QED
  BY <1>1, HelperStep, RestoreStep, PrimitiveStep DEF RetryNext

\* The invariant holds in every reachable state.
THEOREM Inductive == RetrySpec => []IInv
<1>1. RetryInit => IInv
  BY InitInv
<1>2. IInv /\ [RetryNext]_retryVars => IInv'
  BY StepInv
<1>3. QED
  BY <1>1, <1>2, PTL DEF RetrySpec

-----------------------------------------------------------------------------
(* What a reader should know of. *)

\* Every variable of the three retry loops keeps its type, for every policy.
THEOREM TypeCorrect == RetrySpec => []RetryTypeOK
<1>1. IInv => RetryTypeOK
  BY DEF IInv
<1>2. QED
  BY <1>1, Inductive, PTL

\* No byte is skipped or misplaced, a complete transfer is never a failure, and the bounds on
\* the calls (in the helpers the stalls come on top of MaxSyscalls), the cancellation and the
\* deadline are kept, for every length and every policy.
THEOREM Transfer == RetrySpec => []TransferIsTrue
<1>1. IInv => TransferIsTrue
  <2> SUFFICES ASSUME IInv PROVE TransferIsTrue
    OBVIOUS
  <2>1. Exact /\ CompleteIsDone
    BY PolicyAssumption DEF IInv, RetryTypeOK, IoTypeOK, Placed, Exact, CompleteIsDone
  <2>2. CallsAreBounded
    BY PolicyAssumption, Waits
      DEF IInv, RetryTypeOK, IoTypeOK, Counted, HelperCounts, RestoreCounts, PrimitiveCounts,
          Primitive, CallsAreBounded, Descriptor!CallsAreBounded,
          MaxStalls
  <2>3. StopIsHeard
    BY DEF IInv, Stopped, CancelHeard, DeadlineHeard, StopIsHeard, CancelIsHeard,
           Descriptor!DeadlineIsHeard
  <2>4. QED
    BY <2>1, <2>2, <2>3 DEF TransferIsTrue
<1>2. QED
  BY <1>1, Inductive, PTL

\* A medium that was exchanged between a transient error and the repetition gets no byte of
\* this write, by none of the three loops.
THEOREM Replacement == RetrySpec => []ReplacementIsSpared
<1>1. IInv => ReplacementIsSpared
  BY DEF IInv, Guarded, ReplacementIsSpared
<1>2. QED
  BY <1>1, Inductive, PTL
=============================================================================
