---------------------------- MODULE PositionalRetry ----------------------------
(***************************************************************************)
(* The three retrying writers and the reader side by side: one of them    *)
(* runs, and the variables of the others rest.                             *)
(*                                                                         *)
(* That of isopropyl/syslinux_device_helper.py (_write_exact over          *)
(* _pwrite_with_retry and _retry_positional_call): each call of write_at is*)
(* a retry unit of its own, which repeats pwrite after EINTR and EAGAIN    *)
(* only, with the guard after the error and before the repetition.         *)
(*                                                                         *)
(* That of isopropyl/restore_device_helper.py (_write_exact and            *)
(* _retry_after_io_error) writes after COMMIT only, hears no cancellation  *)
(* any more, and counts interruptions and stalls apart from each other     *)
(* since the last progress.  Both callers pass a retry context, so that a  *)
(* transient error is never final at once.                                 *)
(*                                                                         *)
(* Those of isopropyl/descriptor_io.py have a module of their own.         *)
(***************************************************************************)
EXTENDS PositionalIo

VARIABLES
  writer,     \* who runs
  left,       \* sleeps of _RETRY_WAIT_QUANTUM before the deadline of the helper's current wait
  interrupts, \* consecutive_eintr_attempts of the restore helper
  pending, clock, until, overdue  \* of DescriptorRetry

helperVars == left
restoreVars == interrupts
descriptorVars == <<pending, clock, until, overdue>>
retryVars == <<ioVars, writer, helperVars, restoreVars, descriptorVars>>

Descriptor == INSTANCE DescriptorRetry

-----------------------------------------------------------------------------
(* The device helper. *)

HelperInit == IoInit /\ left = 0

Unchanged == UNCHANGED <<calls, stalls, left>>

HelperWriteLoop ==
  /\ pc = "loop"
  /\ pc' = IF written = Length THEN "done" ELSE "enter"
  /\ UNCHANGED <<mediumVars, swap, cancelled, late>> /\ Unchanged

\* A retry unit begins.
EnterUnit ==
  /\ CheckCancel("enter", "call")
  /\ calls' = 0 /\ stalls' = 0
  /\ UNCHANGED left

Returns(to) == Call(to) /\ calls' = calls + 1 /\ UNCHANGED <<stalls, left>>

HelperCallSucceeds == Returns("loop") /\ Accept
HelperCallFails == Returns("failed") /\ AmbiguousError
HelperCallInterrupted == Returns("guard-eintr") /\ UNCHANGED mediumVars
HelperCallStalls == Returns("guard-eagain") /\ UNCHANGED mediumVars

HelperGuardInterrupted ==
  /\ Guard("guard-eintr", IF calls >= MaxSyscalls THEN "failed" ELSE "cancel-eintr")
  /\ Unchanged

CheckInterrupted == CheckCancel("cancel-eintr", "guard-before") /\ Unchanged

\* After a stall: give up, or wait for the next of the delays.
HelperGuardStalled ==
  /\ Guard("guard-eagain", IF stalls = MaxStalls THEN "failed" ELSE "wait")
  /\ IF pc' = "wait" THEN stalls' = stalls + 1 /\ left' = Delays[stalls']
                     ELSE UNCHANGED <<stalls, left>>
  /\ UNCHANGED calls

\* Mutation: the wait restarts instead of running out.
WaitForRetryAgain == CheckCancel("wait", "wait") /\ Unchanged

\* _wait_for_positional_retry: a sleep may take longer than asked.
WaitForRetry ==
  /\ CheckCancel("wait", IF left = 0 THEN "cancel-wait" ELSE "wait")
  /\ left' \in IF left = 0 THEN {0} ELSE 0..(left - 1)
  /\ UNCHANGED <<calls, stalls>>

CheckWaited == CheckCancel("cancel-wait", "guard-before") /\ Unchanged

\* Mutation: the identity of the target is not looked at before the repetition.
RepeatUnguarded ==
  /\ pc = "guard-before" /\ pc' = "call"
  /\ UNCHANGED <<mediumVars, swap, cancelled, late>> /\ Unchanged

HelperGuardBefore == Guard("guard-before", "call") /\ Unchanged

HelperWriter ==
  \/ HelperWriteLoop \/ EnterUnit
  \/ HelperCallSucceeds \/ HelperCallFails \/ HelperCallInterrupted \/ HelperCallStalls
  \/ HelperGuardInterrupted \/ CheckInterrupted
  \/ HelperGuardStalled \/ WaitForRetry \/ CheckWaited \/ HelperGuardBefore

HelperEnvironment == (UserCancels \/ MediumReplaced) /\ UNCHANGED left

HelperNext == HelperWriter \/ HelperEnvironment

-----------------------------------------------------------------------------
(* The restore helper. *)

\* _require_retry_descriptor checks the program's own objects, and holds.
RestoreInit == IoInit /\ interrupts = 0

RestoreWriteLoop ==
  /\ pc = "loop"
  /\ pc' = IF written = Length THEN "done" ELSE "call"
  /\ UNCHANGED <<mediumVars, swap, cancelled, late, calls, stalls, interrupts>>

RestoreCallSucceeds ==
  /\ Call("loop")
  /\ Accept
  /\ interrupts' = 0 /\ stalls' = 0 /\ calls' = 0

RestoreCallFails ==
  /\ Call("failed")
  /\ AmbiguousError
  /\ calls' = calls + 1
  /\ UNCHANGED <<interrupts, stalls>>

\* EINTR and EAGAIN.
Transient(to) ==
  /\ Call(to)
  /\ calls' = calls + 1
  /\ UNCHANGED <<mediumVars, interrupts, stalls>>

RestoreCallInterrupted == Transient("guard-eintr")
RestoreCallStalls == Transient("guard-eagain")

\* One guard, and pwrite at once.
RestoreGuardInterrupted ==
  /\ Guard("guard-eintr", IF interrupts + 1 >= MaxSyscalls THEN "failed" ELSE "call")
  /\ interrupts' = IF pc' = "call" THEN interrupts + 1 ELSE interrupts
  /\ UNCHANGED <<stalls, calls>>

\* The guard comes first, also when the stalls are exhausted.
RestoreGuardStalled ==
  /\ Guard("guard-eagain", IF stalls >= MaxStalls THEN "failed" ELSE "wait")
  /\ stalls' = IF pc' = "wait" THEN stalls + 1 ELSE stalls
  /\ UNCHANGED <<interrupts, calls>>

\* _cooperative_retry_wait: a fixed number of sleeps.
Wait ==
  /\ pc = "wait" /\ pc' = "guard-before"
  /\ UNCHANGED <<mediumVars, swap, cancelled, late, interrupts, stalls, calls>>

RestoreGuardBefore ==
  /\ Guard("guard-before", "call")
  /\ UNCHANGED <<interrupts, stalls, calls>>

RestoreWriter ==
  \/ RestoreWriteLoop
  \/ RestoreCallSucceeds \/ RestoreCallFails \/ RestoreCallInterrupted \/ RestoreCallStalls
  \/ RestoreGuardInterrupted \/ RestoreGuardStalled \/ Wait \/ RestoreGuardBefore

RestoreEnvironment == MediumReplaced /\ UNCHANGED interrupts

RestoreNext == RestoreWriter \/ RestoreEnvironment

-----------------------------------------------------------------------------
(* One of them. *)

RetryInit ==
  /\ writer \in {"helper", "restore", "descriptor", "reader"}
  /\ HelperInit /\ RestoreInit /\ Descriptor!Init

HelperSteps ==
  writer = "helper" /\ HelperNext /\ UNCHANGED <<writer, restoreVars, descriptorVars>>
RestoreSteps ==
  writer = "restore" /\ RestoreNext /\ UNCHANGED <<writer, helperVars, descriptorVars>>
DescriptorSteps ==
  writer = "descriptor" /\ Descriptor!Next /\ UNCHANGED <<writer, helperVars, restoreVars>>

ReaderSteps ==
  writer = "reader" /\ Descriptor!ReadNext /\ UNCHANGED <<writer, helperVars, restoreVars>>

RetryNext == HelperSteps \/ RestoreSteps \/ DescriptorSteps \/ ReaderSteps

\* The writer whose turn it is.
Writing ==
  \/ HelperSteps /\ HelperWriter
  \/ RestoreSteps /\ RestoreWriter
  \/ DescriptorSteps /\ Descriptor!Writer
  \/ ReaderSteps /\ Descriptor!Reader

\* Each writer is one sequential thread, and its sleeps are bounded.
RetrySpec == RetryInit /\ [][RetryNext]_retryVars /\ WF_retryVars(Writing)

\* The three delays of the code, in another scale.
ScaledDelays == <<1, 2, 3>>

-----------------------------------------------------------------------------
(* Properties, beside those of every writer. *)

\* Each writer stays within its own bounds, however interruptions, stalls and progress
\* alternate.  In the primitive one counter is for both.  In the helpers the last stalls
\* come on top: only an interruption looks at the count of the calls there, so that
\* MaxSyscalls - 1 interruptions and MaxStalls + 1 stalls fit into one retry unit.
CallsAreBounded ==
  /\ writer \in {"helper", "restore"} => calls <= MaxSyscalls + MaxStalls
  /\ writer \in {"descriptor", "reader"} => Descriptor!CallsAreBounded

\* SECURITY.md:892-898: the Syslinux-family helper permits "at most 1,024 positional syscall
\* attempts per retry unit", and the calls that end in EAGAIN "consume the total syscall cap
\* where one applies".  It does not hold: see above.
CallsAreCapped == writer = "helper" => calls <= MaxSyscalls

\* A cancellation and a deadline are each heard before the second call after them.
StopIsHeard == CancelIsHeard /\ Descriptor!DeadlineIsHeard

\* No byte is skipped or misplaced, a transfer that is complete is not a failure, and the
\* bounds of the retries, the deadlines and the cancellations are kept.
TransferIsTrue == Exact /\ CompleteIsDone /\ CallsAreBounded /\ StopIsHeard
=============================================================================
