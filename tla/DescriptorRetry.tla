---------------------------- MODULE DescriptorRetry ----------------------------
(***************************************************************************)
(* write_all_at and read_exact_at of isopropyl/descriptor_io.py under the  *)
(* default policy, which every caller uses: one bound on the calls of the  *)
(* whole operation, one on consecutive stalls, a deadline and a            *)
(* cancel_check.  No caller passes prewrite, so the readiness loop is left *)
(* out.                                                                    *)
(*                                                                         *)
(* The monotonic clock counts wait slices and moves when the code reads it *)
(* (_refresh).                                                             *)
(***************************************************************************)
EXTENDS PositionalIo

VARIABLES
  pending,   \* write_retry_pending
  clock,     \* last_time; Deadline stands for every later time too
  until,     \* target of the current backoff
  overdue    \* calls of pwrite that began after the deadline

vars == <<ioVars, pending, clock, until, overdue>>

TypeOK ==
  /\ IoTypeOK
  /\ pending \in BOOLEAN
  /\ clock \in 0..Deadline
  /\ until \in 0..Deadline
  /\ overdue \in Nat

Init ==
  /\ IoInit
  /\ pending = FALSE
  /\ clock = 0 /\ until = 0
  /\ overdue = 0

Unchanged == UNCHANGED <<calls, stalls, until, overdue>>

\* _refresh
Refresh == clock' \in clock..Deadline

\* _Execution.cancel
Cancel(from, to) == CheckCancel(from, to) /\ UNCHANGED <<pending, clock>> /\ Unchanged

\* require_budget: the cancellation first, then the deadline.
RequireBudget(from, to) ==
  /\ Refresh
  /\ CheckCancel(from, IF clock' = Deadline THEN "failed" ELSE to)

\* The transfer is complete, or goes on.
WriteLoop ==
  /\ pc = "loop"
  /\ pc' = IF written = Length THEN "done" ELSE "budget"
  /\ UNCHANGED <<mediumVars, swap, cancelled, late, pending, clock>> /\ Unchanged

Budget ==
  /\ RequireBudget("budget", IF pending THEN "cancel-before" ELSE "call")
  /\ UNCHANGED pending /\ Unchanged

CancelBefore == Cancel("cancel-before", "guard-before")

GuardBefore ==
  /\ Guard("guard-before", "call")
  /\ pending' = FALSE
  /\ Refresh
  /\ Unchanged

\* _Execution.syscall
BoundExceeded ==
  /\ pc = "call" /\ calls >= MaxSyscalls
  /\ pc' = "failed"
  /\ UNCHANGED <<mediumVars, swap, cancelled, late, pending, clock>> /\ Unchanged

Returns(to) ==
  /\ calls < MaxSyscalls
  /\ Call(to)
  /\ calls' = calls + 1
  /\ overdue' = IF clock = Deadline THEN overdue + 1 ELSE overdue
  /\ Refresh
  /\ UNCHANGED <<pending, until>>

CallSucceeds == Returns("loop") /\ Accept /\ stalls' = 0
CallFails == Returns("failed") /\ AmbiguousError /\ UNCHANGED stalls
CallInterrupted == Returns("cancel-eintr") /\ UNCHANGED <<mediumVars, stalls>>
CallStalls == Returns("cancel-eagain") /\ UNCHANGED <<mediumVars, stalls>>

CancelInterrupted == Cancel("cancel-eintr", "guard-eintr")
CancelStalled == Cancel("cancel-eagain", "guard-eagain")

GuardInterrupted ==
  /\ Guard("guard-eintr", "loop")
  /\ pending' = TRUE
  /\ Refresh
  /\ Unchanged

GuardStalled ==
  /\ Guard("guard-eagain", IF stalls >= MaxStalls THEN "failed" ELSE "backoff")
  /\ stalls' = IF pc' = "backoff" THEN stalls + 1 ELSE stalls
  /\ Refresh
  /\ UNCHANGED <<calls, pending, until, overdue>>

\* backoff: its end is cut down to the deadline.
Backoff ==
  /\ RequireBudget("backoff", "wait")
  /\ until' = IF clock' + Delays[stalls] < Deadline THEN clock' + Delays[stalls] ELSE Deadline
  /\ UNCHANGED <<calls, stalls, pending, overdue>>

\* A slice of the wait, or more if the sleep takes longer, between two checks.
WaitSlice ==
  /\ clock < until
  /\ CheckCancel("wait", "woken")
  /\ IF cancelled THEN UNCHANGED clock ELSE clock' \in (clock + 1)..Deadline
  /\ UNCHANGED pending /\ Unchanged

Woken == Cancel("woken", "wait")

Waited ==
  /\ pc = "wait" /\ clock >= until
  /\ IF clock = Deadline THEN pc' = "failed" /\ UNCHANGED pending
                         ELSE pc' = "loop" /\ pending' = TRUE
  /\ UNCHANGED <<mediumVars, swap, cancelled, late, clock>> /\ Unchanged

\* An error of pread leaves nothing behind.
ReadFails == Returns("failed") /\ UNCHANGED <<mediumVars, stalls>>

\* read_exact_at: the same loop, whose bytes are those of the result.
Reader ==
  \/ WriteLoop \/ Budget \/ CancelBefore \/ GuardBefore
  \/ BoundExceeded \/ CallSucceeds \/ ReadFails \/ CallInterrupted \/ CallStalls
  \/ CancelInterrupted \/ GuardInterrupted \/ CancelStalled \/ GuardStalled
  \/ Backoff \/ WaitSlice \/ Woken \/ Waited

Writer ==
  \/ WriteLoop \/ Budget \/ CancelBefore \/ GuardBefore
  \/ BoundExceeded \/ CallSucceeds \/ CallFails \/ CallInterrupted \/ CallStalls
  \/ CancelInterrupted \/ GuardInterrupted \/ CancelStalled \/ GuardStalled
  \/ Backoff \/ WaitSlice \/ Woken \/ Waited

Environment == (UserCancels \/ MediumReplaced) /\ UNCHANGED <<pending, clock, until, overdue>>

Next == Writer \/ Environment

ReadNext == Reader \/ Environment

Spec == Init /\ [][Next]_vars

-----------------------------------------------------------------------------
(* Properties. *)

CallsAreBounded == calls <= MaxSyscalls

\* The deadline is heard before the second call after it, although the guard of a
\* repetition may take its time between the look at the clock and the call.
DeadlineIsHeard == overdue <= 1
=============================================================================
