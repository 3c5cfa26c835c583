------------------------------ MODULE PositionalIo ------------------------------
(***************************************************************************)
(* What the retrying writers of fixed offsets have in common: the bytes    *)
(* they have to transfer, the kernel call pwrite that accepts any positive *)
(* prefix of them, the exchange of the medium under the descriptor, and    *)
(* the numbers of their policies, which are the same in all three:         *)
(*                                                                         *)
(*   PositionalRetry  the privileged helpers of the device profiles and of *)
(*                    the restore                                          *)
(*   DescriptorRetry  the primitive of descriptor_io.py, which fills the   *)
(*                    anonymous snapshots                                  *)
(*                                                                         *)
(* Their reads are the same loops without an effect on a medium.           *)
(***************************************************************************)
EXTENDS Integers, Sequences

CONSTANTS
  Length,       \* how many bytes are to be written
  MaxSyscalls,  \* _POSITIONAL_MAX_SYSCALLS, max_syscalls, _IO_EINTR_ATTEMPTS
  Delays,       \* the waits after a stall, in slices of 50 ms
  Deadline      \* deadline_seconds of RetryPolicy, in slices of 50 ms

ASSUME PolicyAssumption ==
  /\ Length \in Nat
  /\ MaxSyscalls \in Nat \ {0}
  /\ Delays \in Seq(Nat)
  /\ Deadline \in Nat \ {0}

VARIABLES
  pc,         \* the statement about to run, or how the writer ended
  written,    \* bytes transferred so far
  bytes,      \* for each position, which byte of the data arrived there; 0: none
  swap,       \* the statement during which the medium was exchanged, or "none"
  alien,      \* positions written on the medium that took its place
  calls,      \* calls of pwrite that count against the bounds of the writer
  stalls,     \* those of them that stalled, since the last progress
  cancelled,  \* cancel_check raises from now on
  late        \* calls of pwrite that began after the cancellation

mediumVars == <<written, bytes, alien>>
ioVars == <<pc, written, bytes, swap, alien, calls, stalls, cancelled, late>>

Positions == 1..Length
MaxStalls == Len(Delays)
Ended == {"done", "failed", "cancelled"}

\* From a transient error to the end of the guard before the repetition.
Retrying ==
  {"cancel-eintr", "guard-eintr", "cancel-eagain", "guard-eagain", "backoff", "wait",
   "woken", "cancel-wait", "cancel-before", "guard-before"}
Control == {"loop", "budget", "enter", "call"} \union Retrying \union Ended

IoTypeOK ==
  /\ pc \in Control
  /\ written \in 0..Length
  /\ bytes \in [Positions -> 0..Length]
  /\ swap \in Control \union {"none"}
  /\ alien \subseteq Positions
  /\ calls \in Nat
  /\ stalls \in 0..MaxStalls
  /\ cancelled \in BOOLEAN
  /\ late \in Nat

IoInit ==
  /\ pc = "loop"
  /\ written = 0
  /\ bytes = [p \in Positions |-> 0]
  /\ swap = "none"
  /\ alien = {}
  /\ calls = 0 /\ stalls = 0
  /\ cancelled = FALSE /\ late = 0

\* Positions w + 1 .. w + count of the medium in the slot receive their bytes.
Land(w, count) ==
  LET landed == (w + 1)..(w + count) IN
  /\ bytes' = [p \in Positions |-> IF p \in landed THEN p ELSE bytes[p]]
  /\ alien' = IF swap = "none" THEN alien ELSE alien \union landed

\* Mutation: the whole data is submitted again at the offset already reached.
AcceptWholeAgain ==
  \E count \in 1..(Length - written) :
    /\ bytes' = [p \in Positions |->
         IF p \in (written + 1)..(written + count) THEN p - written ELSE bytes[p]]
    /\ alien' = alien
    /\ written' = written + count

\* The kernel accepts some prefix of the suffix data[written:].
Accept ==
  \E count \in 1..(Length - written) : Land(written, count) /\ written' = written + count

\* An error that is not known to have transferred nothing, or a count that cannot
\* be: any prefix may have arrived.
AmbiguousError ==
  /\ \E count \in 0..(Length - written) : Land(written, count)
  /\ UNCHANGED written

\* One call of pwrite.
Call(to) ==
  /\ pc = "call" /\ pc' = to
  /\ late' = IF cancelled THEN late + 1 ELSE late
  /\ UNCHANGED <<swap, cancelled>>

\* cancel_check.  Where the caller passes none, the user never cancels.
CheckCancel(from, to) ==
  /\ pc = from
  /\ pc' = IF cancelled THEN "cancelled" ELSE to
  /\ UNCHANGED <<mediumVars, swap, cancelled, late>>

\* The guard of the caller looks at the identity of the medium, and can fail for
\* reasons of its own.
Guard(from, to) ==
  /\ pc = from
  /\ \/ swap = "none" /\ pc' = to
     \/ pc' = "failed"
  /\ UNCHANGED <<mediumVars, swap, cancelled, late>>

UserCancels ==
  /\ ~cancelled /\ cancelled' = TRUE
  /\ UNCHANGED <<pc, mediumVars, swap, calls, stalls, late>>

MediumReplaced ==
  /\ pc \notin Ended /\ swap = "none"
  /\ swap' = pc
  /\ UNCHANGED <<pc, mediumVars, calls, stalls, cancelled, late>>

-----------------------------------------------------------------------------
(* Properties of every writer. *)

\* Every byte arrives at its own position, in order and without a gap, however the
\* kernel splits the data and whatever is retried; "done" means all of them.  Only
\* an ambiguous error leaves bytes beyond what was counted.
Exact ==
  /\ \A p \in Positions : bytes[p] \in {0, p}
  /\ pc # "failed" => \A p \in Positions : bytes[p] = IF p <= written THEN p ELSE 0
  /\ pc = "done" => written = Length

\* A medium exchanged between a transient error and the end of the guard before the
\* repetition gets no byte of this write: "a target changed during backoff must not
\* receive the next syscall".
ReplacementIsSpared == swap \in Retrying => alien = {}

\* "A successful syscall result remains authoritative even when that call returns
\* after the deadline timestamp": a complete transfer is never reported as a
\* failure, whatever the clock, the bounds and the user say by then.
CompleteIsDone == Length > 0 /\ written = Length => pc \in {"loop", "done"}

\* A cancellation is heard before the second call after it, on the path of progress
\* and on the paths of a repetition.
CancelIsHeard == late <= 1

\* However often the kernel interrupts or stalls, the writer comes to an end.
Terminates == <>(pc \in Ended)
=============================================================================
