---------------------------- MODULE HelperProtocol ----------------------------
(***************************************************************************)
(* One privileged whole-device write as two processes: the runner of the   *)
(* unprivileged application and the root helper started through pkexec     *)
(* (main of syslinux_device_helper.py), with the SOCK_SEQPACKET channel    *)
(* between them, the user who may cancel at any moment, both time-outs,    *)
(* and the death of either process.                                        *)
(*                                                                         *)
(* There are three runners: RawDeviceWriteRunner, SyslinuxDeviceWriteRunner*)
(* (the Windows runner inherits from it) and GrubRescueDeviceWriteRunner.  *)
(* Each has its own copy of the broker loop; they differ in the progress   *)
(* they accept and in what becomes of a helper that is still alive when    *)
(* run() ends.                                                             *)
(*                                                                         *)
(* What the helper does to the medium is the abstract machine of           *)
(* MediumActivation; RawTransaction shows that the transaction implements  *)
(* it.  Here only the order of its packets and of its medium steps counts. *)
(***************************************************************************)
EXTENDS Integers, Sequences

CONSTANTS
  Kinds,             \* which of the runners "raw", "syslinux" and "grub"
  Size,              \* size of the image, in sectors
  GuardSize,         \* size of the raw front guard, in sectors
  FinalVerification, \* raw: the user asked for a complete final read-back
  Capacity           \* bound: packets a full channel holds (send gives EAGAIN)

ASSUME KindsAssumption == Kinds \subseteq {"raw", "syslinux", "grub"}
ASSUME SizeAssumption == Size \in Nat /\ GuardSize \in Nat \ {0} /\ GuardSize < Size
ASSUME ParameterAssumption == FinalVerification \in BOOLEAN /\ Capacity \in Nat \ {0}

VARIABLES
  kind,       \* the runner, and the profile of its helper
  \* the helper
  hpc,        \* its control point
  position,   \* next item of the script of its transaction
  connected,  \* _ProtocolProgress._connected
  exit,       \* "none", or why it exited
  view,       \* the durable state of the selected medium (MediumActivation)
  \* the channel
  toRunner, toHelper,
  \* the runner
  rpc,        \* its control point
  closed,     \* the runner has closed its end of the channel
  cancelled,  \* the user has cancelled (_cancelled)
  terminating, \* cancel() has decided to terminate the helper, and not done it
  requestSent, commitSent, cancelSent, preparedSeen, mutationSeen,
  phaseDone,  \* phase_progress: last position of every phase, -1 if none
  phaseIndex,
  succeeded,  \* a SUCCESS packet was received
  report      \* what run() returned or raised

helperVars == <<hpc, position, connected, exit, view>>
flags == <<requestSent, commitSent, cancelSent>>
seen == <<preparedSeen, mutationSeen, phaseDone, phaseIndex, succeeded>>
userVars == <<cancelled, terminating>>
runnerVars == <<rpc, closed, userVars, flags, seen, report>>
changed == <<helperVars, toRunner, toHelper, runnerVars>>
protocolVars == <<kind, changed>>

-----------------------------------------------------------------------------
(* The transaction of the helper: what it sends and does, in order. *)

Phases == {"source-validation", "writing", "preactivation-readback", "readback"}
PhaseOrder == [p \in Phases |->
  CASE p = "source-validation" -> 0 [] p = "writing" -> 1
    [] p = "preactivation-readback" -> 2 [] p = "readback" -> 3]

Progress(phase, done, total) ==
  [kind |-> "progress", phase |-> phase, done |-> done, total |-> total]
Medium(v) == [kind |-> "medium", view |-> v]
Prepare == [kind |-> "prepare"]
\* A loop over a region of n sectors reports 0, and n after its last chunk.
Loop(phase, n) ==
  IF n = 0 THEN <<Progress(phase, 0, 0)>> ELSE <<Progress(phase, 0, n), Progress(phase, n, n)>>

\* execute_raw_helper_transaction: the write loop stops before the tail sector,
\* and the whole size is reported as written only after the activation.
RawScript ==
  Loop("source-validation", Size)
  \o <<Prepare, Medium("opened"), Medium("inert"), Progress("writing", 0, Size)>>
  \o (IF Size - GuardSize - 1 = 0 THEN <<>> ELSE <<Progress("writing", Size - 1, Size)>>)
  \o Loop("preactivation-readback", Size - GuardSize - 1)
  \o <<Medium("arming"), Medium("active"), Progress("writing", Size, Size)>>
  \o (IF FinalVerification THEN Loop("readback", Size) ELSE <<>>)

\* execute_helper_transaction: sector zero is written last.
MbrScript ==
  Loop("source-validation", Size)
  \o <<Prepare, Medium("opened"), Medium("inert")>>
  \o Loop("writing", Size)
  \o Loop("preactivation-readback", Size - 1)
  \o <<Medium("active")>>
  \o Loop("readback", Size)

Script == IF kind = "raw" THEN RawScript ELSE MbrScript

\* What the runner demands: _expected_phase_totals.
ExpectedTotals ==
  [p \in (IF kind = "raw" /\ ~FinalVerification THEN Phases \ {"readback"} ELSE Phases) |->
     IF p # "preactivation-readback" THEN Size
     ELSE IF kind = "raw" THEN Size - GuardSize - 1 ELSE Size - 1]

-----------------------------------------------------------------------------

HelperStates ==
  {"authenticating", "await-request", "transaction", "await-control", "mutating",
   "recovering", "result", "exited"}
Exits == {"none", "success", "cancelled", "refused", "failed", "killed"}
Alive == hpc # "exited"
RunnerStates ==
  {"handshake", "transfer", "mark", "top", "send-cancel", "select", "poll", "wait", "outcome",
   "finally", "done"}
ReportValues ==
  {"none", "success", "cancelled", "no-commit", "bad-progress", "mismatch",
   "unknown", "error", "lost"}

\* What unpack_server_packet decodes.
ProgressPackets ==
  {p \in [kind : {"progress"}, phase : Phases, done : 0..Size, total : 0..Size] : p.done <= p.total}
Packets ==
  {[kind |-> k] : k \in {"ready", "prepared", "mutation-started", "success"}} \union ProgressPackets

TypeOK ==
  /\ kind \in Kinds
  /\ hpc \in HelperStates
  /\ position \in 1..(Len(Script) + 1)
  /\ connected \in BOOLEAN
  /\ exit \in Exits /\ (exit = "none" <=> Alive)
  /\ view \in {"intact", "opened", "inert", "arming", "active"}
  /\ Len(toRunner) <= Capacity /\ \A i \in 1..Len(toRunner) : toRunner[i] \in Packets
  /\ Len(toHelper) <= 2
  /\ \A i \in 1..Len(toHelper) : toHelper[i] \in {"REQUEST", "COMMIT", "CANCEL"}
  /\ rpc \in RunnerStates
  /\ {closed, cancelled, terminating, requestSent, commitSent, cancelSent,
      preparedSeen, mutationSeen, succeeded} \subseteq BOOLEAN
  /\ phaseDone \in [Phases -> -1..Size]
  /\ phaseIndex \in -1..3
  /\ report \in ReportValues

ProtocolInit ==
  /\ kind \in Kinds
  /\ hpc = "authenticating" /\ position = 1 /\ connected = TRUE
  /\ exit = "none" /\ view = "intact"
  /\ toRunner = <<>> /\ toHelper = <<>>
  /\ rpc = "handshake" /\ closed = FALSE /\ cancelled = FALSE
  /\ terminating = FALSE /\ requestSent = FALSE /\ commitSent = FALSE /\ cancelSent = FALSE
  /\ preparedSeen = FALSE /\ mutationSeen = FALSE
  /\ phaseDone = [p \in Phases |-> -1] /\ phaseIndex = -1
  /\ succeeded = FALSE /\ report = "none"

-----------------------------------------------------------------------------
(* The helper. *)

\* _send_packet with MSG_DONTWAIT succeeds: the peer is there and there is room.
CanSend == ~closed /\ Len(toRunner) < Capacity
Send(packet) == toRunner' = Append(toRunner, packet)

Exit(reason) == hpc' = "exited" /\ exit' = reason

\* pkexec has authenticated the user and the helper says READY.
HelperReady ==
  /\ hpc = "authenticating"
  /\ IF CanSend
       THEN Send([kind |-> "ready"]) /\ hpc' = "await-request" /\ UNCHANGED exit
       ELSE Exit("refused") /\ UNCHANGED toRunner
  /\ UNCHANGED <<position, connected, view, toHelper, runnerVars>>

\* The authentication dialog is dismissed or fails.
AuthenticationFails ==
  /\ hpc = "authenticating"
  /\ Exit("refused")
  /\ UNCHANGED <<position, connected, view, toRunner, toHelper, runnerVars>>

HelperReceivesRequest ==
  /\ hpc = "await-request" /\ toHelper # <<>>
  /\ toHelper' = Tail(toHelper)
  /\ hpc' = "transaction"
  /\ UNCHANGED <<position, connected, exit, view, toRunner, runnerVars>>

\* The application went away before it had sent the request.  This wait has no
\* deadline.
RequestFails ==
  /\ hpc = "await-request" /\ toHelper = <<>> /\ closed
  /\ Exit("refused")
  /\ UNCHANGED <<position, connected, view, toRunner, toHelper, runnerVars>>

\* A peer that closes with unread packets resets the channel: the next receive
\* fails, even if a decision is waiting.
Reset == closed /\ toRunner # <<>>

\* poll_precommit_cancel: CANCEL ends the transaction, anything else readable
\* (an early COMMIT, the end of the channel) is an error.
PollCancels ==
  /\ toHelper # <<>> \/ closed
  /\ \/ Reset /\ Exit("refused")
     \/ Exit(IF toHelper # <<>> /\ Head(toHelper) = "CANCEL" THEN "cancelled" ELSE "refused")
  /\ UNCHANGED <<position, connected, view, toRunner, toHelper, runnerVars>>
PollIsQuiet == toHelper = <<>> /\ ~closed

AtItem(item) == position <= Len(Script) /\ Script[position].kind = item

\* _ProtocolProgress.__call__ before the mutation.
PreflightProgress ==
  /\ hpc = "transaction" /\ AtItem("progress")
  /\ \/ PollCancels
     \/ /\ PollIsQuiet /\ CanSend
        /\ Send(Script[position])
        /\ position' = position + 1
        /\ UNCHANGED <<hpc, connected, exit, view, toHelper, runnerVars>>
     \/ /\ PollIsQuiet /\ ~CanSend
        /\ Exit("refused")
        /\ UNCHANGED <<position, connected, view, toRunner, toHelper, runnerVars>>

\* Any check of the preflight fails.
PreflightFails ==
  /\ hpc = "transaction"
  /\ Exit("refused")
  /\ UNCHANGED <<position, connected, view, toRunner, toHelper, runnerVars>>

\* prepare_mutation.
PrepareMutation ==
  /\ hpc = "transaction" /\ AtItem("prepare")
  /\ \/ PollCancels
     \/ /\ PollIsQuiet /\ CanSend
        /\ Send([kind |-> "prepared"])
        /\ hpc' = "await-control"
        /\ UNCHANGED <<position, connected, exit, view, toHelper, runnerVars>>
     \/ /\ PollIsQuiet /\ ~CanSend
        /\ Exit("refused")
        /\ UNCHANGED <<position, connected, view, toRunner, toHelper, runnerVars>>

\* _receive_control answers COMMIT; then begin_mutation.
BeginMutation ==
  /\ hpc = "await-control"
  /\ toHelper # <<>> /\ Head(toHelper) = "COMMIT"
  /\ toHelper' = Tail(toHelper)
  /\ hpc' = "mutating"
  /\ position' = position + 1
  /\ IF CanSend
       THEN Send([kind |-> "mutation-started"]) /\ UNCHANGED connected
       ELSE connected' = FALSE /\ UNCHANGED toRunner
  /\ UNCHANGED <<exit, view, runnerVars>>

\* _receive_control: CANCEL, the end of the channel, or no decision in time.
NoCommit ==
  /\ hpc = "await-control"
  /\ \/ (toHelper = <<>> \/ Reset) /\ Exit("refused")
     \/ toHelper # <<>> /\ Head(toHelper) = "CANCEL" /\ Exit("cancelled")
  /\ UNCHANGED <<position, connected, view, toRunner, toHelper, runnerVars>>

\* _ProtocolProgress.__call__ after the commit: a packet that cannot be sent
\* ends the reporting, never the transaction.
MutationProgress ==
  /\ hpc = "mutating" /\ AtItem("progress")
  /\ position' = position + 1
  /\ IF connected /\ CanSend
       THEN Send(Script[position]) /\ UNCHANGED connected
       ELSE connected' = FALSE /\ UNCHANGED toRunner
  /\ UNCHANGED <<hpc, exit, view, toHelper, runnerVars>>

MediumStep ==
  /\ hpc = "mutating" /\ AtItem("medium")
  /\ view' = Script[position].view
  /\ position' = position + 1
  /\ UNCHANGED <<hpc, connected, exit, toRunner, toHelper, runnerVars>>

\* A step of the transaction fails; the except clause deactivates the medium,
\* or gives up, and the helper exits with a diagnostic.
MutationFails ==
  /\ hpc = "mutating"
  /\ hpc' = "recovering"
  /\ UNCHANGED <<position, connected, exit, view, toRunner, toHelper, runnerVars>>

Deactivate ==
  /\ hpc = "recovering" /\ view \in {"opened", "arming", "active"}
  /\ view' = "inert"
  /\ UNCHANGED <<hpc, position, connected, exit, toRunner, toHelper, runnerVars>>

\* Mutation: the failure is reported as if nothing had been written.
HelperFailsQuietly ==
  /\ hpc = "recovering"
  /\ Exit("refused")
  /\ UNCHANGED <<position, connected, view, toRunner, toHelper, runnerVars>>

HelperFails ==
  /\ hpc = "recovering"
  /\ Exit("failed")
  /\ UNCHANGED <<position, connected, view, toRunner, toHelper, runnerVars>>

\* The verified result is sent, whatever became of the progress packets, and
\* the exit status is 0 even if it could not be sent.
SendSuccess ==
  /\ hpc = "mutating" /\ position > Len(Script)
  /\ hpc' = "result"
  /\ IF CanSend THEN Send([kind |-> "success"]) ELSE UNCHANGED toRunner
  /\ UNCHANGED <<position, connected, exit, view, toHelper, runnerVars>>

HelperExits ==
  /\ hpc = "result"
  /\ Exit("success")
  /\ UNCHANGED <<position, connected, view, toRunner, toHelper, runnerVars>>

\* SIGKILL from outside, or an abort of the interpreter.
HelperKilled ==
  /\ Alive
  /\ Exit("killed")
  /\ UNCHANGED <<position, connected, view, toRunner, toHelper, runnerVars>>

-----------------------------------------------------------------------------
(* The user. *)

\* cancel(): the flag is set and the helper state read under _process_lock ...
UserCancels ==
  /\ ~cancelled /\ rpc # "done"
  /\ cancelled' = TRUE
  /\ terminating' = (Alive /\ ~requestSent /\ (rpc = "finally" => kind = "grub"))
  /\ UNCHANGED <<helperVars, toRunner, toHelper, rpc, closed, flags, seen, report>>

\* ... and the signal is sent after the lock is released.  It has no effect on
\* a process of another user, nor once the helper ignores SIGTERM.
CancelTerminates ==
  /\ terminating
  /\ terminating' = FALSE
  /\ \/ Alive /\ hpc \notin {"mutating", "recovering", "result"} /\ Exit("killed")
     \/ UNCHANGED <<hpc, exit>>
  /\ UNCHANGED <<position, connected, view, toRunner, toHelper, rpc, closed, cancelled,
                 flags, seen, report>>

-----------------------------------------------------------------------------
(* The runner: start, handshake and transfer of the request. *)

\* A value or an exception leaves the loop; the finally clause closes the channel.
RunnerEnds(r) == rpc' = "finally" /\ report' = r /\ closed' = TRUE

\* The application crashes or is killed: run() reports nothing, and the kernel
\* closes the channel.
ApplicationDies ==
  /\ rpc # "done"
  /\ rpc' = "done" /\ report' = "lost" /\ closed' = TRUE
  /\ terminating' = FALSE
  /\ UNCHANGED <<helperVars, toRunner, toHelper, cancelled, flags, seen>>

\* SIGTERM, then SIGKILL, of _stop_and_reap: the signals may be refused.
MayStop ==
  /\ \/ Alive /\ Exit("killed")
     \/ UNCHANGED <<hpc, exit>>
  /\ UNCHANGED <<position, connected, view>>

ReceiveReady ==
  /\ rpc = "handshake" /\ toRunner # <<>>
  /\ toRunner' = Tail(toRunner)
  /\ IF cancelled
       THEN RunnerEnds("cancelled")
       ELSE rpc' = "transfer" /\ UNCHANGED <<report, closed>>
  /\ UNCHANGED <<helperVars, toHelper, userVars, flags, seen>>

HandshakeEnds ==
  /\ rpc = "handshake" /\ ~Alive
  /\ RunnerEnds("error")
  /\ UNCHANGED <<helperVars, toRunner, toHelper, userVars, flags, seen>>

\* A cancelled helper that has no request is stopped at once ...
HandshakeKill ==
  /\ rpc = "handshake" /\ cancelled /\ Alive
  /\ Exit("killed")
  /\ UNCHANGED <<position, connected, view, toRunner, toHelper, runnerVars>>

\* Mutation: only a cancelled handshake has a deadline.
HandshakeStallsIfCancelled ==
  /\ rpc = "handshake" /\ toRunner = <<>> /\ Alive /\ cancelled
  /\ RunnerEnds("error")
  /\ UNCHANGED <<helperVars, toRunner, toHelper, userVars, flags, seen>>

\* ... and any helper after 300 s without READY.
HandshakeStalls ==
  /\ rpc = "handshake" /\ toRunner = <<>> /\ Alive
  /\ RunnerEnds("error")
  /\ UNCHANGED <<helperVars, toRunner, toHelper, userVars, flags, seen>>

TransferRequest ==
  /\ rpc = "transfer"
  /\ IF cancelled \/ ~Alive
       THEN RunnerEnds(IF cancelled THEN "cancelled" ELSE "error") /\ UNCHANGED toHelper
       ELSE /\ rpc' = "mark" /\ toHelper' = Append(toHelper, "REQUEST")
            /\ UNCHANGED <<report, closed>>
  /\ UNCHANGED <<helperVars, toRunner, userVars, flags, seen>>

MarkRequestSent ==
  /\ rpc = "mark"
  /\ rpc' = "top" /\ requestSent' = TRUE
  /\ UNCHANGED <<helperVars, toRunner, toHelper, closed, userVars,
                 commitSent, cancelSent, seen, report>>

-----------------------------------------------------------------------------
(* The runner: _receive_packet with request_sent, one round. *)

RunnerOnly == UNCHANGED <<helperVars, toRunner, toHelper, userVars>>

ReadFlags ==
  /\ rpc = "top"
  /\ rpc' = IF cancelled /\ Alive /\ ~commitSent /\ ~cancelSent THEN "send-cancel" ELSE "select"
  /\ RunnerOnly /\ UNCHANGED <<closed, flags, seen, report>>

SendCancel ==
  /\ rpc = "send-cancel"
  /\ IF Alive
       THEN /\ toHelper' = Append(toHelper, "CANCEL")
            /\ cancelSent' = TRUE
            /\ rpc' = "select"
            /\ UNCHANGED <<closed, report>>
       ELSE RunnerEnds("error") /\ UNCHANGED <<toHelper, cancelSent>>
  /\ UNCHANGED <<helperVars, toRunner, userVars, requestSent, commitSent, seen>>

SelectTimesOut ==
  /\ rpc = "select" /\ toRunner = <<>> /\ Alive
  /\ rpc' = "poll"
  /\ RunnerOnly /\ UNCHANGED <<closed, flags, seen, report>>

\* A helper that exits with unread packets resets the channel: the next receive
\* raises an OSError, even if packets are waiting.
Broken == ~Alive /\ toHelper # <<>>

ReceiveFails ==
  /\ rpc = "select" /\ Broken
  /\ RunnerEnds("error")
  /\ RunnerOnly /\ UNCHANGED <<flags, seen>>

EndOfChannel ==
  /\ rpc = "select" /\ toRunner = <<>> /\ ~Alive /\ ~Broken
  /\ rpc' = "wait"
  /\ RunnerOnly /\ UNCHANGED <<closed, flags, seen, report>>

\* process.poll(): an exited helper ends the loop, without another look at the
\* channel.
PollProcess ==
  /\ rpc = "poll"
  /\ rpc' = IF Alive THEN "top" ELSE "wait"
  /\ RunnerOnly /\ UNCHANGED <<closed, flags, seen, report>>

\* Mutation: a cancelled write that stalls is reported as cancelled.
StallAsCancelled ==
  /\ rpc = "poll" /\ Alive
  /\ RunnerEnds(IF cancelled THEN "cancelled" ELSE IF commitSent THEN "unknown" ELSE "no-commit")
  /\ RunnerOnly /\ UNCHANGED <<flags, seen>>

\* 300 s without a packet.  The helper is left alone.
Stall ==
  /\ rpc = "poll" /\ Alive
  /\ RunnerEnds(IF commitSent THEN "unknown" ELSE IF cancelled THEN "cancelled" ELSE "no-commit")
  /\ RunnerOnly /\ UNCHANGED <<flags, seen>>

Receiving(packet) ==
  /\ rpc = "select" /\ ~Broken /\ toRunner # <<>> /\ Head(toRunner).kind = packet
  /\ toRunner' = Tail(toRunner)
  /\ UNCHANGED <<helperVars, userVars, requestSent>>
Continue == rpc' = "top" /\ UNCHANGED <<closed, report>>

\* Mutation: PREPARED is answered although CANCEL has been sent.
ReceivePreparedAlways ==
  /\ Receiving("prepared")
  /\ preparedSeen' = TRUE
  /\ toHelper' = Append(toHelper, "COMMIT")
  /\ commitSent' = TRUE
  /\ Continue
  /\ UNCHANGED <<cancelSent, mutationSeen, phaseDone, phaseIndex, succeeded>>

\* PREPARED, and _decide_prepared: cancellation against COMMIT under the lock.
ReceivePrepared ==
  /\ Receiving("prepared")
  /\ IF preparedSeen \/ mutationSeen \/ phaseDone["source-validation"] # Size
       THEN RunnerEnds("error") /\ UNCHANGED <<toHelper, commitSent, cancelSent, preparedSeen>>
       ELSE /\ preparedSeen' = TRUE
            /\ IF cancelSent
                 THEN Continue /\ UNCHANGED <<toHelper, commitSent, cancelSent>>
                 ELSE IF ~Alive
                   THEN RunnerEnds("error") /\ UNCHANGED <<toHelper, commitSent, cancelSent>>
                   ELSE /\ toHelper' = Append(toHelper, IF cancelled THEN "CANCEL" ELSE "COMMIT")
                        /\ commitSent' = ~cancelled
                        /\ cancelSent' = cancelled
                        /\ Continue
  /\ UNCHANGED <<mutationSeen, phaseDone, phaseIndex, succeeded>>

ReceiveMutationStarted ==
  /\ Receiving("mutation-started")
  /\ IF mutationSeen \/ ~preparedSeen \/ ~commitSent \/ phaseDone["source-validation"] # Size
       THEN RunnerEnds("error") /\ UNCHANGED mutationSeen
       ELSE mutationSeen' = TRUE /\ Continue
  /\ UNCHANGED <<toHelper, commitSent, cancelSent, preparedSeen, phaseDone, phaseIndex, succeeded>>

\* Every report but those of source-validation comes after MUTATION_STARTED, phases
\* do not come back, and the totals are known beforehand.
PhaseValid(p) ==
  /\ p.phase \in DOMAIN ExpectedTotals
  /\ PhaseOrder[p.phase] >= phaseIndex
  /\ (p.phase # "source-validation") = mutationSeen
  /\ p.total = ExpectedTotals[p.phase]
  /\ p \in ProgressPackets

\* Mutation: every report has to open a new phase.
ProgressValidOnce(p) == PhaseValid(p) /\ PhaseOrder[p.phase] > phaseIndex

\* The runners for an MBR accept a repeated position ...
ProgressValid(p) == PhaseValid(p) /\ p.done >= phaseDone[p.phase]

\* ... the raw runner wants every report to advance.
RawProgressValid(p) ==
  /\ PhaseValid(p) /\ p.done > phaseDone[p.phase]
  /\ p.phase = "source-validation" => ~preparedSeen

ReceiveProgress ==
  /\ Receiving("progress")
  /\ LET p == Head(toRunner) IN
       IF (IF kind = "raw" THEN RawProgressValid(p) ELSE ProgressValid(p))
         THEN /\ phaseDone' = [phaseDone EXCEPT ![p.phase] = p.done]
              /\ phaseIndex' = PhaseOrder[p.phase]
              /\ Continue
         ELSE RunnerEnds("bad-progress") /\ UNCHANGED <<phaseDone, phaseIndex>>
  /\ UNCHANGED <<toHelper, commitSent, cancelSent, preparedSeen, mutationSeen, succeeded>>

ReceiveSuccess ==
  /\ Receiving("success")
  /\ succeeded' = TRUE
  /\ rpc' = "wait"
  /\ UNCHANGED <<closed, report, toHelper, commitSent, cancelSent, preparedSeen, mutationSeen,
                 phaseDone, phaseIndex>>

-----------------------------------------------------------------------------
(* The runner: the exit status and the result. *)

WaitForExit ==
  /\ rpc = "wait" /\ ~Alive
  /\ rpc' = "outcome"
  /\ RunnerOnly /\ UNCHANGED <<closed, flags, seen, report>>

\* 30 s after the result: only a helper that has reported success is signalled.
WaitTimesOut ==
  /\ rpc = "wait" /\ Alive
  /\ RunnerEnds("error")
  /\ IF succeeded THEN MayStop ELSE UNCHANGED helperVars
  /\ UNCHANGED <<toRunner, toHelper, userVars, flags, seen>>

Diagnostic == exit \in {"refused", "failed"}

\* The code checks everything again before it believes a result.
ResultValid ==
  /\ preparedSeen /\ commitSent /\ mutationSeen
  /\ \A p \in Phases :
       phaseDone[p] = IF p \in DOMAIN ExpectedTotals THEN ExpectedTotals[p] ELSE -1

Conclude ==
  /\ rpc = "outcome"
  /\ RunnerEnds(IF succeeded /\ (toRunner # <<>> \/ Broken) THEN "error"
                ELSE IF exit # "success" \/ ~succeeded
                  THEN IF cancelled /\ ~succeeded /\ ~commitSent /\ ~Diagnostic
                         THEN "cancelled" ELSE "error"
                ELSE IF ResultValid THEN "success" ELSE "mismatch")
  /\ RunnerOnly /\ UNCHANGED <<flags, seen>>

-----------------------------------------------------------------------------
(* The runner: the finally clause. *)

Returning == rpc = "finally" /\ rpc' = "done"
             /\ UNCHANGED <<toRunner, toHelper, closed, userVars, flags, seen, report>>

\* A helper without a request is stopped; one that has it is left to a thread that
\* waits for it.
Return ==
  Returning /\ kind # "grub" /\ IF requestSent THEN UNCHANGED helperVars ELSE MayStop

\* A helper without a commit is stopped; _wait_for_committed_helper waits for any other.
Quarantine == ~Alive /\ UNCHANGED helperVars
QuarantinedReturn == Returning /\ kind = "grub" /\ IF commitSent THEN Quarantine ELSE MayStop

-----------------------------------------------------------------------------

\* Steps of the helper that need nobody's decision.
HelperRuns ==
  /\ \/ HelperReceivesRequest \/ RequestFails \/ PreflightProgress \/ PreflightFails
     \/ PrepareMutation \/ BeginMutation \/ NoCommit \/ MutationProgress \/ MediumStep
     \/ MutationFails \/ Deactivate \/ HelperFails \/ SendSuccess \/ HelperExits
  /\ UNCHANGED kind

\* _receive_packet, without its deadline.
Polls ==
  ReadFlags \/ SendCancel \/ SelectTimesOut \/ ReceiveFails \/ EndOfChannel \/ PollProcess

\* _invoke_helper, up to the last packet, and after it.
HandshakePolls == ReceiveReady \/ HandshakeEnds \/ TransferRequest \/ MarkRequestSent
Answers == ReceivePrepared \/ ReceiveMutationStarted \/ ReceiveProgress \/ ReceiveSuccess
Concludes == WaitForExit \/ Conclude

Runner ==
  /\ HandshakePolls \/ Polls \/ Answers \/ Concludes \/ Return \/ QuarantinedReturn
  /\ UNCHANGED kind

HandshakeDeadline == HandshakeStalls /\ UNCHANGED kind
Deadline == Stall /\ UNCHANGED kind
ExitDeadline == WaitTimesOut /\ UNCHANGED kind

\* The three runners, each with its copy of the loop.
RawRunner == kind = "raw" /\ (Runner \/ HandshakeDeadline \/ Deadline \/ ExitDeadline)

SyslinuxPolls == Polls \/ HandshakeStalls \/ Stall
SyslinuxInvokes == HandshakePolls \/ Answers
SyslinuxConcludes == Concludes \/ WaitTimesOut \/ Return
SyslinuxRunner ==
  kind = "syslinux" /\ (SyslinuxPolls \/ SyslinuxInvokes \/ SyslinuxConcludes) /\ UNCHANGED kind

GrubPolls == Polls \/ HandshakeStalls \/ Stall
GrubInvokes == HandshakePolls \/ Answers
GrubConcludes == Concludes \/ WaitTimesOut \/ QuarantinedReturn
GrubRunner ==
  kind = "grub" /\ (GrubPolls \/ GrubInvokes \/ GrubConcludes) /\ UNCHANGED kind

Others ==
  /\ \/ HelperReady \/ AuthenticationFails \/ HelperKilled
     \/ UserCancels \/ CancelTerminates \/ ApplicationDies \/ HandshakeKill
  /\ UNCHANGED kind

ProtocolNext == HelperRuns \/ RawRunner \/ SyslinuxRunner \/ GrubRunner \/ Others

ProtocolSpec == ProtocolInit /\ [][ProtocolNext]_protocolVars

\* The application is scheduled and its clock passes every deadline; nothing is
\* assumed of the helper, of the user or of the authentication dialog.
RunnerFairness ==
  /\ WF_protocolVars(Runner)
  /\ WF_protocolVars(ExitDeadline)
  /\ SF_protocolVars(HandshakeDeadline)
  /\ SF_protocolVars(Deadline)

\* The helper is scheduled and its waits have deadlines; nothing is assumed of
\* the application.
HelperFairness == WF_protocolVars(HelperRuns)

-----------------------------------------------------------------------------
(* Properties. *)

\* "Cancelled" and "no write commit was sent" are final: from that report on, no
\* step of a helper that may still be running changes the medium.
CancelledIsUntouched == report \in {"cancelled", "no-commit"} => view = "intact"

\* A result is only reported for a medium that the helper has activated and
\* verified, even if the user has cancelled meanwhile or packets were dropped.
SuccessIsActive == report = "success" => view = "active" /\ exit = "success"

\* The GRUB runner keeps its caller, and with it the target, quarantined until a
\* committed helper has ended.
QuarantineIsKept == kind = "grub" /\ rpc = "done" /\ report # "lost" /\ commitSent => ~Alive

\* What run() returned or raised is true of the medium, and the GRUB runner says it
\* last.
ReportIsTrue == CancelledIsUntouched /\ SuccessIsActive /\ QuarantineIsKept

\* COMMIT and CANCEL exclude each other, and nothing touches the medium before
\* the runner has chosen.  The signal that cancel() sends after it released the
\* lock, having seen no request, can be overtaken by the whole transfer, but never
\* by the commit.
OneDecision ==
  /\ ~(commitSent /\ cancelSent)
  /\ terminating => ~commitSent
  /\ view # "intact" \/ hpc \in {"mutating", "recovering", "result"} => commitSent

\* The decision is one, and only the medium, or a SIGKILL, ends a mutation before its
\* result: neither a runner that went away nor a full channel does.
DecisionIsFinal ==
  [][/\ OneDecision'
     /\ hpc = "mutating" /\ position <= Len(Script)
          => hpc' \in {"mutating", "recovering"} \/ exit' = "killed"]_protocolVars

\* The packets of a genuine helper satisfy the order that its runner enforces.
EveryProgressIsAccepted == report # "bad-progress"

\* So do those of the Syslinux, Windows and GRUB helpers.
ProgressIsAccepted == kind # "raw" => EveryProgressIsAccepted

\* The runner reports and returns, even if the helper never answers; the GRUB runner
\* does so when its helper comes to an end.
RunnerReports ==
  /\ RunnerFairness => <>(rpc \in {"finally", "done"})
  /\ RunnerFairness => <>(kind # "grub" => rpc = "done")
  /\ RunnerFairness /\ HelperFairness => <>(rpc = "done")

\* A helper that got a request ends, even if the application has gone: only the
\* dialog and the wait for the request have no deadline of their own.
HelperEnds ==
  HelperFairness => ((hpc \notin {"authenticating", "await-request"}) ~> (hpc = "exited"))

\* Neither end waits for the other for ever.
ConversationEnds == RunnerReports /\ HelperEnds

MediumOutcome ==
  CASE exit = "success" -> "succeeded"
    [] exit \in {"cancelled", "refused"} -> "untouched"
    [] exit \in {"failed", "killed"} -> "failed"
    [] OTHER -> "running"
\* The medium of this module keeps what it acknowledges; one that does not is the
\* matter of RawTransaction and MbrTransaction.
MediumMachine ==
  INSTANCE MediumActivation WITH reliable <- TRUE, outcome <- MediumOutcome
ImplementsActivation == MediumMachine!Spec
=============================================================================
