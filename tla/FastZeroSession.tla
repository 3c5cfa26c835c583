---------------------------- MODULE FastZeroSession -----------------------------
(***************************************************************************)
(* A fast zero: execute_fast_zero_helper_transaction of                    *)
(* isopropyl/syslinux_device_helper.py behind main(), and the unprivileged *)
(* FastZeroRunner of isopropyl/fast_zero.py.                               *)
(*                                                                         *)
(* Every chunk of the target is read, and zeroed unless it is zero         *)
(* already; then all of it is read back. Unlike the other profiles this    *)
(* one hears its peer after the commit. A cancellation, a peer that goes   *)
(* away and every failure lead to a clean-up of both ends of the target,   *)
(* and to a partial result if that clean-up can be verified. cancel()      *)
(* speaks to the helper by itself, also after COMMIT; a runner that gives  *)
(* a committed helper up drains the channel until the helper has ended.    *)
(*                                                                         *)
(* Progress packets are read in the order they were sent, so that the last *)
(* ones sent are what the runner compares the result with.                 *)
(***************************************************************************)
EXTENDS BlockDevice

CONSTANTS
  ChunkSize,  \* request.chunk_size, in sectors
  Boundary    \* FAST_ZERO_BOUNDARY_BYTES, in sectors

VARIABLES
  pc,        \* the step of the transaction about to run, or how it ended
  before,    \* history: the content of the target before the transaction
  written,   \* the chunks counted in written_chunks
  skipped,   \* the chunks counted in skipped_chunks
  verified,  \* number of chunks read back
  decision,  \* COMMIT or CANCEL on its way to the helper, "none" or "heard"
  peer,      \* what postcommit_cancel finds: "open", "cancel", "gone", or has "heard"
  cause      \* the exception that the except clause handles

asked == <<decision, peer>>
counters == <<written, skipped, verified>>
transactionVars ==
  <<pc, before, counters, asked, cause, page, dirty, dur, weak, swap, alien>>

Chunks == 0..(TargetTail \div ChunkSize)
SectorsOf(k) == {b \in Blocks : b \div ChunkSize = k}

\* _fast_zero_boundary_regions: overlapping regions are one.
Ends ==
  IF TargetTail + 1 <= 2 * Boundary THEN Blocks
  ELSE {b \in Blocks : b < Boundary \/ b > TargetTail - Boundary}

\* The chunks are taken in order: the next one is the number of those counted.
scanned == written \union skipped
Offset == Cardinality(scanned)

PreCommit == {"open", "prepared"}
Erasing == {"committed", "scan", "read", "identity", "write", "fsync", "flush", "readback",
            "final-identity"}
Cleaning == {"cleanup-identity", "cleanup-write", "cleanup-fsync", "cleanup-flush",
             "cleanup-verify", "cleanup-final"}
Running == PreCommit \union Erasing \union Cleaning
Partial == {"partial-cancel", "partial-failure"}
Ended == Partial \union {"success", "cancelled", "refused", "unknown", "killed", "powerloss"}

TransactionInit ==
  /\ pc = "open"
  /\ before \in [Blocks -> {"old", "zero"}]
  /\ written = {} /\ skipped = {} /\ verified = 0
  /\ decision = "none" /\ peer = "open" /\ cause = "none"
  /\ DeviceInit
  /\ dur = before

Step(from, to) == pc = from /\ pc' = to
Beside == UNCHANGED <<before, counters, asked, cause, weak, swap>>
Look(from, to) == Step(from, to) /\ Beside /\ UNCHANGED targetVars

SameGeneration == swap = "none"

-----------------------------------------------------------------------------
(* Before the commit, and the erasure. *)

OpenTarget == Look("open", "prepared") /\ SameGeneration
\* begin_mutation: a CANCEL may have come before PREPARED was sent.
Hears(d) ==
  /\ decision = d /\ decision' = "heard"
  /\ UNCHANGED <<before, counters, peer, cause, weak, swap, targetVars>>
Commit == Step("prepared", "committed") /\ Hears("commit")
CancelBeforeCommit == pc \in PreCommit /\ pc' = "cancelled" /\ Hears("cancel")

RecheckAfterCommit == Look("committed", "scan") /\ SameGeneration

\* postcommit_cancel is called at the border of each chunk and on entry of each
\* retry unit of its read and write.
Quiet == peer = "open"

NextChunk ==
  /\ Look("scan", IF scanned = Chunks THEN "fsync" ELSE "read")
  /\ Quiet

\* A chunk of zeroes only.
SkipChunk ==
  /\ Step("read", "scan") /\ Quiet
  /\ \A b \in SectorsOf(Offset) : MayRead(b, "zero")
  /\ skipped' = skipped \union {Offset}
  /\ UNCHANGED <<before, written, verified, asked, cause, weak, swap, targetVars>>

FindData ==
  /\ Look("read", "identity") /\ Quiet
  /\ \E b \in SectorsOf(Offset) : \E c \in Content \ {"zero"} : MayRead(b, c)

CheckIdentity == Look("identity", "write") /\ SameGeneration

WriteChunk ==
  /\ Step("write", "scan") /\ Quiet
  /\ Put(SectorsOf(Offset), "zero")
  /\ written' = written \union {Offset}
  /\ UNCHANGED <<before, skipped, verified, asked, cause, weak, swap>>

FsyncZero == Step("fsync", "flush") /\ Fsync /\ Beside

FlushZero == Step("flush", "readback") /\ FlushBuffers /\ Beside

ReadBack ==
  /\ pc = "readback" /\ verified \in Chunks /\ Quiet
  /\ \A b \in SectorsOf(verified) : MayRead(b, "zero")
  /\ verified' = verified + 1
  /\ UNCHANGED <<pc, before, written, skipped, asked, cause, weak, swap, targetVars>>

ReadBackDone == Look("readback", "final-identity") /\ verified \notin Chunks /\ Quiet

FinalIdentity == Look("final-identity", "success") /\ SameGeneration

-----------------------------------------------------------------------------
(* Exceptions, and the clean-up of the ends. *)

BeingWritten ==
  CASE pc = "write"         -> SectorsOf(Offset)
    [] pc = "cleanup-write" -> Ends
    [] OTHER                -> {}

Handler ==
  CASE pc \in PreCommit -> "refused"
    [] pc \in Erasing   -> "cleanup-identity"
    [] pc \in Cleaning  -> "unknown"

Raise(kind) ==
  /\ pc' = Handler
  /\ cause' = IF pc \in Cleaning THEN cause ELSE kind
  /\ UNCHANGED <<before, counters, decision, weak, swap>>

\* Any call may fail; some of a multi-sector write may have been accepted.
StepFails ==
  /\ pc \in Running
  /\ Raise("fault") /\ UNCHANGED peer
  /\ \E S \in SUBSET BeingWritten : Put(S, "zero")

FsyncFails ==
  /\ pc \in {"fsync", "cleanup-fsync"}
  /\ Raise("fault") /\ UNCHANGED peer
  /\ LoseDirty

\* postcommit_cancel raises: HelperCancelled on CANCEL, HelperRequestError when the
\* channel is closed.  A write may have been accepted in part.
PollRaises ==
  /\ pc \in {"scan", "read", "write", "readback"}
  /\ \/ peer = "cancel" /\ peer' = "heard" /\ Raise("cancel")
     \/ peer = "gone" /\ UNCHANGED peer /\ Raise("fault")
  /\ \E S \in SUBSET BeingWritten : Put(S, "zero")

\* Mutation: the ends are cleaned without a look at the identity.
CleanupIdentityForgotten == Look("cleanup-identity", "cleanup-write")

CleanupIdentity == Look("cleanup-identity", "cleanup-write") /\ SameGeneration

CleanupWrite == Step("cleanup-write", "cleanup-fsync") /\ Put(Ends, "zero") /\ Beside

CleanupFsync == Step("cleanup-fsync", "cleanup-flush") /\ Fsync /\ Beside

\* Mutation: the clean-up is verified against the page cache.
CleanupFlushForgotten == Look("cleanup-flush", "cleanup-verify")

CleanupFlush == Step("cleanup-flush", "cleanup-verify") /\ FlushBuffers /\ Beside

CleanupVerify ==
  Look("cleanup-verify", "cleanup-final") /\ \A b \in Ends : MayRead(b, "zero")

CleanupFinal ==
  /\ Look("cleanup-final", IF cause = "cancel" THEN "partial-cancel" ELSE "partial-failure")
  /\ SameGeneration

-----------------------------------------------------------------------------
(* The environment. *)

WriteBack ==
  /\ pc # "powerloss"
  /\ \E b \in dirty : WriteBackSector(b)
  /\ UNCHANGED pc /\ Beside

PowerLoss == pc \in Running /\ pc' = "powerloss" /\ LosePower /\ Beside
Kill == pc \in Running /\ Look(pc, "killed")

\* Somebody changes the medium: with nothing on its way to it, or after a look that
\* allows a write, or while written sectors are only cached.
Guarded == dirty = {} /\ pc \notin {"write", "cleanup-write"}
MediumReplaced ==
  /\ pc \in Running /\ swap = "none"
  /\ swap' = IF Guarded THEN "guarded" ELSE "exposed"
  /\ UNCHANGED <<pc, before, written, skipped, verified, asked, cause, weak, targetVars>>

\* Everything but the opening and the decision.
Works ==
  \/ RecheckAfterCommit \/ NextChunk \/ SkipChunk \/ FindData \/ CheckIdentity \/ WriteChunk
  \/ FsyncZero \/ FlushZero \/ ReadBack \/ ReadBackDone \/ FinalIdentity
  \/ StepFails \/ FsyncFails \/ PollRaises
  \/ CleanupIdentity \/ CleanupWrite \/ CleanupFsync \/ CleanupFlush
  \/ CleanupVerify \/ CleanupFinal

Machine == WriteBack \/ PowerLoss \/ Kill \/ MediumReplaced

-----------------------------------------------------------------------------
(* What the transaction promises. *)

\* A reported success is a target that holds nothing but zeroes, durably, the
\* chunks that were not written among them, and nothing went to another medium.
SuccessIsZero ==
  pc = "success" => (\A b \in Blocks : dur[b] = "zero") /\ dirty = {} /\ alien = {}

\* A partial result claims a verified clean-up: both ends of the authorized target
\* are durably zero, whatever had failed before, also a lost fsync.
PartialIsInert ==
  pc \in Partial => (\A b \in Ends : dur[b] = "zero") /\ dirty = {}

\* "Partial-result counters cover only fully completed chunks": what has changed on
\* the medium lies in a chunk counted as written, in the one chunk that was in
\* flight, or at the ends that the clean-up has begun to zero; and what was counted
\* before a cancellation is zero where the medium keeps what is written.
AccountingIsTrue ==
  /\ \A b \in Blocks : dur[b] # before[b] =>
       \/ b \div ChunkSize \in written
       \/ b \div ChunkSize = Offset /\ pc \notin PreCommit \union {"refused", "cancelled"}
       \/ b \in Ends /\ cause # "none"
  /\ pc = "partial-cancel" =>
       \A b \in Blocks : b \div ChunkSize \in scanned => dur[b] = "zero" \/ b \in weak

\* What the transaction returns is true of the medium: all of it.
OutcomeIsTrue == SuccessIsZero /\ PartialIsInert /\ AccountingIsTrue

\* A medium that took the place of the target while nothing was on its way to it gets
\* no byte: each chunk and the clean-up look at the identity before they write.
ReplacementIsSpared == swap = "guarded" => alien = {}

-----------------------------------------------------------------------------
VARIABLES
  rpc,         \* what run() is doing
  cancelled,   \* FastZeroRunner._cancelled
  control,     \* CANCEL of cancel(): "none", "sent" (_cancel_sent), "failed" (_control_error)
  requestSent, \* _request_sent
  committed,   \* _commit_sent
  terminal,    \* the result packet that was received, or "none"
  report,      \* how run() ended
  packet,      \* the last PREPARED or result packet that was not read, or "none"
  told,        \* the progress that was sent
  connected,   \* _ProtocolProgress._connected
  exited       \* the helper: running, replied, and its end: done, diagnostic, silent

runnerVars == <<rpc, cancelled, control, requestSent, committed, terminal, report>>
helperEnd == <<packet, told, connected, exited>>
vars == <<transactionVars, runnerVars, helperEnd>>

Alive == exited \in {"running", "replied"}

TypeOK ==
  /\ pc \in Running \union Ended
  /\ before \in [Blocks -> {"old", "zero"}]
  /\ written \subseteq Chunks /\ skipped \subseteq Chunks
  /\ verified \in 0..Cardinality(Chunks)
  /\ decision \in {"none", "commit", "cancel", "heard"}
  /\ peer \in {"open", "cancel", "gone", "heard"}
  /\ cause \in {"none", "cancel", "fault"}
  /\ rpc \in {"handshake", "receive", "wait", "finally", "done"}
  /\ control \in {"none", "sent", "failed"}
  /\ {cancelled, requestSent, committed, connected} \subseteq BOOLEAN
  /\ terminal \in Partial \union {"none", "success"}
  /\ report \in Partial \union {"none", "success", "cancelled", "error", "mismatch", "lost"}
  /\ packet \in Partial \union {"none", "prepared", "success"}
  /\ exited \in {"running", "replied", "done", "diagnostic", "silent"}
  /\ DeviceTypeOK

Nothing == [mutation |-> FALSE, scanning |-> 0, readback |-> 0, cleanup |-> FALSE]

Init ==
  /\ TransactionInit
  /\ rpc = "handshake" /\ cancelled = FALSE /\ control = "none" /\ requestSent = FALSE
  /\ committed = FALSE /\ terminal = "none" /\ report = "none"
  /\ packet = "none" /\ connected = TRUE /\ exited = "running"
  /\ told = Nothing

-----------------------------------------------------------------------------
(* The helper's side of the channel. *)

\* prepare_mutation sends PREPARED, to a runner that is still there.
HelperPrepares ==
  /\ OpenTarget /\ requestSent /\ rpc # "done"
  /\ packet' = "prepared"
  /\ UNCHANGED <<told, connected, exited>>

\* A progress packet that finds the channel full ends the reporting for good.  The
\* counters only grow, so that no comparison with what was told before can succeed.
Tell(t) ==
  \/ connected /\ told' = t /\ UNCHANGED connected
  \/ t # told /\ connected' = FALSE /\ told' = Nothing
  \/ ~connected /\ UNCHANGED <<told, connected>>

HelperCommits ==
  /\ Commit
  /\ Tell([told EXCEPT !.mutation = TRUE])
  /\ UNCHANGED <<packet, exited>>

HelperIsCancelled == CancelBeforeCommit /\ UNCHANGED helperEnd

\* A chunk is reported after it was counted, with no call in between.
HelperWorks ==
  /\ Works
  /\ Tell([told EXCEPT !.scanning = Cardinality((written \union skipped)'),
                       !.readback = verified',
                       !.cleanup = @ \/ pc' = "cleanup-final"])
  /\ UNCHANGED <<packet, exited>>

\* main: a result that cannot be sent is no failure.
HelperReplies ==
  /\ exited = "running" /\ pc \in Partial \union {"success"}
  /\ exited' = "replied"
  /\ \/ packet' = pc
     \/ (~connected \/ rpc = "done") /\ UNCHANGED packet
  /\ UNCHANGED <<transactionVars, told, connected>>

HelperExits ==
  /\ \/ exited = "replied" /\ exited' = "done"
     \/ exited = "running" /\ pc \in {"refused", "unknown"} /\ exited' = "diagnostic"
     \/ exited = "running" /\ pc \in {"cancelled", "killed"} /\ exited' = "silent"
  /\ UNCHANGED <<transactionVars, packet, told, connected>>

Serve ==
  /\ \/ HelperPrepares \/ HelperCommits \/ HelperIsCancelled \/ HelperWorks
     \/ HelperReplies \/ HelperExits
  /\ UNCHANGED runnerVars

-----------------------------------------------------------------------------
(* FastZeroRunner: cancel(), in any thread and under the lock. *)

MayCancel == ~cancelled /\ rpc # "done" /\ cancelled' = TRUE

\* A helper that has no request is terminated, if the kernel allows it.
CancelEarly ==
  /\ MayCancel /\ ~requestSent /\ Alive
  /\ \/ pc = "open" /\ pc' = "killed"
     \/ UNCHANGED pc
  /\ UNCHANGED <<before, counters, asked, cause, weak, swap, targetVars, helperEnd,
                 rpc, control, requestSent, committed, terminal, report>>

\* CANCEL goes out at once: a decision before COMMIT, a message to the polls after it.
\* A helper that is about to exit may have closed its end.
CancelLate ==
  /\ MayCancel /\ requestSent /\ Alive
  /\ \/ /\ control' = "sent"
        /\ IF committed THEN peer' = "cancel" /\ UNCHANGED decision
                        ELSE decision' = "cancel" /\ UNCHANGED peer
     \/ exited = "replied" /\ control' = "failed" /\ UNCHANGED asked
  /\ UNCHANGED <<pc, before, counters, cause, weak, swap, targetVars, helperEnd,
                 rpc, requestSent, committed, terminal, report>>

CancelTooLate ==
  /\ MayCancel /\ ~Alive
  /\ UNCHANGED <<transactionVars, helperEnd, rpc, control, requestSent, committed, terminal,
                 report>>

-----------------------------------------------------------------------------
(* FastZeroRunner._invoke_helper. *)

Run(from, to) == rpc = from /\ rpc' = to
HelperAside == UNCHANGED <<transactionVars, told, connected, exited, cancelled, control>>
Only(from, to) == Run(from, to) /\ HelperAside /\ UNCHANGED <<requestSent, committed, terminal>>

\* An exception, kept in report until the finally clause has ended.
Raises(from, kind) == Only(from, "finally") /\ report' = kind /\ UNCHANGED packet

HandshakeFails ==
  \E kind \in {"error", "cancelled"} : Raises("handshake", kind) /\ (kind = "cancelled" => cancelled)

\* READY has come; the look at the cancellation and the request are one block.
SendRequest ==
  /\ Run("handshake", "receive") /\ ~cancelled /\ exited = "running"
  /\ requestSent' = TRUE
  /\ UNCHANGED <<committed, terminal, report, packet>> /\ HelperAside

\* A peer that exits with unread packets in its queue resets the channel: the next
\* receive fails, even if a result is waiting.
Reset == ~Alive /\ (decision \in {"commit", "cancel"} \/ peer = "cancel")
Readable == ~Reset /\ control # "failed"

ReceiveFails == Raises("receive", "error") /\ ~Readable

\* PREPARED, after a CANCEL: nothing more is decided.
ReceivePrepared ==
  /\ Only("receive", "receive") /\ Readable /\ packet = "prepared" /\ control = "sent"
  /\ packet' = "none" /\ UNCHANGED report

\* _decide_prepared, under the lock of cancel().
DecidePrepared ==
  /\ Run("receive", "receive") /\ Readable /\ packet = "prepared" /\ control = "none" /\ Alive
  /\ packet' = "none"
  /\ decision' = "commit" /\ committed' = TRUE
  /\ UNCHANGED <<pc, before, counters, peer, cause, weak, swap, targetVars, told, connected,
                 exited, cancelled, control, requestSent, terminal, report>>

DecisionFails ==
  Raises("receive", "error") /\ Readable /\ packet = "prepared" /\ control = "none" /\ ~Alive

ReceiveTerminal ==
  /\ Run("receive", "wait") /\ Readable /\ packet \in Partial \union {"success"}
  /\ terminal' = packet /\ packet' = "none"
  /\ UNCHANGED <<requestSent, committed, report>> /\ HelperAside

\* poll() after a select that was empty: what came in between is not received.  Every
\* wait begins with an empty queue.
PollExited == Only("receive", "wait") /\ ~Alive /\ UNCHANGED <<packet, report>>

\* 300 s without a packet, of a helper that still runs.
Stall == Raises("receive", IF ~committed /\ cancelled THEN "cancelled" ELSE "error") /\ Alive

WaitTimesOut == Raises("wait", "error") /\ Alive

\* unpack_fast_zero_server_packet refuses a result that contradicts itself.
Decodes(outcome) ==
  /\ Cardinality(scanned) = Cardinality(written) + Cardinality(skipped)
  /\ IF outcome = "success"
       THEN cause = "none" /\ scanned = Chunks /\ verified = Cardinality(Chunks)
       ELSE cause # "none" /\ (outcome = "partial-cancel") = (cause = "cancel")

\* _valid_classified_chunk_bytes: whole chunks, and perhaps the shorter last one.
ValidClassified(bytes, chunks, total) ==
  LET tail == total % ChunkSize
      full == total \div ChunkSize
  IN IF tail = 0 THEN bytes = chunks * ChunkSize
     ELSE \/ chunks <= full /\ bytes = chunks * ChunkSize
          \/ chunks >= 1 /\ chunks - 1 <= full /\ bytes = (chunks - 1) * ChunkSize + tail

Bytes(chunks) == Cardinality(UNION {SectorsOf(k) : k \in chunks})

\* _validate_accounting, of the counters in the result and the progress seen.
AccountingValid ==
  LET total == Bytes(scanned) IN
  /\ told.mutation
  /\ total = Bytes(written) + Bytes(skipped)
  /\ Offset = (total + ChunkSize - 1) \div ChunkSize
  /\ ValidClassified(Bytes(written), Cardinality(written), total)
  /\ ValidClassified(Bytes(skipped), Cardinality(skipped), total)
  /\ told.scanning = Offset /\ told.readback = verified
  /\ IF terminal = "success"
       THEN scanned = Chunks /\ verified = Cardinality(Chunks) /\ ~told.cleanup
       ELSE told.cleanup

\* The exit, what is read after it, and the exception or result that is made of it.
Conclude ==
  /\ Only("wait", "finally") /\ ~Alive
  /\ report' =
       IF terminal # "none" /\ Reset THEN "error"
       ELSE IF terminal = "none" \/ exited # "done"
         THEN IF cancelled /\ ~committed /\ terminal = "none" /\ exited = "silent"
                THEN "cancelled" ELSE "error"
       ELSE IF Decodes(terminal) /\ AccountingValid THEN terminal ELSE "mismatch"
  /\ UNCHANGED packet

-----------------------------------------------------------------------------
(* The finally clause, and _stop_and_reap. *)

\* The channel is closed last.
Closes == peer' \in (IF peer = "open" THEN {"gone"} ELSE {peer, "gone"})

Finished ==
  /\ rpc = "finally" /\ ~Alive
  /\ rpc' = "done"
  /\ UNCHANGED <<transactionVars, helperEnd, cancelled, control, requestSent, committed,
                 terminal, report>>

SafeToKill == terminal # "none" \/ ~committed

\* SIGTERM and SIGKILL; a helper that they do not reach is left to a thread.
StopAndReap ==
  /\ Run("finally", "done") /\ Alive /\ SafeToKill
  /\ \/ pc \in Running /\ pc' = "killed"
     \/ UNCHANGED pc
  /\ Closes
  /\ UNCHANGED <<before, counters, decision, cause, weak, swap, targetVars, helperEnd,
                 cancelled, control, requestSent, committed, terminal, report>>

\* A committed helper is waited for, and what it sends is thrown away.
Drain ==
  /\ Only("finally", "finally") /\ Alive /\ ~SafeToKill
  /\ packet # "none" /\ packet' = "none" /\ UNCHANGED report

\* The application crashes; the kernel closes the channel.
ApplicationDies ==
  /\ rpc # "done" /\ rpc' = "done" /\ report' = "lost"
  /\ Closes
  /\ UNCHANGED <<pc, before, counters, decision, cause, weak, swap, targetVars, helperEnd,
                 cancelled, control, requestSent, committed, terminal>>

Runner ==
  /\ pc # "powerloss"
  /\ \/ CancelEarly \/ CancelLate \/ CancelTooLate
     \/ HandshakeFails \/ SendRequest \/ ReceiveFails \/ ReceivePrepared \/ DecidePrepared
     \/ DecisionFails \/ ReceiveTerminal \/ PollExited \/ Stall \/ WaitTimesOut \/ Conclude
     \/ Finished \/ StopAndReap \/ Drain \/ ApplicationDies

Environment == Machine /\ UNCHANGED <<runnerVars, helperEnd>>

Next == Serve \/ Runner \/ Environment

Spec == Init /\ [][Next]_vars

-----------------------------------------------------------------------------
(* Properties. *)

Untouched == dur = before /\ dirty = {} /\ alien = {}

\* What the helper makes of the disk, and what run() says of it: a result that is
\* returned is the helper's, an error without COMMIT and a cancellation are of an
\* untouched disk, and a genuine result is only refused if progress packets were lost.
ReportIsTrue ==
  /\ OutcomeIsTrue
  /\ rpc = "done" =>
       /\ report \in Partial \union {"success"} => pc = report
       /\ report = "cancelled" \/ ~committed => Untouched
       /\ report = "mismatch" => ~connected

\* run() does not return from a committed erasure while root may still write.
ReturnsLast == rpc = "done" /\ committed /\ report # "lost" => pc \notin Running
=================================================================================
