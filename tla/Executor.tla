------------------------------- MODULE Executor --------------------------------
(***************************************************************************)
(* What the executors share that work on a drive through commands of the   *)
(* system: a worker thread that looks at the identity of the drive, runs   *)
(* one privileged command at a time under the advisory lock of the whole   *)
(* device, and a cancel() in another thread.  A command opens the drive by *)
(* its path, some time after it was started; another drive may have that   *)
(* path by then.  A command that pkexec has made root's can often not be   *)
(* killed.                                                                 *)
(***************************************************************************)
EXTENDS Naturals, FiniteSets

VARIABLES
  kind,       \* the executor
  pc,         \* the step at which its worker stands
  signal,     \* the step at which cancel() stands, in the other thread
  cancelled,  \* the event that cancel() sets
  target,     \* the drive that has the path now: "ours" or "other"
  disk,       \* the commands that went through on our drive; "touched", "damaged",
              \* and "moved", a partition that is not where it was planned
  harm,       \* the commands that opened the other drive, or ours while it was in use
  mounts,     \* what is mounted of the drive: "old", and "mine" by the executor
  child,      \* the command that runs
  stray,      \* a command that the worker gave up, or "none"
  input,      \* the staged tree, image or configuration: "bound" or "changed"
  told        \* the report that is on its way to the caller

request == <<signal, cancelled>>
medium == <<disk, harm, mounts>>
process == <<child, stray>>
executorVars == <<kind, pc, request, target, medium, process, input, told>>

NoChild == [task |-> "none", state |-> "none", on |-> "nothing", killable |-> TRUE, known |-> FALSE]

ExecutorInit(start) ==
  /\ pc = start /\ signal = "idle" /\ cancelled = FALSE
  /\ target = "ours" /\ disk = {} /\ harm = {} /\ mounts \in SUBSET {"old"}
  /\ child = NoChild /\ stray = "none" /\ input = "bound"
  /\ told = [outcome |-> "none", incomplete |-> FALSE, leftover |-> FALSE, unmounted |-> FALSE]

Finished == pc = "done"

-----------------------------------------------------------------------------
(* The worker. *)

Goto(from, to) == pc = from /\ pc' = to

Passes(from, to) == Goto(from, to) /\ UNCHANGED <<kind, request, target, medium, process, input, told>>

\* _assert_identity, _verify_device, _verify_target: the path still names our drive.
Looks(from, to) == ~cancelled /\ target = "ours" /\ Passes(from, to)

Reports(from, to, report) ==
  /\ Goto(from, to) /\ told' = report
  /\ UNCHANGED <<kind, request, target, medium, process, input>>

Ends(from, to, outcome) == Reports(from, to, [told EXCEPT !.outcome = outcome])

\* An error that can happen at any of these steps, or a look at the event.
Interrupted(steps, to) ==
  \E from \in steps : Ends(from, to, "failure") \/ (cancelled /\ Ends(from, to, "cancelled"))

Succeeds(from, to) == Reports(from, to, [told EXCEPT !.outcome = "success", !.incomplete = FALSE])

Changes(from, to, what) ==
  /\ Goto(from, to) /\ disk' = what
  /\ UNCHANGED <<kind, request, target, harm, mounts, process, input, told>>

\* udisksctl unmount of every partition.  The answer that nothing is mounted is not
\* believed: the next look at the drive must show no mount.
Unmount(from, to, inactive) ==
  /\ ~cancelled /\ target = "ours"
  /\ \/ Goto(from, to) /\ mounts' = mounts \ {"old"}
     \/ Goto(from, inactive) /\ mounts' \in {mounts, mounts \ {"old"}}
  /\ UNCHANGED <<kind, request, target, disk, harm, process, input, told>>

\* Mutation: the answer is believed.
SecondLookTrusts(from, inactive, to) == Looks(from, to) \/ Looks(inactive, to)

SecondLook(from, inactive, to) == Looks(from, to) \/ ("old" \notin mounts /\ Looks(inactive, to))

Spawn(from, to, task) ==
  /\ Goto(from, to)
  /\ \E killable \in BOOLEAN :
       child' = [NoChild EXCEPT !.task = task, !.state = "running", !.killable = killable]
  /\ UNCHANGED <<kind, request, target, medium, stray, input, told>>

\* The command has ended well.
Waits(from, to) == ~cancelled /\ child.state = "ended" /\ Passes(from, to)

\* The command has ended, with an error or after a cancellation.
WaitFails(from, to) == child.state \in {"ended", "failed", "killed"} /\ Interrupted({from}, to)

\* SIGTERM, then SIGKILL; a process of root's may refuse both.
Stopped == IF child.state = "running" /\ child.killable THEN [child EXCEPT !.state = "killed"] ELSE child

Gives(from, to, report, after) ==
  /\ Goto(from, to) /\ child' = after[1] /\ stray' = after[2] /\ told' = report
  /\ UNCHANGED <<kind, request, target, medium, input>>

\* Mutation: the worker does not wait for a command that it could not kill.
StopsAndLeaves(from, to) ==
  \E outcome \in {"failure"} \cup IF cancelled THEN {"cancelled"} ELSE {} :
    Gives(from, to, [told EXCEPT !.outcome = outcome],
          IF Stopped.state = "running" THEN <<NoChild, child.task>> ELSE <<Stopped, stray>>)

\* FormatExecutor._stop_process, at a cancellation or the deadline: it gives up nothing
\* that is alive.
StopsForSure(from, to) ==
  \E outcome \in {"failure"} \cup IF cancelled THEN {"cancelled"} ELSE {} :
    /\ Stopped.state # "running"
    /\ Gives(from, to, [told EXCEPT !.outcome = outcome], <<Stopped, stray>>)

\* _terminate_and_reap, _terminate_process: after the second time-out the worker gives
\* the command up, and the error says so.
StopsInTime(from, to) ==
  \/ StopsForSure(from, to)
  \/ /\ Stopped.state = "running"
     /\ Gives(from, to, [told EXCEPT !.outcome = "failure", !.leftover = TRUE], <<NoChild, child.task>>)

\* udisksctl power-off of whatever has the path.
PowerOff(from, to) ==
  /\ Goto(from, to)
  /\ harm' = IF target = "other" THEN harm \cup {"power-off"} ELSE harm
  /\ UNCHANGED <<kind, request, target, disk, mounts, process, input, told>>

-----------------------------------------------------------------------------
(* The command, cancel(), and the environment. *)

\* A command that cannot have the lock ends at once.
ChildOpens ==
  /\ child.state = "running" /\ child.on = "nothing"
  /\ IF stray # "none" THEN child' = [child EXCEPT !.state = "failed"] /\ UNCHANGED <<disk, harm>>
     ELSE /\ child' = [child EXCEPT !.on = target]
          /\ IF child.task = "read" THEN UNCHANGED <<disk, harm>>
             ELSE IF target = "other" THEN harm' = harm \cup {child.task} /\ UNCHANGED disk
             ELSE /\ disk' = disk \cup {"touched"}
                  /\ harm' = IF "old" \in mounts THEN harm \cup {"in use"} ELSE harm
  /\ UNCHANGED <<kind, pc, request, target, mounts, stray, input, told>>

Done(task) ==
  IF task = "delete" THEN disk \ {"part", "fs1"}
  ELSE IF task = "read" THEN disk
  ELSE (disk \cup {task}) \cup IF task = "image" /\ input = "changed" THEN {"damaged"} ELSE {}

\* sfdisk may round a partition, or cut it to what it can write.
Ways(task) == {Done(task)} \cup IF task \in {"table", "part"} THEN {Done(task) \cup {"moved"}} ELSE {}

\* A drive that was pulled out takes nothing any more.
ChildEnds ==
  /\ child.state = "running" /\ child.on # "nothing"
  /\ \/ child.on = target /\ child' = [child EXCEPT !.state = "ended"]
        /\ disk' \in IF child.on = "ours" THEN Ways(child.task) ELSE {disk}
     \/ child' = [child EXCEPT !.state = "failed"] /\ UNCHANGED disk
  /\ UNCHANGED <<kind, pc, request, target, harm, mounts, stray, input, told>>

ChildGoesOn == ChildOpens \/ ChildEnds

StrayEnds ==
  /\ stray # "none" /\ stray' = "none"
  /\ disk' \in {disk} \cup IF target = "ours" THEN Ways(stray) ELSE {}
  /\ UNCHANGED <<kind, pc, request, target, harm, mounts, child, input, told>>

CancelSets ==
  /\ signal = "idle" /\ ~Finished
  /\ signal' = "signals" /\ cancelled' = TRUE
  /\ UNCHANGED <<kind, pc, target, medium, process, input, told>>

\* Mutation: cancel() sets the event and no more.
CancelSetsOnly ==
  /\ signal = "signals" /\ signal' = "done"
  /\ UNCHANGED <<kind, pc, cancelled, target, medium, process, input, told>>

CancelSignals ==
  /\ signal = "signals" /\ signal' = "done"
  /\ child' = IF child.known THEN Stopped ELSE child
  /\ UNCHANGED <<kind, pc, cancelled, target, medium, stray, input, told>>

\* Somebody pulls the drive out and plugs another in, which gets the same path.
Exchanged ==
  /\ target = "ours" /\ ~Finished /\ target' = "other"
  /\ mounts' = {}
  /\ UNCHANGED <<kind, pc, request, disk, harm, process, input, told>>

InputChanges ==
  /\ input = "bound" /\ ~Finished /\ input' = "changed"
  /\ UNCHANGED <<kind, pc, request, target, medium, process, told>>

Environment == ChildGoesOn \/ StrayEnds \/ CancelSets \/ Exchanged \/ InputChanges
=============================================================================
