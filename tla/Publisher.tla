------------------------------- MODULE Publisher --------------------------------
(***************************************************************************)
(* The state and the steps that the publishing components share: a worker  *)
(* thread that prepares a private file and gives it its name in one step,  *)
(* a cancel() in another thread, a child process that the worker reads,    *)
(* and an environment in which files appear, inputs change, names cannot   *)
(* be removed and the process dies.                                        *)
(***************************************************************************)
EXTENDS Naturals, FiniteSets

CONSTANT Size   \* the blocks of the file

ASSUME SizeAssumption == Size \in Nat \ {0}

VARIABLES
  pc,         \* the step at which the worker stands
  signal,     \* the step at which cancel() stands, in the other thread
  cancelled,  \* the event that cancel() sets
  entry,      \* the requested name: "absent", "foreign", "ours", "earlier"
  image,      \* the private file: its blocks; whether they are right; durable; as bound
  private,    \* what is still there of the worker's own names or descriptors
  stubborn,   \* the names that the file system refuses to remove
  input,      \* what is read: "bound" or "changed" since it was bound
  child,      \* the process or operation that the worker runs
  told        \* the report that is on its way to the caller

publisherVars == <<pc, signal, cancelled, entry, image, private, stubborn, input, child, told>>

Nothing == [outcome |-> "none", published |-> FALSE, leftover |-> FALSE]
Empty == [done |-> 0, right |-> TRUE, durable |-> FALSE, bound |-> TRUE]
NoChild == [state |-> "none", known |-> FALSE, killable |-> TRUE, heard |-> FALSE, task |-> "none"]

PublisherInit(tasks, names) ==
  /\ pc = "idle" /\ signal = "idle" /\ cancelled = FALSE
  /\ entry \in {"absent", "foreign"}
  /\ image = Empty /\ private = {} /\ input = "bound"
  /\ stubborn \in {{}} \cup {{n} : n \in names}
  /\ \E task \in tasks : child = [NoChild EXCEPT !.task = task]
  /\ told = Nothing

Finished == pc \in {"done", "off"}
Complete == image.done = Size /\ image.right

-----------------------------------------------------------------------------
(* Steps of the worker.  Each names the variables it leaves to its caller. *)

Goto(from, to) == pc = from /\ pc' = to

\* A step that only moves on.
Passes(from, to) ==
  Goto(from, to) /\ UNCHANGED <<signal, cancelled, entry, image, private, stubborn, input, child, told>>

\* A step that changes the private file alone.
Makes(from, to, result) ==
  /\ Goto(from, to) /\ image' = result
  /\ UNCHANGED <<signal, cancelled, entry, private, stubborn, input, child, told>>

Keeps(from, to, names) ==
  /\ Goto(from, to) /\ private' = names
  /\ UNCHANGED <<signal, cancelled, entry, image, stubborn, input, child, told>>

HasChild(from, to, process) ==
  /\ Goto(from, to) /\ child' = process
  /\ UNCHANGED <<signal, cancelled, entry, image, private, stubborn, input, told>>

\* An exception, or the return value, starts its way through the finally clauses.
Reports(from, to, report) ==
  /\ Goto(from, to) /\ told' = report
  /\ UNCHANGED <<signal, cancelled, entry, image, private, stubborn, input, child>>

Ends(from, to, outcome) == Reports(from, to, [told EXCEPT !.outcome = outcome])

\* BackupPublishError: a failure that says that the name was given.
EndsPublished(from, to) == Reports(from, to, [told EXCEPT !.outcome = "failure", !.published = TRUE])

\* A check of the event, or an error that can happen at any of these steps.
Interrupted(steps, to) ==
  \E from \in steps : (cancelled /\ Ends(from, to, "cancelled")) \/ Ends(from, to, "failure")

\* os.link or renameat2 with RENAME_NOREPLACE: never over an existing name.
GivesName(from, to, refused) ==
  /\ IF entry = "absent"
       THEN Goto(from, to) /\ entry' = "ours" /\ UNCHANGED told
       ELSE Goto(from, refused) /\ told' = [told EXCEPT !.outcome = "failure"] /\ UNCHANGED entry
  /\ UNCHANGED <<signal, cancelled, image, private, stubborn, input, child>>

Stopped(process) ==
  IF process.state = "running" /\ process.killable THEN [process EXCEPT !.state = "killed"] ELSE process

-----------------------------------------------------------------------------
(* cancel() in the other thread, and the environment. *)

CancelSets ==
  /\ signal = "idle" /\ ~Finished
  /\ signal' = "read" /\ cancelled' = TRUE
  /\ UNCHANGED <<pc, entry, image, private, stubborn, input, child, told>>

CancelReads ==
  /\ signal = "read" /\ signal' = IF child.known THEN "stop" ELSE "done"
  /\ UNCHANGED <<pc, cancelled, entry, image, private, stubborn, input, child, told>>

CancelStops ==
  /\ signal = "stop" /\ signal' = "done"
  /\ child' = Stopped(child)
  /\ UNCHANGED <<pc, cancelled, entry, image, private, stubborn, input, told>>

Cancels == CancelReads \/ CancelStops

SomebodyCreates ==
  /\ entry = "absent" /\ entry' = "foreign"
  /\ UNCHANGED <<pc, signal, cancelled, image, private, stubborn, input, child, told>>

InputChanges ==
  /\ input = "bound" /\ ~Finished /\ input' = "changed"
  /\ UNCHANGED <<pc, signal, cancelled, entry, image, private, stubborn, child, told>>

\* Another process of the same user writes to the private file.
FileChanges(steps) ==
  /\ pc \in steps /\ image.right
  /\ image' = [image EXCEPT !.right = FALSE, !.bound = FALSE]
  /\ UNCHANGED <<pc, signal, cancelled, entry, private, stubborn, input, child, told>>

\* The process is killed: what it wrote stays.
Killed ==
  /\ ~Finished /\ pc # "idle" /\ pc' = "off"
  /\ UNCHANGED <<signal, cancelled, entry, image, private, stubborn, input, child, told>>

\* The power is lost: blocks that were not synchronised are, or are not, there; and
\* so is a name whose directory was not.
PowerLost(unsynchronised) ==
  /\ ~Finished /\ pc # "idle" /\ pc' = "off"
  /\ IF image.durable THEN UNCHANGED image
     ELSE \E d \in 0..image.done, right \in {image.right, FALSE} :
            image' = [image EXCEPT !.done = d, !.right = right]
  /\ entry' \in {entry} \cup IF entry = "ours" /\ pc \in unsynchronised THEN {"absent"} ELSE {}
  /\ UNCHANGED <<signal, cancelled, private, stubborn, input, child, told>>
=============================================================================
