----------------------------- MODULE DeviceExecutors -----------------------------
(***************************************************************************)
(* The executors that change a drive through commands of the system, side  *)
(* by side.  One of them runs.                                             *)
(***************************************************************************)
EXTENDS Executor

Layout == INSTANCE LayoutExecutor
Direct == INSTANCE DirectExecutors

Init ==
  /\ kind \in {"format", "constructed", "uefi-ntfs", "casper", "erase", "write", "persistence"} \cup Direct!Tests
  /\ ExecutorInit(IF kind \in Layout!Media THEN "pre" ELSE "identity")
  /\ kind = "persistence" => mounts = {}  \* it works on a medium that is in use

FormatWorks == kind = "format" /\ Layout!Works
MediaWorks == Layout!MediaWorks
EraseWorks == kind = "erase" /\ Direct!EraseWorks
TestWorks == kind \in Direct!Tests /\ Direct!TestWorks
WriterWorks == kind = "write" /\ Direct!WriterWorks
PersistenceWorks == kind = "persistence" /\ Direct!PersistenceWorks

Worker == FormatWorks \/ MediaWorks \/ EraseWorks \/ TestWorks \/ WriterWorks \/ PersistenceWorks

Next == Worker \/ CancelSignals \/ Environment

Spec == Init /\ [][Next]_executorVars

\* A command that this process may kill can hang for ever; one that it may not kill, and
\* that the worker waits for, would keep the program waiting with it.
ForcedChild == ~child.killable /\ ChildGoesOn

FairSpec ==
  /\ Spec
  /\ WF_executorVars(Worker) /\ WF_executorVars(CancelSignals) /\ WF_executorVars(ForcedChild)

-----------------------------------------------------------------------------
(* Properties. *)

\* What a success promises of the drive.
Promised ==
  CASE kind = "format"      -> {"table", "fs1"}
    [] kind = "constructed" -> {"table", "fs1", "content"}
    [] kind = "uefi-ntfs"   -> {"table", "fs1", "content", "boot"}
    [] kind = "casper"      -> {"table", "fs1", "fs2", "content"}
    [] kind = "erase"       -> {"range1", "range2"}
    [] kind \in Direct!Tests -> {Direct!Phases[i] : i \in DOMAIN Direct!Phases}
    [] kind = "write"       -> {"image"}
    [] kind = "persistence" -> {"part", "fs1", "cfg1", "cfg2"}

\* An erasure and a test do not look at the drive after their last command: they promise
\* nothing of a drive that was exchanged before that command opened it.
LooksLast == kind \notin {"erase"} \cup Direct!Tests \/ harm = {}

\* A success is all of the work, on our drive, of the bound input, with every partition where
\* it was planned; "unmounted" means that the executor's own mount is gone; a Casper medium
\* that was touched is called incomplete; and a persistence that failed without saying so has
\* left the medium as it was.
ReportIsTrue ==
  Finished =>
    /\ told.outcome = "success" /\ LooksLast =>
         Promised \subseteq disk /\ disk \cap {"damaged", "moved"} = {}
    /\ told.outcome = "success" /\ told.unmounted => "mine" \notin mounts
    /\ kind = "casper" /\ "touched" \in disk /\ told.outcome # "success" => told.incomplete
    /\ kind = "persistence" /\ told.outcome # "success" /\ ~told.incomplete /\ ~told.leftover =>
         disk \cap {"part", "fs1", "cfg1", "cfg2"} = {}

\* A drive that takes the place of ours is opened by one command at most, and by none that
\* makes a file system after one that made a table; ours is not opened for writing while
\* what was mounted at the beginning still is.  The power-off of constructed media, before
\* which nobody looks, is left out here: it may be the second; it is what the next one is about.
OnlyTheTarget ==
  /\ "in use" \notin harm
  /\ Cardinality(IF kind = "constructed" THEN harm \ {"power-off"} ELSE harm) <= 1

\* SECURITY.md:18-20: the identity of the drive is "revalidated [...] before privileged reads,
\* writes, verification, and power-off", so that no foreign drive is powered off after one of
\* our commands has already found it in the place of ours.  It does not hold: constructed
\* media are powered off by path (constructed.py:1156), also after a look that failed.
PowerOffIsRevalidated == "power-off" \in harm => harm = {"power-off"}

\* No command of ours outlives the report, unless the report says so, or says that the
\* clean-up is incomplete.  ImageWriter does not say so.
NothingLeaks ==
  /\ Finished => child.state # "running"
  /\ Finished /\ stray # "none" /\ kind # "write" => told.leftover \/ told.incomplete

\* A cancelled executor ends, although a command hangs.
CancelEnds == cancelled ~> Finished
=============================================================================
