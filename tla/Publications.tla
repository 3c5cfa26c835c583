------------------------------ MODULE Publications ------------------------------
(***************************************************************************)
(* The components that publish a file, side by side, and the one promise   *)
(* that they implement.  One of them runs.                                 *)
(***************************************************************************)
EXTENDS Publisher

CONSTANT Kinds  \* the components that are looked at

ASSUME KindsAssumption ==
  Kinds \subseteq {"download", "freedos", "drive", "virtual", "optical", "container", "staging", "wim", "snapshot", "image", "bundle"}

VARIABLES
  kind,   \* the component that runs
  owner   \* of RawSnapshot or PrivateImage, or the cache of BootCache

vars == <<publisherVars, kind, owner>>

Download == INSTANCE Downloads
Capture == INSTANCE Captures
Staging == INSTANCE IsoStaging
Snapshot == INSTANCE RawSnapshot
Image == INSTANCE PrivateImage
Cache == INSTANCE BootCache

\* Every volume that is written reads back as it was planned: TLC looks at each of them.
ASSUME ImagesAreReadable ==
  \A profile \in {"windows", "syslinux", "grub"} : Image!Volume!Readings(profile) \subseteq {TRUE}

Init ==
  /\ kind \in Kinds
  /\ CASE kind = "download" -> Download!VerifiedInit /\ owner = Snapshot!Nobody
       [] kind = "freedos"  -> Download!FreeDosInit /\ owner = Snapshot!Nobody
       [] kind = "drive"    -> Capture!DriveInit /\ owner = Snapshot!Nobody
       [] kind = "virtual"  -> Capture!VirtualInit /\ owner = Snapshot!Nobody
       [] kind = "optical"  -> Capture!OpticalInit /\ owner = Snapshot!Nobody
       [] kind = "container" -> Capture!ContainerInit /\ owner = Snapshot!Nobody
       [] kind = "staging"  -> Staging!Init /\ owner = Snapshot!Nobody
       [] kind = "wim"      -> Staging!WimInit /\ owner = Snapshot!Nobody
       [] kind = "snapshot" -> Snapshot!Init
       [] kind = "image"    -> Image!Init
       [] kind = "bundle"   -> Cache!Init

DownloadSteps == kind = "download" /\ Download!VerifiedNext /\ UNCHANGED <<kind, owner>>
FreeDosSteps == kind = "freedos" /\ Download!FreeDosNext /\ UNCHANGED <<kind, owner>>
DriveSteps == kind = "drive" /\ Capture!DriveNext /\ UNCHANGED <<kind, owner>>
VirtualSteps == kind = "virtual" /\ Capture!VirtualNext /\ UNCHANGED <<kind, owner>>
OpticalSteps == kind = "optical" /\ Capture!OpticalNext /\ UNCHANGED <<kind, owner>>
ContainerSteps == kind = "container" /\ Capture!ContainerNext /\ UNCHANGED <<kind, owner>>
StagingSteps == kind = "staging" /\ Staging!Next /\ UNCHANGED <<kind, owner>>
WimSteps == kind = "wim" /\ Staging!WimNext /\ UNCHANGED <<kind, owner>>
SnapshotSteps == kind = "snapshot" /\ Snapshot!Next /\ UNCHANGED kind
ImageSteps == kind = "image" /\ Image!Next /\ UNCHANGED kind
BundleSteps == kind = "bundle" /\ Cache!Next /\ UNCHANGED kind

Next ==
  \/ DownloadSteps \/ FreeDosSteps \/ DriveSteps \/ VirtualSteps \/ OpticalSteps \/ StagingSteps
  \/ ContainerSteps \/ WimSteps \/ SnapshotSteps \/ ImageSteps \/ BundleSteps

Spec == Init /\ [][Next]_vars

\* The worker's thread goes on unless it waits for a child.
WorkGoesOn ==
  /\ CASE kind = "download" -> Download!VerifiedWorks /\ UNCHANGED owner
       [] kind = "freedos"  -> Download!FreeDosWorks /\ UNCHANGED owner
       [] kind = "drive"    -> Capture!DriveWorks /\ UNCHANGED owner
       [] kind = "virtual"  -> Capture!VirtualWorks /\ UNCHANGED owner
       [] kind = "optical"  -> Capture!OpticalWorks /\ UNCHANGED owner
       [] kind = "container" -> Capture!ContainerWorks /\ UNCHANGED owner
       [] kind = "staging"  -> Staging!Works /\ UNCHANGED owner
       [] kind = "wim"      -> Staging!WimWorks /\ UNCHANGED owner
       [] kind = "snapshot" -> Snapshot!Works
       [] kind = "image"    -> Image!Works
       [] kind = "bundle"   -> Cache!Works
  /\ UNCHANGED kind

CancelGoesOn ==
  /\ IF kind = "staging" THEN Staging!CancelGoesOn ELSE Cancels
  /\ UNCHANGED <<kind, owner>>

CloseGoesOn ==
  /\ \/ kind = "snapshot" /\ Snapshot!CloseGoesOn
     \/ kind = "image" /\ Image!CloseGoesOn
  /\ UNCHANGED kind

\* A child that this process may stop can hang for ever; one that it may not stop, and
\* that could hang, would hang the program with it.
ChildGoesOn ==
  /\ ~child.killable
  /\ \/ kind = "drive" /\ Capture!DriveChildWorks
     \/ kind = "virtual" /\ Capture!VirtualChildWorks
     \/ kind = "optical" /\ Capture!OpticalChildWorks
     \/ kind = "container" /\ Capture!DecoderEnds
     \/ kind = "snapshot" /\ Snapshot!ConverterExits
  /\ UNCHANGED <<kind, owner>>

FairSpec ==
  /\ Spec
  /\ WF_vars(WorkGoesOn) /\ WF_vars(CancelGoesOn)
  /\ WF_vars(CloseGoesOn) /\ WF_vars(ChildGoesOn)

-----------------------------------------------------------------------------
(* Properties. *)

Promise ==
  INSTANCE Publication WITH
    name <- IF entry = "ours" /\ ~Complete THEN "damaged" ELSE IF entry = "ours" THEN "complete" ELSE entry,
    told <- IF pc = "off" THEN "lost" ELSE IF pc = "done" THEN told.outcome ELSE "none"

\* Every component gives the requested name to a complete file and to no other, never
\* over a file that is there, and a success means that it did: whatever was read from
\* the network, a drive, a converter or an ISO that is replaced meanwhile, and whatever
\* a kill or a power loss left for the next attempt; also when a child gave all its output
\* and then failed.
ImplementsPublication == Promise!Spec

Reported == pc = "done"

\* A cancellation is reported only of something that was not published, and a file is
\* reported as left behind only if it is, by every component.  A published file is never
\* reported as a plain failure by a component other than the staging, the WIM operations
\* and an optical capture whose private name stays beside the published one: all three can
\* fail after they have given the name, and do not say that they gave it; of the WIM this
\* is against the comment at wim.py:1408, that a committed result must not become a
\* failure.  A failure says that the file was published only if it was, except that of a
\* virtual backup before its conversion (see PublishedIsNamed).  And a private image is
\* never refused by its own inspection.
ReportIsTrue ==
  Reported =>
    /\ told.outcome = "cancelled" => entry # "ours"
    /\ entry = "ours" /\ kind \notin {"staging", "wim"} /\ ~(kind = "optical" /\ told.leftover) =>
         told.outcome = "success" \/ told.published
    /\ told.published /\ ~(kind = "virtual" /\ child.task = "convert") => entry = "ours"
    /\ told.leftover => private # {}
    /\ kind = "image" => ~owner.misread

\* A drive backup, a virtual backup, an optical capture and a staging tell of every private
\* name that they leave, and leave a child after a failure only (an optical capture also
\* after a cancellation; neither report of it says so, see ReaderIsNotOrphaned).  A FreeDOS
\* download keeps its archive for the next attempt until it has succeeded.  A wimlib or a
\* converter that could not be stopped survives a failure only, and of wimlib the directory
\* that it writes to; a decoder survives no success; and what was decoded is removed with
\* its directory unless the caller holds its descriptor.  The descriptors of a snapshot and
\* of a private image are closed, each once, whichever thread comes first.  A fetch of boot
\* code leaves a response only to the thread that closes it.  Three leave, without a word,
\* a name that the file system refuses to remove: FreeDOS, the decoder and the fetch.  The
\* verified download keeps its stage for the next attempt and is not spoken of.
NothingLeaks ==
  /\ Reported /\ kind \in {"drive", "virtual", "optical", "staging"} =>
       /\ private # {} => told.leftover
       /\ child.state = "running" =>
            told.outcome = "failure" \/ (kind = "optical" /\ told.outcome = "cancelled")
  /\ Reported /\ kind = "freedos" /\ told.outcome = "success" => private \subseteq {"stage"} \cup stubborn
  /\ Reported /\ kind \in {"wim", "snapshot"} /\ child.state = "running" => told.outcome = "failure"
  /\ Reported /\ kind = "wim" /\ private # {} => told.outcome = "failure"
  /\ Reported /\ kind = "container" =>
       /\ child.state = "running" => told.outcome # "success"
       /\ "descriptor" \in private => told.outcome = "success"
       /\ "descriptor" \notin private => private \subseteq stubborn \cup IF "output" \in stubborn THEN {"directory"} ELSE {}
  /\ Reported /\ kind = "snapshot" /\ owner.closer \in {"idle", "done"} => private = {}
  /\ Reported /\ kind = "image" => private = {}
  /\ kind = "bundle" =>
       /\ Reported =>
            /\ private \subseteq {"response"} \cup stubborn
            /\ "response" \in private <=> owner.helper = "offered"
            /\ told.outcome = "success" => private = {}
       /\ ~owner.spoiled /\ (owner.remover \in {"deleted", "skipped"} => owner.held = "absent")
  /\ ~owner.misclosed

\* What was cancelled ends, however a child hangs and whenever cancel() came; and the
\* close() of a snapshot, which waits for a transfer, returns; and a response that arrives
\* after its download was given up is closed.
CancelEnds ==
  /\ cancelled ~> Finished
  /\ (owner.closer # "idle") ~> (owner.closer = "done")
  /\ (kind = "bundle" /\ Finished) ~> (private \subseteq stubborn)

\* Violated.  A BackupPublishError says that a destination link exists.  The raw capture of
\* a virtual backup raises it of its own private name, and the backup lets it through.
PublishedIsNamed == Reported /\ told.published => entry = "ours"

\* Violated.  optical.py says that a callback or parsing failure cannot orphan a privileged
\* reader.  An error of terminate() or kill(), which a reader that runs as root gives rise to,
\* is dropped, and the reader writes on.
ReaderIsNotOrphaned ==
  Reported /\ kind = "optical" /\ told.outcome = "failure" => child.state # "running"
=============================================================================
