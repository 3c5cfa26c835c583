------------------------------- MODULE Downloads --------------------------------
(***************************************************************************)
(* Two downloads that keep what they have for the next attempt.            *)
(*                                                                         *)
(* execute_verified_download of isopropyl/verified_download.py: a private  *)
(* stage directory keeps a partial file from one attempt to the next, and  *)
(* whatever happened to it in between, nothing but the pinned bytes is     *)
(* linked to the destination.                                              *)
(*                                                                         *)
(* FreeDosUsbDownloader.download of isopropyl/freedos_downloads.py: a      *)
(* pinned archive is downloaded into a private workspace, where it stays   *)
(* for the next attempt, and the one disk image in it is extracted,        *)
(* verified twice and linked to the destination.  The inner download is    *)
(* the verified one, one step here by the promise that it implements.      *)
(* private is what its workspace holds: "stage" the workspace, "resume"    *)
(* the inner stage, "double" an inner partial file that still has a second *)
(* link in the archive's name, "archive" and "image".  input is the        *)
(* archive.                                                                *)
(***************************************************************************)
EXTENDS Publisher

-----------------------------------------------------------------------------
(* The verified download. *)

VerifiedInit == PublisherInit({"download"}, {"partial", "stage"})

DownloadBegins ==
  \/ Interrupted({"idle"}, "done")
  \/ ~cancelled /\ entry = "absent" /\ Passes("idle", "authorize")

\* The authority answers; then the destination once more, and the stage.
AuthorizeAndOpenStage ==
  \/ Interrupted({"authorize"}, "done")
  \/ ~cancelled /\ entry = "absent" /\ Keeps("authorize", "open", private \cup {"stage"})

OpenPartial ==
  IF "partial" \in private THEN Passes("open", "hash")
  ELSE /\ Goto("open", "hash")
       /\ private' = private \cup {"partial"} /\ image' = Empty
       /\ UNCHANGED <<signal, cancelled, entry, stubborn, input, child, told>>

\* The answer "checksum" removes the partial file, other failures keep it.
ChecksumFails(from) ==
  /\ Goto(from, "done")
  /\ told' = [told EXCEPT !.outcome = "failure"]
  /\ private' = private \ ({"partial"} \ stubborn)
  /\ UNCHANGED <<signal, cancelled, entry, image, stubborn, input, child>>

HashPartial ==
  \/ Interrupted({"hash"}, "done")
  \/ ~cancelled /\ image.done < Size /\ Passes("hash", "request")
  \/ ~cancelled /\ Complete /\ Passes("hash", "freeze")
  \/ ~cancelled /\ image.done = Size /\ ~image.right /\ ChecksumFails("hash")

\* 200 starts again, 206 goes on where the file ends; anything else is refused.
Request ==
  \/ Interrupted({"request"}, "done")
  \/ ~cancelled /\ Makes("request", "receive", Empty)
  \/ ~cancelled /\ image.done > 0 /\ Passes("request", "receive")

ReceiveBlock ==
  /\ ~cancelled /\ image.done < Size
  /\ \E right \in BOOLEAN :
       Makes("receive", "receive", [image EXCEPT !.done = @ + 1, !.right = @ /\ right, !.durable = FALSE])

ReceiveEnds ==
  \/ Interrupted({"receive"}, "done")
  \/ Complete /\ Makes("receive", "freeze", [image EXCEPT !.durable = TRUE])
  \/ image.done = Size /\ ~image.right /\ ChecksumFails("receive")

\* Mutation: the file was synchronised when it was received.
FreezeTrusts ==
  \/ Interrupted({"freeze"}, "done")
  \/ ~cancelled /\ Passes("freeze", "verify")

\* The stage and the directory are looked at, and everything is made durable.
Freeze ==
  \/ Interrupted({"freeze"}, "done")
  \/ ~cancelled /\ Makes("freeze", "verify", [image EXCEPT !.durable = TRUE])

VerifyCompleted ==
  \/ Interrupted({"verify"}, "done")
  \/ ~cancelled /\ Complete /\ Passes("verify", "link")
  \/ ~cancelled /\ ~image.right /\ ChecksumFails("verify")

LinkPartial == GivesName("link", "unlink", "done")

\* After the link nothing is a failure any more.
UnlinkPartial ==
  \/ "partial" \notin stubborn /\ Keeps("unlink", "remove-stage", private \ {"partial"})
  \/ Passes("unlink", "return")

RemoveStage == Keeps("remove-stage", "return", private \ ({"stage"} \ stubborn))

DownloadReturns == Ends("return", "done", "success")

\* A later download of the same artifact, in this or in another process.
DownloadAgain ==
  /\ Finished /\ entry # "ours" /\ pc' = "idle"
  /\ told' = Nothing /\ cancelled' = FALSE /\ signal' = "idle"
  /\ UNCHANGED <<entry, image, private, stubborn, input, child>>

VerifiedWorks ==
  \/ DownloadBegins \/ AuthorizeAndOpenStage \/ OpenPartial \/ HashPartial \/ Request
  \/ ReceiveBlock \/ ReceiveEnds \/ Freeze \/ VerifyCompleted \/ LinkPartial \/ UnlinkPartial
  \/ RemoveStage \/ DownloadReturns

VerifiedEnvironment ==
  \/ SomebodyCreates \/ Killed \/ PowerLost({"unlink", "remove-stage", "return"})
  \/ FileChanges({"open", "hash", "request", "receive", "freeze"})

VerifiedNext == VerifiedWorks \/ CancelSets \/ Cancels \/ DownloadAgain \/ VerifiedEnvironment

-----------------------------------------------------------------------------
(* The download of FreeDOS. *)

FreeDosInit == PublisherInit({"freedos"}, {"image", "partial"})

FreeDosBegins ==
  \/ Interrupted({"idle"}, "done")
  \/ ~cancelled /\ entry = "absent" /\ Keeps("idle", "entries", private \cup {"stage"})

\* An inner partial file with two links is refused, by this attempt and by every other:
\* only a published image would remove it.
LookAtWorkspace ==
  \/ Interrupted({"entries"}, "cleanup")
  \/ "double" \in private /\ Ends("entries", "cleanup", "failure")
  \/ /\ "double" \notin private /\ private \cap {"image"} \cap stubborn = {}
     /\ Keeps("entries", IF "archive" \in private THEN "open" ELSE "archive", private \ {"image"})

\* The bytes of an archive that is there are not trusted; those of a new one are pinned.
DownloadArchive ==
  /\ ~cancelled /\ Goto("archive", "open")
  /\ input' = "bound"
  /\ private' = (private \ {"resume"}) \cup {"archive"} \cup IF "partial" \in stubborn THEN {"double"} ELSE {}
  /\ UNCHANGED <<signal, cancelled, entry, image, stubborn, child, told>>

DownloadArchiveFails ==
  /\ \E outcome \in {"failure"} \cup IF cancelled THEN {"cancelled"} ELSE {} :
       Goto("archive", "cleanup") /\ told' = [told EXCEPT !.outcome = outcome]
  /\ private' \in {private, private \cup {"resume"}}
  /\ UNCHANGED <<signal, cancelled, entry, image, stubborn, input, child>>

OpenArchive ==
  IF "double" \in private THEN Ends("open", "cleanup", "failure") ELSE Passes("open", "hash-archive")

HashArchive ==
  \/ Interrupted({"hash-archive"}, "cleanup")
  \/ ~cancelled /\ input = "bound" /\ Passes("hash-archive", "create")
  \/ ~cancelled /\ input = "changed" /\ Ends("hash-archive", "discard", "failure")

CreateImage ==
  \/ Interrupted({"create"}, "cleanup")
  \/ /\ Goto("create", "extract")
     /\ private' = private \cup {"image"} /\ image' = Empty
     /\ UNCHANGED <<signal, cancelled, entry, stubborn, input, child, told>>

ExtractBlock ==
  /\ ~cancelled /\ image.done < Size
  /\ \E right \in {TRUE, input = "bound"} :
       Makes("extract", "extract", [image EXCEPT !.done = @ + 1, !.right = @ /\ right])

\* The digest is that of the extracted stream, not of the file.
ExtractEnds ==
  \/ Interrupted({"extract"}, "cleanup")
  \/ ~cancelled /\ image.done = Size /\ (image.right \/ ~image.bound) /\ Passes("extract", "sync")
  \/ image.done = Size /\ ~image.right /\ Ends("extract", "cleanup", "failure")

SyncImage ==
  \/ Ends("sync", "cleanup", "failure")
  \/ Makes("sync", "verify", [image EXCEPT !.durable = TRUE])

\* The file, its structure, and that the archive is still the one that was hashed.
FinalVerify ==
  \/ Interrupted({"verify"}, "cleanup")
  \/ ~cancelled /\ Complete /\ input = "bound" /\ entry = "absent" /\ Passes("verify", "link")

LinkImage == GivesName("link", "published", "cleanup")

SyncParent == Ends("published", "cleanup", "success")

\* The finally clause: after a publication everything goes, before it the archive and
\* the resumable download stay.  Nothing here changes the outcome.
Cleanup ==
  \E from \in {"cleanup", "discard"} :
    LET goes == {"image"} \cup IF entry = "ours" THEN {"archive", "resume"}
                               ELSE IF from = "discard" THEN {"archive"} ELSE {}
        left == private \ (goes \ stubborn)
    IN  Keeps(from, "done", IF left = {"stage"} THEN {} ELSE left)

FreeDosAgain ==
  /\ Finished /\ entry # "ours" /\ pc' = "idle"
  /\ told' = Nothing /\ cancelled' = FALSE /\ signal' = "idle"
  /\ UNCHANGED <<entry, image, private, stubborn, input, child>>

\* Killed between the inner link and the removal of the inner partial file.
KilledInArchive ==
  /\ pc = "archive" /\ pc' = "off"
  /\ input' = "bound"
  /\ private' \in {private \cup {"resume"}, private \cup {"archive", "double"}}
  /\ UNCHANGED <<signal, cancelled, entry, image, stubborn, child, told>>

FreeDosWorks ==
  \/ FreeDosBegins \/ LookAtWorkspace \/ DownloadArchive \/ DownloadArchiveFails \/ OpenArchive
  \/ HashArchive \/ CreateImage \/ ExtractBlock \/ ExtractEnds \/ SyncImage \/ FinalVerify
  \/ LinkImage \/ SyncParent \/ Cleanup

FreeDosEnvironment ==
  \/ SomebodyCreates \/ Killed \/ KilledInArchive \/ PowerLost({"published", "cleanup"})
  \/ FileChanges({"extract", "sync"}) \/ ("archive" \in private /\ InputChanges)

FreeDosNext == FreeDosWorks \/ CancelSets \/ Cancels \/ FreeDosAgain \/ FreeDosEnvironment
=============================================================================
