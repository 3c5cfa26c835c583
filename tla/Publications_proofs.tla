-------------------------- MODULE Publications_proofs ---------------------------
(***************************************************************************)
(* The promise of the components that publish a file, for files of every   *)
(* size: each of the eleven implements Publication, reports the truth and  *)
(* leaves nothing behind that it does not tell of.                         *)
(*                                                                         *)
(* The components have one argument in common.  What is published is       *)
(* complete when it gets the name, and stays so: Delivered.  Why it is, is *)
(* the business of each of them: there is a step at which the bytes were   *)
(* last compared with what they are made of, and after it nothing writes   *)
(* to the file, or what does is noticed.  Its part of the invariant says   *)
(* which steps have what for certain.                                      *)
(***************************************************************************)
EXTENDS Publications, TLAPS

Blocks == [done : 0..Size, right : BOOLEAN, durable : BOOLEAN, bound : BOOLEAN]
Said == [outcome : {"none", "success", "failure", "cancelled"}, published : BOOLEAN, leftover : BOOLEAN]
Tasks ==
  {"download", "freedos", "read", "convert", "compare", "capture", "library", "decoder", "extract", "bootex",
   "split", "file", "stream", "materialize", "windows", "syslinux", "grub", "vm", "bundle"}
Processes ==
  [state : {"none", "running", "ended", "failed", "killed", "asking", "answered"},
   known : BOOLEAN, killable : BOOLEAN, heard : BOOLEAN, task : Tasks]

Typed ==
  /\ cancelled \in BOOLEAN /\ entry \in {"absent", "foreign", "ours"} /\ input \in {"bound", "changed"}
  /\ image \in Blocks /\ told \in Said /\ child \in Processes

\* The name belongs to nobody, to somebody else or to the complete file.
Delivered == entry = "ours" => Complete

\* What every component reports.
Spoken ==
  pc = "done" =>
    /\ told.outcome # "none"
    /\ told.outcome = "success" => entry = "ours"
    /\ told.outcome = "cancelled" => entry # "ours"

Plain == ~told.published /\ ~told.leftover
Untold == told.outcome = "none" /\ Plain

\* A verified download: durable from the check on, which nothing comes after.
DownloadInv ==
  /\ pc # "done" => Untold
  /\ Plain
  /\ pc \in {"verify", "link"} => image.durable
  /\ pc = "link" => Complete
  /\ entry = "ours" => image.durable /\ pc \in {"unlink", "remove-stage", "return", "done", "off"}
  /\ pc \in {"unlink", "remove-stage", "return"} => entry = "ours"
  /\ pc = "done" /\ entry = "ours" => told.outcome = "success"

\* FreeDOS: a second link of the archive ends the attempt before anything is extracted.
FreeDosInv ==
  /\ pc \notin {"cleanup", "discard", "done", "off"} => Untold
  /\ Plain
  /\ private \subseteq {"stage", "resume", "double", "archive", "image"}
  /\ pc \in {"verify", "link"} => image.durable
  /\ pc = "link" => Complete
  /\ entry = "ours" => image.durable /\ pc \in {"published", "cleanup", "done", "off"}
  /\ pc = "published" => entry = "ours"
  /\ pc \in {"cleanup", "discard"} => told.outcome # "none"
  /\ pc \in {"cleanup", "discard", "done"} => (entry = "ours" <=> told.outcome = "success")
  /\ pc \in {"hash-archive", "create", "extract", "sync", "verify", "link", "published"} =>
       "double" \notin private
  /\ pc \in {"cleanup", "done"} /\ told.outcome = "success" => "double" \notin private
  /\ pc = "done" /\ told.outcome = "success" => private \subseteq {"stage"} \cup stubborn

\* The steps of a drive's capture that follow its last block.
DriveRead == {"sync", "drain", "verdict", "rebind", "bind", "link"}

\* What a drive gives is right as long as it is the drive; the look after the last block
\* says that it was.
DriveInv ==
  /\ pc \in {"idle", "revalidate", "spawn"} => child.state = "none"
  /\ pc = "idle" => private = {}
  /\ pc \notin {"reap", "finally", "done", "off"} => Untold
  /\ pc \in {"reap", "finally"} => Plain \/ (told.published /\ entry = "ours" /\ ~told.leftover)
  /\ pc = "reap" => Plain /\ told.outcome # "success"
  /\ input = "bound" => image.right \/ pc = "off"
  /\ pc \in {"bind", "link"} => image.right
  /\ pc \in DriveRead \/ (pc = "reap" /\ told.outcome = "none") => image.done = Size
  /\ pc \in {"drain", "verdict", "rebind", "bind", "link"} \/ (pc = "reap" /\ told.outcome = "none") =>
       image.durable
  /\ pc = "read" => image.done < Size
  /\ entry = "ours" => image.durable /\ pc \in {"unlink", "sync-parent", "finally", "done", "off"}
  /\ pc \in {"unlink", "sync-parent"} => entry = "ours"
  /\ pc \in {"verdict", "rebind", "bind", "link", "unlink", "sync-parent"} => child.state # "running"
  /\ entry = "ours" => child.state # "running"
  /\ pc = "finally" => told.outcome # "none"
  /\ pc \in {"finally", "done"} =>
       /\ entry = "ours" => told.outcome = "success" \/ told.published
       /\ told.published => entry = "ours"
       /\ told.outcome = "success" => entry = "ours"
       /\ told.outcome = "cancelled" => entry # "ours"
       /\ child.state = "running" => told.outcome = "failure"
  /\ pc = "done" => (told.leftover <=> private # {})

\* A virtual disk: the comparison saw the two files as they are when neither was touched
\* since it was bound, and whatever touches the output breaks its binding.
VirtualInv ==
  /\ child.task \in {"convert", "compare"}
  /\ pc = "idle" => private = {}
  /\ pc \notin {"cleanup", "done", "off"} => Untold
  /\ pc = "cleanup" => ~told.leftover /\ told.outcome # "none"
  /\ child.task = "compare" => image.durable /\ image.done = Size
  /\ pc \in {"idle", "capture"} => child.task = "convert"
  /\ pc = "convert" => child.task = "convert" /\ image.done = Size
  /\ pc \in {"compare", "recheck", "link", "unlink", "sync-parent"} => child.task = "compare"
  /\ pc = "recheck" => (image.bound => image.right)
  /\ pc = "link" => image.right
  /\ entry = "ours" =>
       child.task = "compare" /\ pc \in {"unlink", "sync-parent", "cleanup", "done", "off"}
  /\ pc \in {"unlink", "sync-parent"} => entry = "ours"
  /\ child.state = "running" => pc \in {"register", "watch", "cleanup", "done", "off"}
  /\ child.task = "convert" /\ child.state = "ended" /\ pc \in {"register", "watch"} =>
       image.done = Size
  /\ pc \in {"cleanup", "done"} =>
       /\ entry = "ours" => told.outcome = "success" \/ told.published
       /\ told.published /\ child.task # "convert" => entry = "ours"
       /\ told.outcome = "success" => entry = "ours"
       /\ told.outcome = "cancelled" => entry # "ours"
       /\ child.state = "running" => told.outcome = "failure"
  /\ pc = "done" => (told.leftover <=> private # {})

OpticalLooks == {"idle", "planned", "unmount", "look"}

\* A disc stays in the drive after the last look, so what is read is right; how much of it
\* there is, is looked at when the reader has ended.
OpticalInv ==
  /\ pc \in OpticalLooks => private = {}
  /\ pc \in OpticalLooks \cup {"spawn-optical"} => child.state = "none"
  /\ pc \notin OpticalLooks \cup {"done", "off"} => input = "bound"
  /\ child.state = "running" => input = "bound"
  /\ pc # "off" => image.right
  /\ pc \notin {"remove", "done", "off"} => Untold
  /\ pc # "done" => Plain
  /\ ~told.published
  /\ pc \notin OpticalLooks \cup {"return", "remove", "done", "off"} => private = {"partial"}
  /\ pc \in {"size", "link-capture"} => image.durable
  /\ pc = "link-capture" => Complete
  /\ pc \in {"collect", "sync-capture", "size", "link-capture"} => child.state # "running"
  /\ entry = "ours" =>
       image.durable /\ child.state # "running" /\ pc \in {"unlink-capture", "return", "remove", "done", "off"}
  /\ pc \in {"unlink-capture", "return"} => entry = "ours"
  /\ pc = "remove" => told.outcome # "none"
  /\ pc \in {"remove", "done"} =>
       /\ told.outcome = "success" => entry = "ours"
       /\ told.outcome = "cancelled" => entry # "ours"
  /\ pc = "remove" /\ entry = "ours" /\ told.outcome # "success" => "partial" \in private \cap stubborn
  /\ pc = "done" => (told.leftover <=> private # {})
  /\ pc = "done" /\ entry = "ours" => told.outcome = "success" \/ told.leftover

ContainerDecodes == {"decode", "read-block", "block", "exit-status", "stop-decoder"}
ContainerChecks == {"reopen", "describe", "described"}

\* The descriptor is open while it is written to, and after a success; nothing else stays
\* that could be removed.
ContainerHolds ==
  /\ private \subseteq {"source", "directory", "output", "descriptor"}
  /\ pc = "idle" => private = {}
  /\ pc \in ContainerDecodes \cup {"sync-output", "give", "given"} \cup ContainerChecks =>
       "descriptor" \in private
  /\ pc = "container-finally" /\ told.outcome = "success" => "descriptor" \in private
  /\ pc = "done" =>
       /\ "descriptor" \in private => told.outcome = "success"
       /\ "descriptor" \notin private =>
            private \subseteq stubborn \cup IF "output" \in stubborn THEN {"directory"} ELSE {}

\* A container: a block counts when the source was the bound one after it was read.
ContainerInv ==
  /\ entry \in {"absent", "ours"}
  /\ Plain
  /\ ContainerHolds
  /\ pc \notin {"stop-decoder", "container-finally", "done", "off"} => Untold
  /\ pc \in {"stop-decoder", "container-finally"} => told.outcome # "none"
  /\ pc = "stop-decoder" => told.outcome # "success"
  /\ pc \in {"container-finally", "done"} => (entry = "ours" <=> told.outcome = "success")
  /\ pc \in {"idle", "open", "name", "stage", "create", "decode"} =>
       child.state = "none" /\ image = Empty
  /\ child.task = "library" => child.state \in {"none", "asking", "answered"}
  /\ pc \in {"read-block", "block", "exit-status"} /\ input = "bound" =>
       (child.state # "failed" => image.right)
  /\ pc = "block" => image.done < Size /\ (input = "bound" => image.bound)
  /\ child.state = "ended" /\ pc \in {"read-block", "block", "exit-status"} => image.done = Size
  /\ child.state = "running" =>
       pc \in {"read-block", "block", "exit-status", "stop-decoder", "container-finally", "done", "off"}
  /\ pc = "sync-output" => Complete
  /\ pc \in ContainerChecks => image.done = Size /\ (image.bound => image.right)
  /\ pc \in {"give", "given"} => Complete
  /\ pc \in {"give", "given"} \/ entry = "ours" => child.state = "answered"
  /\ entry = "ours" => pc \in {"given", "container-finally", "done", "off"}
  /\ pc = "given" => entry = "ours"

StagingOperates == {"activate", "operate", "adopt", "stream", "deactivate", "compare"}

\* Staging: the tree is right when the ISO is the same after the extraction; later changes
\* of the chosen WIM break its binding, until its parts have taken its place.
StagingInv ==
  /\ child.task \in {"extract", "bootex", "split"}
  /\ child.killable
  /\ pc = "idle" => private = {} /\ child.task = "extract"
  /\ pc \notin {"finally", "done", "off"} => Untold
  /\ pc # "done" => ~told.leftover
  /\ ~told.published
  /\ child.state = "running" => pc \in {"adopt", "stream", "off"}
  /\ entry = "ours" =>
       child.state # "running" /\ pc \in {"sync-parent", "receipt", "finally", "done", "off"}
  /\ pc \in {"sync-parent", "receipt"} => entry = "ours"
  /\ pc \in {"idle"} \cup StagingOperates /\ child.task = "extract" /\ input = "bound" => image.right
  /\ pc \in {"embedded", "overlay", "syslinux", "inspect"} => image.right /\ child.task = "extract"
  /\ pc \in {"bootex", "replace", "split"} => child.task # "split" /\ (image.bound => image.right)
  /\ pc = "bootex" => child.task = "extract"
  /\ pc \in StagingOperates /\ child.task = "bootex" => image.right \/ ~image.bound
  /\ pc \in StagingOperates \cup {"answer", "scan"} /\ child.task = "split" => image.right
  /\ pc \in {"answer", "scan"} => (image.bound => image.right)
  /\ pc \in {"scan", "publish", "rename"} => image.done = Size
  /\ pc \in {"publish", "rename"} => image.right
  /\ pc = "finally" => told.outcome # "none"
  /\ pc \in {"finally", "done"} =>
       /\ told.outcome = "success" => entry = "ours"
       /\ told.outcome = "cancelled" => entry # "ours"
  /\ pc = "done" => (told.leftover <=> private # {})

\* The two operations on a WIM by themselves.
WimInv ==
  /\ Plain
  /\ pc \in {"idle", "planned"} => private = {}
  /\ pc \in {"idle", "planned", "make", "command"} => child.state = "none"
  /\ pc \notin {"stop", "give-up", "join", "wim-finally", "done", "off"} => Untold
  /\ pc \in {"stop", "give-up"} => told.outcome \in {"failure", "cancelled"}
  /\ pc = "join" => told.outcome # "success"
  /\ pc = "give-up" => told.outcome = "failure"
  /\ child.state = "running" =>
       pc \in {"register", "readers", "poll", "stop", "give-up", "wim-finally", "done", "off"}
  /\ child.state = "running" /\ pc \in {"wim-finally", "done"} => told.outcome = "failure"
  /\ child.state = "ended" /\ input = "bound" => image.right
  /\ pc = "tree" => image.right
  /\ pc \in {"directory", "move"} => Complete
  /\ entry = "ours" => child.state # "running" /\ pc \in {"parent", "wim-finally", "done", "off"}
  /\ pc = "parent" => entry = "ours"
  /\ pc = "wim-finally" => told.outcome # "none"
  /\ pc \in {"wim-finally", "done"} =>
       /\ told.outcome = "success" => entry = "ours"
       /\ told.outcome = "cancelled" => entry # "ours"
  /\ pc = "done" /\ private # {} => told.outcome = "failure"

SnapshotOwners ==
  [state : {"none", "ready", "transferred", "poisoned", "closed"}, holds : BOOLEAN,
   lock : {"free", "worker", "closer"}, closer : {"idle", "wait", "close", "mark", "done"},
   misclosed : {FALSE}]

\* Planning and opening, before anything is there that could be written to.
Planning == {"idle", "profile", "outer", "planned", "validate", "run"}
Opening == {"open", "workspace", "residence", "create"}
Converting == {"materialize", "inspect", "info", "spawn", "register", "watch", "stalled", "collect", "verdict"}
Owned == {"ready", "duplicate", "rehash", "detach", "send", "sent", "poison"}

\* Who holds the lock, and which descriptors are open, of a snapshot.
SnapshotOwner ==
  /\ owner \in SnapshotOwners
  /\ owner.state = "none" => ~owner.holds /\ owner.closer = "idle" /\ owner.lock = "free"
  /\ owner.lock = "worker" <=> pc \in {"duplicate", "rehash", "detach"}
  /\ owner.lock = "closer" <=> owner.closer \in {"close", "mark"}
  /\ owner.closer = "close" => owner.holds
  /\ owner.closer = "mark" => ~owner.holds
  /\ owner.state = "closed" => ~owner.holds
  /\ pc \in Owned => owner.state # "none"
  /\ pc \notin Owned \cup {"done"} => owner.state = "none"
  /\ pc \in Planning => private = {}
  /\ pc \in {"ready", "duplicate"} =>
       owner.state \in {"ready", "closed"} /\ private = IF owner.holds THEN {"snapshot"} ELSE {}
  /\ pc \in {"rehash", "detach"} =>
       owner.holds /\ owner.state = "ready" /\ private = {"snapshot", "duplicate"}
  /\ pc \in {"send", "sent", "poison"} => ~owner.holds /\ private = {"duplicate"}
  /\ pc = "done" => ~owner.holds /\ private = {}

\* A snapshot: the digest is that of the complete right content, however it was made.
SnapshotInv ==
  /\ SnapshotOwner
  /\ entry \in {"absent", "ours"}
  /\ Plain
  /\ pc # "off" /\ child.task \in {"file", "stream", "materialize"}
  /\ entry = "ours" => pc \in {"sent", "done"}
  /\ child.task # "materialize" => child.state = "none"
  /\ pc \in Planning \cup Opening \cup {"callback", "materialize"} =>
       child.state = "none" /\ image = Empty
  /\ pc \notin {"converted", "borrowed", "close-all", "poison", "sent", "done"} => Untold
  /\ pc \in Converting \cup {"callback", "converted", "returned", "borrowed", "continuity", "allocate", "second"} =>
       child.task = "materialize"
  /\ pc \in {"copy", "check"} => child.task # "materialize"
  /\ pc = "check" => image.done < Size
  /\ child.state = "running" =>
       pc \in {"register", "watch", "stalled", "collect", "converted", "borrowed", "close-all", "done"}
  /\ child.state = "running" /\ pc \in {"converted", "borrowed", "close-all", "done"} =>
       told.outcome = "failure"
  /\ pc \in {"inspect", "info", "spawn"} => child.state \in {"none", "asking", "answered"}
  /\ child.task = "materialize" /\ pc \in {"register", "watch", "collect", "verdict"} /\ child.state = "ended" /\ input = "bound" =>
       (image.done = Size => image.right)
  /\ pc \in {"returned", "continuity", "allocate"} \/ (pc = "converted" /\ told.outcome = "none") =>
       image.done = Size /\ image.right /\ child.state = "ended"
  /\ pc \in {"sync", "attest", "second", "hand-over"} => image.done = Size
  /\ pc \in {"sync", "attest"} /\ child.task = "materialize" => image.right
  /\ pc \in {"sync", "attest", "second", "hand-over"} \cup Owned => child.state # "running"
  /\ pc = "second" => child.heard
  /\ pc = "hand-over" => image.right
  /\ pc \in {"hand-over", "ready", "duplicate", "rehash"} => child.heard
  /\ pc \in {"detach", "send"} => Complete
  /\ pc \in {"borrowed", "close-all"} => told.outcome \in {"failure", "cancelled"}
  /\ pc = "converted" => told.outcome # "success"
  /\ pc = "poison" => told.outcome = "failure" /\ entry = "absent"
  /\ pc = "sent" => (entry = "ours" <=> told.outcome = "none") /\ told.outcome # "success"
  /\ pc = "done" => told.outcome # "none" /\ (entry = "ours" <=> told.outcome = "success")

ImageOwners ==
  [state : {"none", "unpatched", "patching", "patched", "poisoned", "closed"},
   holds : BOOLEAN, attested : BOOLEAN, lock : {"free", "worker", "closer"}, closer : {"idle", "wait", "close", "done"},
   misclosed : {FALSE}, readable : {TRUE}, misread : {FALSE}]

Planned == {"idle", "hash", "rescan", "bind", "revalidate", "create"}
Constructed == {"metadata", "copy", "digest", "rescan-tree", "sync", "read-back", "zeros", "inspect", "hash-image"}
Patched == {"preimage", "rebuild", "patch", "activate", "attest", "reinspect", "final-hash"}
Attested == {"duplicate", "rehash", "reopen", "rehash-again"}

\* The same of a private image, which its owner closes at the end.
ImageOwner ==
  /\ owner \in ImageOwners
  /\ owner.lock = "worker" <=> pc \in Patched \cup Attested
  /\ owner.lock = "closer" <=> owner.closer = "close"
  /\ owner.state \in {"none", "unpatched", "patching"} => owner.closer = "idle"
  /\ pc \in Planned \cup Constructed => owner.state = "none" /\ ~owner.holds
  /\ pc = "built" => owner.state = "unpatched" /\ owner.lock = "free"
  /\ pc \in Patched => owner.state = "patching"
  /\ pc \in {"built"} \cup Patched => owner.holds /\ private = {"image"}
  /\ pc \in Planned => private = {}
  /\ pc \in Constructed => private = {"workspace", "image"}
  /\ owner.state = "patched" => owner.holds
  /\ owner.holds => "image" \in private
  /\ pc \in {"ready", "duplicate", "rehash", "reopen", "rehash-again", "send", "sent", "close"} =>
       (owner.state \in {"patched", "poisoned", "closed"} /\ (owner.holds <=> "image" \in private))
  /\ pc \in {"rehash", "reopen", "rehash-again"} => owner.state = "patched"
  /\ pc \in {"ready", "duplicate", "close"} => private \subseteq {"image"}
  /\ pc \in {"rehash", "reopen"} => private = {"image", "duplicate"}
  /\ pc = "rehash-again" => private = {"image", "duplicate", "readonly"}
  /\ pc \in {"send", "sent"} => private \subseteq {"image", "duplicate"}
  /\ pc = "done" => private = {} /\ ~owner.holds

\* A private image: who writes to it breaks its binding, which the rehash looks at; what is
\* reopened for a virtual machine is hashed once more, against a digest that was expected.
ImageInv ==
  /\ ImageOwner
  /\ entry \in {"absent", "ours"}
  /\ Plain
  /\ pc # "off" /\ child.task \in {"windows", "syslinux", "grub", "vm"}
  /\ child.state # "running"
  /\ entry = "ours" => pc \in {"sent", "close", "done"}
  /\ pc \notin {"sent", "close", "done"} => Untold
  /\ pc \in Planned \cup {"metadata", "copy"} => image.done \leq Size - 1
  /\ pc = "digest" => image.done < Size - 1
  /\ pc \in {"attest", "reinspect", "final-hash", "ready", "send"} \cup Attested => image.done = Size
  /\ pc \in {"final-hash", "ready", "duplicate", "rehash", "reopen"} => (image.bound => image.right)
  /\ pc \in {"ready", "close"} \cup Attested /\ child.task = "vm" /\ owner.state = "patched" =>
       owner.attested
  /\ pc \in {"reopen", "rehash-again"} => child.task = "vm"
  /\ pc \in {"send", "sent"} => child.task # "vm"
  /\ pc = "send" => image.right
  /\ pc \in {"sent", "close"} => (entry = "ours" <=> told.outcome = "none") /\ told.outcome # "success"
  /\ pc = "done" => told.outcome # "none" /\ (entry = "ours" <=> told.outcome = "success")

BundleOwners ==
  [closer : {"idle"}, misclosed : {FALSE}, cache : [1..Size -> Cache!Entries], temp : {"right", "wrong"},
   stream : BOOLEAN, helper : {"none", "connecting", "offered", "failed"},
   remover : {"idle", "asked", "bound", "isolated", "deleted", "skipped", "retained"},
   held : Cache!Entries, fresh : BOOLEAN, spoiled : {FALSE}]

\* The steps of one artifact at which nothing is open.
Closed == {"open", "verify", "revalidate", "discard", "request", "publish", "bind"}

BundleOwner ==
  /\ owner \in BundleOwners
  /\ owner.remover \notin {"isolated", "retained"} => owner.held = "absent"

\* A bundle: nothing but verified bytes is counted; the response belongs to the worker or
\* to the thread that opened it, never to both, never to nobody.
BundleInv ==
  /\ BundleOwner
  /\ entry \in {"absent", "ours"}
  /\ Plain
  /\ image.right
  /\ pc \notin {"leave", "done", "off"} => Untold
  /\ entry = "ours" => pc \in {"return", "done"}
  /\ pc = "return" => entry = "ours"
  /\ pc \in Closed \cup {"connect", "url", "create", "receive", "sync", "digest", "replace"} =>
       image.done < Size
  /\ pc = "bundle" => image.done = Size
  /\ pc = "leave" => told.outcome \in {"failure", "cancelled"}
  /\ pc = "done" => told.outcome # "none" /\ (entry = "ours" <=> told.outcome = "success")
  /\ owner.helper # "none" => pc \in {"connect", "leave", "done"}
  /\ pc \in Closed \cup {"idle", "catalog", "next", "bundle", "return", "off"} => private = {}
  /\ stubborn \subseteq {"temp"}
  /\ pc = "connect" => private = IF owner.helper = "offered" THEN {"response"} ELSE {}
  /\ pc = "done" =>
       /\ private \subseteq {"temp", "response"} /\ ("temp" \in private => "temp" \in stubborn)
       /\ "response" \in private <=> owner.helper = "offered"
       /\ told.outcome = "success" => private = {} /\ owner.helper = "none"
  /\ pc \in {"url", "create"} => private = {"response"}
  /\ pc \in {"receive", "sync", "digest"} => private = {"response", "temp"}
  /\ pc = "replace" => private = {"temp"}
  /\ pc = "leave" =>
       /\ private \subseteq {"temp", "response"}
       /\ owner.helper = "offered" => "response" \in private
       /\ owner.helper \in {"connecting", "failed"} => private = {}

IInv ==
  /\ kind \in Kinds
  /\ Typed /\ Delivered /\ Spoken
  /\ kind \notin {"snapshot", "image", "bundle"} => owner = Snapshot!Nobody
  /\ kind = "download" => DownloadInv
  /\ kind = "freedos" => FreeDosInv
  /\ kind = "drive" => DriveInv
  /\ kind = "virtual" => VirtualInv
  /\ kind = "optical" => OpticalInv
  /\ kind = "container" => ContainerInv
  /\ kind = "staging" => StagingInv
  /\ kind = "wim" => WimInv
  /\ kind = "snapshot" => SnapshotInv
  /\ kind = "image" => ImageInv
  /\ kind = "bundle" => BundleInv

\* What a step does to the two variables of Publication.
Allowed ==
  \/ UNCHANGED <<entry, pc>> /\ (pc = "done" => UNCHANGED told)
  \/ UNCHANGED entry /\ ~Finished /\ ~Finished'
  \/ entry = "absent" /\ entry' = "ours" /\ ~Finished /\ ~Finished'
  \/ entry = "absent" /\ entry' = "foreign" /\ UNCHANGED <<pc, told>>
  \/ UNCHANGED entry /\ ~Finished /\ pc' = "done"
  \/ ~Finished /\ pc' = "off" /\ (entry' = entry \/ (entry = "ours" /\ entry' = "absent"))
  \/ UNCHANGED entry /\ Finished /\ ~Finished'

\* It is a step of Publication, or none of its variables changes.
LEMMA AllowedIsPromised ==
  ASSUME Typed, Typed', Delivered, Delivered', Spoken, Spoken', Allowed
  PROVE  [Promise!Next]_(Promise!vars)
<1> USE DEF Typed, Said, Delivered, Spoken, Finished, Promise!Next, Promise!vars
<1>1. CASE UNCHANGED <<entry, pc>> /\ (pc = "done" => UNCHANGED told)
  BY <1>1
<1>2. CASE UNCHANGED entry /\ ~Finished /\ ~Finished'
  BY <1>2
<1>3. CASE entry = "absent" /\ entry' = "ours" /\ ~Finished /\ ~Finished'
  BY <1>3 DEF Promise!Publish
<1>4. CASE entry = "absent" /\ entry' = "foreign" /\ UNCHANGED <<pc, told>>
  BY <1>4 DEF Promise!SomebodyCreates
<1>5. CASE UNCHANGED entry /\ ~Finished /\ pc' = "done"
  BY <1>5 DEF Promise!Succeed, Promise!Fail
<1>6. CASE ~Finished /\ pc' = "off" /\ (entry' = entry \/ (entry = "ours" /\ entry' = "absent"))
  BY <1>6 DEF Promise!Die
<1>7. CASE UNCHANGED entry /\ Finished /\ ~Finished'
  BY <1>7 DEF Promise!TryAgain
<1> QED
  BY <1>1, <1>2, <1>3, <1>4, <1>5, <1>6, <1>7 DEF Allowed

-----------------------------------------------------------------------------
(* Files, operations and entries: what the steps make of them has its type. *)

\* The new file, the next block and the last, and a new operation.
LEMMA EmptyIsTyped == Empty \in Blocks
BY SizeAssumption DEF Empty, Blocks

LEMMA Bounds == 0 \in 0..Size /\ Size - 1 \in 0..Size /\ Size \in 0..Size
BY SizeAssumption

LEMMA OneMore ==
  ASSUME Typed, image.done < Size
  PROVE  image.done + 1 \in 0..Size
BY SizeAssumption DEF Typed, Blocks

LEMMA DurableIsTyped ==
  ASSUME Typed
  PROVE  [image EXCEPT !.durable = TRUE] \in Blocks
BY DEF Typed, Blocks

LEMMA Fewer ==
  ASSUME image \in Blocks, NEW d \in 0..image.done
  PROVE  d \in 0..Size
BY SizeAssumption DEF Blocks

LEMMA NewOperations ==
  ASSUME NEW task \in Tasks
  PROVE  [NoChild EXCEPT !.task = task] \in Processes
BY DEF NoChild, Processes

\* A power loss ends the program; what is durable stays.
LEMMA AfterPowerLoss ==
  ASSUME Typed, NEW steps, Download!PowerLost(steps) \/ Capture!PowerLost(steps)
  PROVE  /\ image' \in Blocks /\ (image.durable => image' = image)
         /\ ~Finished /\ pc' = "off" /\ (entry' = entry \/ (entry = "ours" /\ entry' = "absent"))
         /\ UNCHANGED <<cancelled, private, stubborn, input, child, told>>
<1> USE SizeAssumption DEF Typed, Download!PowerLost, Capture!PowerLost
<1>1. /\ ~Finished /\ pc' = "off" /\ (entry' = entry \/ (entry = "ours" /\ entry' = "absent"))
      /\ UNCHANGED <<cancelled, private, stubborn, input, child, told>>
  BY DEF Finished, Download!Finished, Capture!Finished
<1>2. CASE image.durable
  BY <1>1, <1>2
<1>3. CASE ~image.durable
  <2>1. PICK d \in 0..image.done, r \in {image.right, FALSE} : image' = [image EXCEPT !.done = d, !.right = r]
    BY <1>3
  <2>2. d \in 0..Size
    BY Fewer
  <2>3. r \in BOOLEAN
    BY DEF Blocks
  <2>4. image' \in Blocks
    BY <2>1, <2>2, <2>3 DEF Blocks
  <2> QED
    BY <1>1, <1>3, <2>4
<1> QED
  BY <1>2, <1>3

\* An entry of the cache that changes, and nothing else but what the remover may trust.
LEMMA WithEntryKeeps ==
  ASSUME BundleOwner, NEW c \in 1..Size, NEW what \in Cache!Entries
  PROVE  /\ Cache!WithEntry(c, what) \in BundleOwners
         /\ Cache!WithEntry(c, what).helper = owner.helper
         /\ Cache!WithEntry(c, what).held = owner.held
         /\ Cache!WithEntry(c, what).remover = owner.remover
<1> USE DEF BundleOwner, BundleOwners
<1>1. PICK cache \in [1..Size -> Cache!Entries] : cache = [owner.cache EXCEPT ![c] = what]
  OBVIOUS
<1>2. PICK fresh \in BOOLEAN : fresh = (owner.fresh \/ (c = 1 /\ owner.remover = "bound"))
  OBVIOUS
<1>3. Cache!WithEntry(c, what) = [owner EXCEPT !.cache = cache, !.fresh = fresh]
  BY <1>1, <1>2 DEF Cache!WithEntry
<1> QED
  BY <1>3

\* There is an artifact in hand.
LEMMA ArtifactIsThere ==
  ASSUME Typed
  PROVE  Cache!Artifact \in 1..Size
BY SizeAssumption DEF Typed, Blocks, Cache!Artifact

\* What the connector, the worker and the remover do to the record.
LEMMA HelperChanges ==
  ASSUME NEW o \in BundleOwners, NEW helper \in {"none", "connecting", "offered", "failed"}
  PROVE  /\ [o EXCEPT !.helper = helper] \in BundleOwners
         /\ [o EXCEPT !.helper = helper].held = o.held
         /\ [o EXCEPT !.helper = helper].remover = o.remover
BY DEF BundleOwners

LEMMA TempChanges ==
  ASSUME NEW o \in BundleOwners, NEW temp \in {"right", "wrong"}
  PROVE  /\ [o EXCEPT !.temp = temp] \in BundleOwners
         /\ [o EXCEPT !.temp = temp].held = o.held
         /\ [o EXCEPT !.temp = temp].remover = o.remover
BY DEF BundleOwners

LEMMA StreamChanges ==
  ASSUME NEW o \in BundleOwners, NEW temp \in {"right", "wrong"}, NEW stream \in BOOLEAN
  PROVE  /\ [o EXCEPT !.stream = stream, !.temp = temp] \in BundleOwners
         /\ [o EXCEPT !.stream = stream, !.temp = temp].held = o.held
         /\ [o EXCEPT !.stream = stream, !.temp = temp].remover = o.remover
BY DEF BundleOwners

LEMMA RemoverChanges ==
  ASSUME NEW o \in BundleOwners, NEW cache \in [1..Size -> Cache!Entries]
  PROVE  /\ [o EXCEPT !.cache = cache, !.held = "absent", !.remover = "skipped"].helper = o.helper
         /\ [o EXCEPT !.remover = "retained"].helper = o.helper
BY DEF BundleOwners

-----------------------------------------------------------------------------
(* The components, one by one, and in each of them one step per action. *)

\* A step of the verified download keeps its part of the invariant and is an allowed one;
\* so for each of the others.
LEMMA DownloadStep ==
  ASSUME Typed, Delivered, Spoken, DownloadInv, Download!VerifiedNext
  PROVE  Typed' /\ Delivered' /\ Spoken' /\ DownloadInv' /\ Allowed
<1> USE SizeAssumption DEF Delivered, Spoken, Allowed, Typed, Blocks, Said, Processes, Complete,
      Finished, Plain, Untold, Nothing, Empty, DownloadInv
<1>1. CASE Download!DownloadBegins
  BY <1>1 DEF Download!DownloadBegins, Download!Interrupted, Download!Passes, Download!Ends,
      Download!Goto, Download!Reports
<1>2. CASE Download!AuthorizeAndOpenStage
  BY <1>2 DEF Download!AuthorizeAndOpenStage, Download!Interrupted, Download!Keeps, Download!Ends,
      Download!Goto, Download!Reports
<1>3. CASE Download!OpenPartial
  <2> USE <1>3 DEF Download!OpenPartial, Download!Passes, Download!Goto, Download!Empty
  <2>1. image' \in Blocks
    BY EmptyIsTyped DEF Empty
  <2>2. Typed'
    BY <2>1
  <2>3. Delivered' /\ Spoken' /\ Allowed
    BY <2>1
  <2>4. DownloadInv'
    BY <2>1
  <2> QED
    BY <2>2, <2>3, <2>4
<1>4. CASE Download!HashPartial
  BY <1>4 DEF Download!HashPartial, Download!Interrupted, Download!Passes, Download!Complete,
      Download!ChecksumFails, Download!Ends, Download!Goto, Download!Reports
<1>5. CASE Download!Request
  <2> USE <1>5 DEF Download!Request, Download!Interrupted, Download!Makes, Download!Empty,
        Download!Passes, Download!Ends, Download!Goto, Download!Reports
  <2>1. image' \in Blocks
    BY EmptyIsTyped DEF Empty
  <2>2. Typed'
    BY <2>1
  <2>3. Delivered' /\ Spoken' /\ Allowed
    BY <2>1
  <2>4. DownloadInv'
    BY <2>1
  <2> QED
    BY <2>2, <2>3, <2>4
<1>6. CASE Download!ReceiveBlock
  <2> USE <1>6 DEF Download!ReceiveBlock, Download!Makes, Download!Goto
  <2>1. PICK right \in BOOLEAN :
          image' = [image EXCEPT !.done = @ + 1, !.right = @ /\ right, !.durable = FALSE]
    OBVIOUS
  <2>2. image.done + 1 \in 0..Size
    BY OneMore
  <2>3. (image.right /\ right) \in BOOLEAN
    OBVIOUS
  <2>4. image' \in Blocks
    BY <2>1, <2>2, <2>3
  <2>5. Typed'
    BY <2>1, <2>2, <2>3, <2>4
  <2>6. Delivered' /\ Spoken' /\ Allowed
    BY <2>1, <2>2, <2>3, <2>4
  <2>7. DownloadInv'
    BY <2>1, <2>2, <2>3, <2>4
  <2> QED
    BY <2>5, <2>6, <2>7
<1>7. CASE Download!ReceiveEnds
  <2> USE <1>7 DEF Download!ReceiveEnds, Download!Interrupted, Download!Complete, Download!Makes,
        Download!ChecksumFails, Download!Ends, Download!Goto, Download!Reports
  <2>1. Typed'
    OBVIOUS
  <2>2. Delivered' /\ Spoken' /\ Allowed
    OBVIOUS
  <2>3. DownloadInv'
    OBVIOUS
  <2> QED
    BY <2>1, <2>2, <2>3
<1>8. CASE Download!Freeze
  BY <1>8 DEF Download!Freeze, Download!Interrupted, Download!Makes, Download!Ends, Download!Goto,
      Download!Reports
<1>9. CASE Download!VerifyCompleted
  BY <1>9 DEF Download!VerifyCompleted, Download!Interrupted, Download!Complete, Download!Passes,
      Download!ChecksumFails, Download!Ends, Download!Goto, Download!Reports
<1>10. CASE Download!LinkPartial
  BY <1>10 DEF Download!LinkPartial, Download!GivesName, Download!Goto
<1>11. CASE Download!UnlinkPartial
  BY <1>11 DEF Download!UnlinkPartial, Download!Keeps, Download!Passes, Download!Goto
<1>12. CASE Download!RemoveStage
  BY <1>12 DEF Download!RemoveStage, Download!Keeps, Download!Goto
<1>13. CASE Download!DownloadReturns
  BY <1>13 DEF Download!DownloadReturns, Download!Ends, Download!Reports, Download!Goto
<1>14. CASE Download!CancelSets
  BY <1>14 DEF Download!CancelSets, Download!Finished
<1>15. CASE Download!CancelReads
  BY <1>15 DEF Download!CancelReads
<1>16. CASE Download!CancelStops
  BY <1>16 DEF Download!CancelStops, Download!Stopped
<1>17. CASE Download!DownloadAgain
  <2> USE <1>17 DEF Download!DownloadAgain, Download!Finished, Download!Nothing
  <2>1. Typed'
    OBVIOUS
  <2>2. Delivered' /\ Spoken' /\ Allowed
    OBVIOUS
  <2>3. DownloadInv'
    OBVIOUS
  <2> QED
    BY <2>1, <2>2, <2>3
<1>18. CASE Download!SomebodyCreates
  BY <1>18 DEF Download!SomebodyCreates
<1>19. CASE Download!Killed
  BY <1>19 DEF Download!Killed, Download!Finished
<1>20. CASE Download!PowerLost({"unlink", "remove-stage", "return"})
  <2>1. /\ image' \in Blocks /\ (image.durable => image' = image)
        /\ ~Finished /\ pc' = "off" /\ (entry' = entry \/ (entry = "ours" /\ entry' = "absent"))
        /\ UNCHANGED <<cancelled, private, stubborn, input, child, told>>
    BY <1>20, AfterPowerLoss
  <2>2. Typed' /\ Allowed
    BY <2>1
  <2>3. Delivered' /\ Spoken' /\ DownloadInv'
    BY <2>1
  <2> QED
    BY <2>2, <2>3
<1>21. CASE Download!FileChanges({"open", "hash", "request", "receive", "freeze"})
  <2> USE <1>21 DEF Download!FileChanges
  <2>1. image' \in Blocks
    OBVIOUS
  <2>2. Typed'
    BY <2>1
  <2>3. Delivered' /\ Spoken' /\ Allowed
    BY <2>1
  <2>4. DownloadInv'
    BY <2>1
  <2> QED
    BY <2>2, <2>3, <2>4
<1> QED
  BY <1>1, <1>2, <1>3, <1>4, <1>5, <1>6, <1>7, <1>8, <1>9, <1>10, <1>11, <1>12, <1>13, <1>14,
     <1>15, <1>16, <1>17, <1>18, <1>19, <1>20, <1>21
     DEF Download!VerifiedNext, Download!VerifiedWorks, Download!Cancels,
         Download!VerifiedEnvironment

\* The download of FreeDOS: an archive with a second link never gets as far as an image.
LEMMA FreeDosStep ==
  ASSUME Typed, Delivered, Spoken, FreeDosInv, Download!FreeDosNext
  PROVE  Typed' /\ Delivered' /\ Spoken' /\ FreeDosInv' /\ Allowed
<1> USE SizeAssumption DEF Delivered, Spoken, Allowed, Typed, Blocks, Said, Processes, Complete,
      Finished, Plain, Untold, Nothing, Empty, FreeDosInv
<1>1. CASE Download!FreeDosBegins
  BY <1>1 DEF Download!FreeDosBegins, Download!Interrupted, Download!Keeps, Download!Ends,
      Download!Goto, Download!Reports
<1>2. CASE Download!LookAtWorkspace
  BY <1>2 DEF Download!LookAtWorkspace, Download!Interrupted, Download!Ends, Download!Keeps,
      Download!Reports, Download!Goto
<1>3. CASE Download!DownloadArchive
  BY <1>3 DEF Download!DownloadArchive, Download!Goto
<1>4. CASE Download!DownloadArchiveFails
  BY <1>4 DEF Download!DownloadArchiveFails, Download!Goto
<1>5. CASE Download!OpenArchive
  BY <1>5 DEF Download!OpenArchive, Download!Ends, Download!Passes, Download!Reports,
      Download!Goto
<1>6. CASE Download!HashArchive
  BY <1>6 DEF Download!HashArchive, Download!Interrupted, Download!Passes, Download!Ends,
      Download!Goto, Download!Reports
<1>7. CASE Download!CreateImage
  <2> USE <1>7 DEF Download!CreateImage, Download!Interrupted, Download!Goto, Download!Empty,
        Download!Ends, Download!Reports
  <2>1. image' \in Blocks
    BY EmptyIsTyped DEF Empty
  <2>2. Typed'
    BY <2>1
  <2>3. Delivered' /\ Spoken' /\ Allowed
    BY <2>1
  <2>4. FreeDosInv'
    BY <2>1
  <2> QED
    BY <2>2, <2>3, <2>4
<1>8. CASE Download!ExtractBlock
  <2> USE <1>8 DEF Download!ExtractBlock, Download!Makes, Download!Goto
  <2>1. PICK right \in {TRUE, input = "bound"} :
          image' = [image EXCEPT !.done = @ + 1, !.right = @ /\ right]
    OBVIOUS
  <2>2. image.done + 1 \in 0..Size
    BY OneMore
  <2>3. (image.right /\ right) \in BOOLEAN
    OBVIOUS
  <2>4. image' \in Blocks
    BY <2>1, <2>2, <2>3
  <2>5. Typed'
    BY <2>1, <2>2, <2>3, <2>4
  <2>6. Delivered' /\ Spoken' /\ Allowed
    BY <2>1, <2>2, <2>3, <2>4
  <2>7. FreeDosInv'
    BY <2>1, <2>2, <2>3, <2>4
  <2> QED
    BY <2>5, <2>6, <2>7
<1>9. CASE Download!ExtractEnds
  BY <1>9 DEF Download!ExtractEnds, Download!Interrupted, Download!Passes, Download!Ends,
      Download!Goto, Download!Reports
<1>10. CASE Download!SyncImage
  <2> USE <1>10 DEF Download!SyncImage, Download!Ends, Download!Makes, Download!Reports,
        Download!Goto
  <2>1. Typed'
    OBVIOUS
  <2>2. Delivered' /\ Spoken' /\ Allowed
    OBVIOUS
  <2>3. FreeDosInv'
    OBVIOUS
  <2> QED
    BY <2>1, <2>2, <2>3
<1>11. CASE Download!FinalVerify
  BY <1>11 DEF Download!FinalVerify, Download!Interrupted, Download!Complete, Download!Passes,
      Download!Ends, Download!Goto, Download!Reports
<1>12. CASE Download!LinkImage
  BY <1>12 DEF Download!LinkImage, Download!GivesName, Download!Goto
<1>13. CASE Download!SyncParent
  BY <1>13 DEF Download!SyncParent, Download!Ends, Download!Reports, Download!Goto
<1>14. CASE Download!Cleanup
  BY <1>14 DEF Download!Cleanup, Download!Keeps, Download!Goto
<1>15. CASE Download!CancelSets
  BY <1>15 DEF Download!CancelSets, Download!Finished
<1>16. CASE Download!CancelReads
  BY <1>16 DEF Download!CancelReads
<1>17. CASE Download!CancelStops
  BY <1>17 DEF Download!CancelStops, Download!Stopped
<1>18. CASE Download!FreeDosAgain
  <2> USE <1>18 DEF Download!FreeDosAgain, Download!Finished, Download!Nothing
  <2>1. Typed'
    OBVIOUS
  <2>2. Delivered' /\ Spoken' /\ Allowed
    OBVIOUS
  <2>3. FreeDosInv'
    OBVIOUS
  <2> QED
    BY <2>1, <2>2, <2>3
<1>19. CASE Download!SomebodyCreates
  BY <1>19 DEF Download!SomebodyCreates
<1>20. CASE Download!Killed
  BY <1>20 DEF Download!Killed, Download!Finished
<1>21. CASE Download!KilledInArchive
  BY <1>21 DEF Download!KilledInArchive
<1>22. CASE Download!PowerLost({"published", "cleanup"})
  <2>1. /\ image' \in Blocks /\ (image.durable => image' = image)
        /\ ~Finished /\ pc' = "off" /\ (entry' = entry \/ (entry = "ours" /\ entry' = "absent"))
        /\ UNCHANGED <<cancelled, private, stubborn, input, child, told>>
    BY <1>22, AfterPowerLoss
  <2>2. Typed' /\ Allowed
    BY <2>1
  <2>3. Delivered' /\ Spoken' /\ FreeDosInv'
    BY <2>1
  <2> QED
    BY <2>2, <2>3
<1>23. CASE Download!FileChanges({"extract", "sync"})
  <2> USE <1>23 DEF Download!FileChanges
  <2>1. Typed'
    OBVIOUS
  <2>2. Delivered' /\ Spoken' /\ Allowed
    OBVIOUS
  <2>3. FreeDosInv'
    OBVIOUS
  <2> QED
    BY <2>1, <2>2, <2>3
<1>24. CASE ("archive" \in private /\ Download!InputChanges)
  BY <1>24 DEF Download!InputChanges, Download!Finished
<1> QED
  BY <1>1, <1>2, <1>3, <1>4, <1>5, <1>6, <1>7, <1>8, <1>9, <1>10, <1>11, <1>12, <1>13, <1>14,
     <1>15, <1>16, <1>17, <1>18, <1>19, <1>20, <1>21, <1>22, <1>23, <1>24
     DEF Download!FreeDosNext, Download!FreeDosWorks, Download!Cancels,
         Download!FreeDosEnvironment

\* The capture of a drive: the look after its last block says whose bytes they were.
LEMMA DriveStep ==
  ASSUME Typed, Delivered, Spoken, DriveInv, Capture!DriveNext
  PROVE  Typed' /\ Delivered' /\ Spoken' /\ DriveInv' /\ Allowed
<1> USE SizeAssumption DEF Delivered, Spoken, Allowed, Typed, Blocks, Said, Processes, Complete,
      Finished, Plain, Untold, Nothing, Empty, DriveInv, DriveRead
<1>1. CASE Capture!DriveBegins
  BY <1>1 DEF Capture!DriveBegins, Capture!Interrupted, Capture!Ends, Capture!Keeps,
      Capture!Reports, Capture!Goto
<1>2. CASE Capture!RevalidateBefore
  BY <1>2 DEF Capture!RevalidateBefore, Capture!Revalidates, Capture!Interrupted, Capture!Passes,
      Capture!Ends, Capture!Goto, Capture!Reports
<1>3. CASE Capture!SpawnReader
  BY <1>3 DEF Capture!SpawnReader, Capture!Ends, Capture!HasChild, Capture!Reports, Capture!Goto
<1>4. CASE Capture!RegisterReader
  BY <1>4 DEF Capture!RegisterReader, Capture!HasChild, Capture!Goto
<1>5. CASE Capture!CheckBeforeRead
  BY <1>5 DEF Capture!CheckBeforeRead, Capture!Passes, Capture!Ends, Capture!Goto, Capture!Reports
<1>6. CASE Capture!ReadEnd
  BY <1>6 DEF Capture!ReadEnd, Capture!Ends, Capture!Reports, Capture!Goto
<1>7. CASE Capture!SyncFile
  <2> USE <1>7 DEF Capture!SyncFile, Capture!Makes, Capture!Ends, Capture!Goto, Capture!Reports
  <2>1. Typed'
    OBVIOUS
  <2>2. Delivered' /\ Spoken' /\ Allowed
    OBVIOUS
  <2>3. DriveInv'
    OBVIOUS
  <2> QED
    BY <2>1, <2>2, <2>3
<1>8. CASE Capture!Drain
  BY <1>8 DEF Capture!Drain, Capture!Passes, Capture!Goto
<1>9. CASE Capture!Reap
  <2> USE <1>9 DEF Capture!Reap, Capture!Stopped
  <2>1. Typed'
    OBVIOUS
  <2>2. Delivered' /\ Spoken' /\ Allowed
    OBVIOUS
  <2>3. DriveInv'
    OBVIOUS
  <2> QED
    BY <2>1, <2>2, <2>3
<1>10. CASE Capture!Verdict
  BY <1>10 DEF Capture!Verdict, Capture!Interrupted, Capture!Passes, Capture!Ends, Capture!Goto,
      Capture!Reports
<1>11. CASE Capture!RevalidateAfter
  BY <1>11 DEF Capture!RevalidateAfter, Capture!Revalidates, Capture!Interrupted, Capture!Passes,
      Capture!Ends, Capture!Goto, Capture!Reports
<1>12. CASE Capture!CheckBinding
  BY <1>12 DEF Capture!CheckBinding, Capture!Interrupted, Capture!Passes, Capture!Ends,
      Capture!Goto, Capture!Reports
<1>13. CASE Capture!DriveLink
  BY <1>13 DEF Capture!DriveLink, Capture!GivesName, Capture!Goto
<1>14. CASE Capture!UnlinkTemporary("partial", "finally")
  BY <1>14 DEF Capture!UnlinkTemporary, Capture!EndsPublished, Capture!Keeps, Capture!Reports,
      Capture!Goto
<1>15. CASE Capture!SyncDirectories("finally")
  BY <1>15 DEF Capture!SyncDirectories, Capture!Ends, Capture!EndsPublished, Capture!Reports,
      Capture!Goto
<1>16. CASE Capture!CleanupPartial
  BY <1>16 DEF Capture!CleanupPartial, Capture!Goto
<1>17. CASE Capture!ReaderGives
  <2> USE <1>17 DEF Capture!ReaderGives, Capture!Makes, Capture!Goto
  <2>1. image.done + 1 \in 0..Size
    BY OneMore
  <2>2. (image.right /\ input = "bound") \in BOOLEAN
    OBVIOUS
  <2>3. image' \in Blocks
    BY <2>1, <2>2
  <2>4. Typed'
    BY <2>1, <2>2, <2>3
  <2>5. Delivered' /\ Spoken' /\ Allowed
    BY <2>1, <2>2, <2>3
  <2>6. DriveInv'
    BY <2>1, <2>2, <2>3
  <2> QED
    BY <2>4, <2>5, <2>6
<1>18. CASE Capture!ReaderEnds
  BY <1>18 DEF Capture!ReaderEnds
<1>19. CASE Capture!CancelSets
  BY <1>19 DEF Capture!CancelSets, Capture!Finished
<1>20. CASE Capture!CancelReads
  BY <1>20 DEF Capture!CancelReads
<1>21. CASE Capture!CancelStops
  BY <1>21 DEF Capture!CancelStops, Capture!Stopped
<1>22. CASE Capture!SomebodyCreates
  BY <1>22 DEF Capture!SomebodyCreates
<1>23. CASE Capture!InputChanges
  BY <1>23 DEF Capture!InputChanges, Capture!Finished
<1>24. CASE Capture!Killed
  BY <1>24 DEF Capture!Killed, Capture!Finished
<1>25. CASE Capture!PowerLost({"unlink", "sync-parent"})
  <2>1. /\ image' \in Blocks /\ (image.durable => image' = image)
        /\ ~Finished /\ pc' = "off" /\ (entry' = entry \/ (entry = "ours" /\ entry' = "absent"))
        /\ UNCHANGED <<cancelled, private, stubborn, input, child, told>>
    BY <1>25, AfterPowerLoss
  <2>2. Typed' /\ Allowed
    BY <2>1
  <2>3. Delivered' /\ Spoken' /\ DriveInv'
    BY <2>1
  <2> QED
    BY <2>2, <2>3
<1> QED
  BY <1>1, <1>2, <1>3, <1>4, <1>5, <1>6, <1>7, <1>8, <1>9, <1>10, <1>11, <1>12, <1>13, <1>14,
     <1>15, <1>16, <1>17, <1>18, <1>19, <1>20, <1>21, <1>22, <1>23, <1>24, <1>25
     DEF Capture!DriveNext, Capture!DriveWorks, Capture!Commit, Capture!DriveChildWorks,
         Capture!Cancels, Capture!DriveEnvironment

\* The virtual disk of a drive: after the comparison, the output's binding says that it is right.
LEMMA VirtualStep ==
  ASSUME Typed, Delivered, Spoken, VirtualInv, Capture!VirtualNext
  PROVE  Typed' /\ Delivered' /\ Spoken' /\ VirtualInv' /\ Allowed
<1> USE SizeAssumption DEF Delivered, Spoken, Allowed, Typed, Blocks, Said, Processes, Complete,
      Finished, Plain, Untold, Nothing, Empty, VirtualInv
<1>1. CASE Capture!VirtualBegins
  BY <1>1 DEF Capture!VirtualBegins, Capture!Interrupted, Capture!Ends, Capture!Keeps,
      Capture!Reports, Capture!Goto
<1>2. CASE Capture!Capture
  <2> USE <1>2 DEF Capture!Capture, Capture!Interrupted, Capture!Keeps, Capture!Goto,
        Capture!Ends, Capture!Reports
  <2>1. image' \in Blocks
    OBVIOUS
  <2>2. Typed'
    BY <2>1
  <2>3. Delivered' /\ Spoken' /\ Allowed
    BY <2>1
  <2>4. VirtualInv'
    BY <2>1
  <2> QED
    BY <2>2, <2>3, <2>4
<1>3. CASE Capture!StartQemu
  <2> USE <1>3 DEF Capture!StartQemu, Capture!Interrupted, Capture!Unchanged, Capture!Goto,
        Capture!Ends, Capture!Reports
  <2>1. UNCHANGED <<image, entry, cancelled, input>> /\ child' \in Processes /\ child'.task = child.task
    OBVIOUS
  <2>2. told' \in Said /\ told'.outcome \in {told.outcome, "cancelled", "failure"}
    OBVIOUS
  <2>3. pc' = "register" => UNCHANGED told /\ entry # "ours"
    OBVIOUS
  <2>4. pc' # "register" => pc' = "cleanup" /\ UNCHANGED child
    OBVIOUS
  <2>5. Typed'
    BY <2>1, <2>2, <2>3, <2>4
  <2>6. Delivered' /\ Spoken' /\ Allowed
    BY <2>1, <2>2, <2>3, <2>4
  <2>7. VirtualInv'
    <3>1. CASE pc' = "register"
      BY <2>1, <2>3, <3>1
    <3>2. CASE pc' # "register"
      BY <2>1, <2>2, <2>4, <3>2
    <3> QED
      BY <3>1, <3>2
  <2> QED
    BY <2>5, <2>6, <2>7
<1>4. CASE Capture!RegisterQemu
  BY <1>4 DEF Capture!RegisterQemu, Capture!HasChild, Capture!Stopped, Capture!Goto
<1>5. CASE Capture!WatchQemu
  <2> USE <1>5 DEF Capture!WatchQemu, Capture!Stopped
  <2>1. Typed'
    OBVIOUS
  <2>2. Delivered' /\ Spoken' /\ Allowed
    OBVIOUS
  <2>3. VirtualInv'
    OBVIOUS
  <2> QED
    BY <2>1, <2>2, <2>3
<1>6. CASE Capture!InspectOutput
  <2> USE <1>6 DEF Capture!InspectOutput, Capture!Interrupted, Capture!Unchanged, Capture!Goto,
        Capture!NoChild, Capture!Ends, Capture!Reports
  <2>1. child' \in Processes
    BY NewOperations DEF Tasks, NoChild
  <2>2. image' \in Blocks
    OBVIOUS
  <2>3. pc' = "start" => child'.task = "compare" /\ child'.state = "none" /\ image'.durable /\ image'.done = Size
    OBVIOUS
  <2>4. pc' # "start" => UNCHANGED <<child, image>>
    OBVIOUS
  <2>5. Typed'
    BY <2>1, <2>2, <2>3, <2>4
  <2>6. Delivered' /\ Spoken' /\ Allowed
    BY <2>1, <2>2, <2>3, <2>4
  <2>7. VirtualInv'
    BY <2>1, <2>2, <2>3, <2>4
  <2> QED
    BY <2>5, <2>6, <2>7
<1>7. CASE Capture!CompareOutput
  BY <1>7 DEF Capture!CompareOutput, Capture!Interrupted, Capture!Unchanged, Capture!Complete,
      Capture!Passes, Capture!Ends, Capture!Goto, Capture!Reports
<1>8. CASE Capture!RecheckOutput
  BY <1>8 DEF Capture!RecheckOutput, Capture!Interrupted, Capture!Passes, Capture!Ends,
      Capture!Goto, Capture!Reports
<1>9. CASE Capture!VirtualLink
  BY <1>9 DEF Capture!VirtualLink, Capture!GivesName, Capture!Goto
<1>10. CASE Capture!UnlinkOutput
  BY <1>10 DEF Capture!UnlinkOutput, Capture!EndsPublished, Capture!Keeps, Capture!Reports,
      Capture!Goto
<1>11. CASE Capture!SyncVirtualDirectories
  BY <1>11 DEF Capture!SyncVirtualDirectories, Capture!Ends, Capture!EndsPublished,
      Capture!Reports, Capture!Goto
<1>12. CASE Capture!CleanupPrivate
  BY <1>12 DEF Capture!CleanupPrivate, Capture!Goto
<1>13. CASE Capture!QemuEnds
  <2> USE <1>13 DEF Capture!QemuEnds, Capture!Unchanged
  <2>1. image' \in Blocks
    <3>1. CASE child.task = "convert" /\ pc \in {"register", "watch"}
      <4>1. PICK right \in BOOLEAN :
              image' = [done |-> Size, right |-> right /\ input = "bound", durable |-> FALSE, bound |-> TRUE]
        BY <3>1
      <4>2. (right /\ input = "bound") \in BOOLEAN
        OBVIOUS
      <4> QED
        BY <4>1, <4>2, Bounds
    <3>2. CASE ~(child.task = "convert" /\ pc \in {"register", "watch"})
      BY <3>2
    <3> QED
      BY <3>1, <3>2
  <2>2. Typed'
    BY <2>1
  <2>3. Delivered' /\ Spoken' /\ Allowed
    BY <2>1
  <2>4. VirtualInv'
    BY <2>1
  <2> QED
    BY <2>2, <2>3, <2>4
<1>14. CASE Capture!CancelSets
  BY <1>14 DEF Capture!CancelSets, Capture!Finished
<1>15. CASE Capture!CancelReads
  BY <1>15 DEF Capture!CancelReads
<1>16. CASE Capture!CancelStops
  BY <1>16 DEF Capture!CancelStops, Capture!Stopped
<1>17. CASE Capture!SomebodyCreates
  BY <1>17 DEF Capture!SomebodyCreates
<1>18. CASE Capture!Killed
  BY <1>18 DEF Capture!Killed, Capture!Finished
<1>19. CASE Capture!PowerLost({"unlink", "sync-parent", "cleanup"})
  <2>1. /\ image' \in Blocks /\ (image.durable => image' = image)
        /\ ~Finished /\ pc' = "off" /\ (entry' = entry \/ (entry = "ours" /\ entry' = "absent"))
        /\ UNCHANGED <<cancelled, private, stubborn, input, child, told>>
    BY <1>19, AfterPowerLoss
  <2>2. Typed' /\ Allowed
    BY <2>1
  <2>3. Delivered' /\ Spoken' /\ VirtualInv'
    BY <2>1
  <2> QED
    BY <2>2, <2>3
<1>20. CASE pc # "capture" /\ "raw" \in private /\ Capture!InputChanges
  BY <1>20 DEF Capture!InputChanges, Capture!Finished
<1>21. CASE Capture!Complete /\ Capture!FileChanges({"convert", "start", "register", "watch", "compare", "recheck"})
  <2> USE <1>21 DEF Capture!Complete, Capture!FileChanges
  <2>1. image' \in Blocks
    OBVIOUS
  <2>2. Typed'
    BY <2>1
  <2>3. Delivered' /\ Spoken' /\ Allowed
    BY <2>1
  <2>4. VirtualInv'
    BY <2>1
  <2> QED
    BY <2>2, <2>3, <2>4
<1> QED
  BY <1>1, <1>2, <1>3, <1>4, <1>5, <1>6, <1>7, <1>8, <1>9, <1>10, <1>11, <1>12, <1>13, <1>14,
     <1>15, <1>16, <1>17, <1>18, <1>19, <1>20, <1>21
     DEF Capture!VirtualNext, Capture!VirtualWorks, Capture!VirtualChildWorks, Capture!Cancels,
         Capture!VirtualEnvironment

\* The capture of a disc: it stays in the drive, so its size alone is in question.
LEMMA OpticalStep ==
  ASSUME Typed, Delivered, Spoken, OpticalInv, Capture!OpticalNext
  PROVE  Typed' /\ Delivered' /\ Spoken' /\ OpticalInv' /\ Allowed
<1> USE SizeAssumption DEF Delivered, Spoken, Allowed, Typed, Blocks, Said, Processes, Complete,
      Finished, Plain, Untold, Nothing, Empty, OpticalInv, OpticalLooks
<1>1. CASE Capture!PlanCapture
  BY <1>1 DEF Capture!PlanCapture, Capture!Ends, Capture!FreeDestination, Capture!Passes,
      Capture!Reports, Capture!Goto
<1>2. CASE Capture!CaptureBegins
  BY <1>2 DEF Capture!CaptureBegins, Capture!Interrupted, Capture!FreeDestination,
      Capture!SameDisc, Capture!Passes, Capture!Ends, Capture!Goto, Capture!Reports
<1>3. CASE Capture!UnmountDisc
  BY <1>3 DEF Capture!UnmountDisc, Capture!Ends, Capture!Passes, Capture!Reports, Capture!Goto
<1>4. CASE Capture!LookAgain
  BY <1>4 DEF Capture!LookAgain, Capture!Interrupted, Capture!FreeDestination, Capture!SameDisc,
      Capture!Keeps, Capture!Ends, Capture!Goto, Capture!Reports
<1>5. CASE Capture!SpawnOptical
  <2> USE <1>5 DEF Capture!SpawnOptical, Capture!Interrupted, Capture!HasChild, Capture!Ends,
        Capture!Goto, Capture!Reports
  <2>1. Typed'
    OBVIOUS
  <2>2. Delivered' /\ Spoken' /\ Allowed
    OBVIOUS
  <2>3. OpticalInv'
    OBVIOUS
  <2> QED
    BY <2>1, <2>2, <2>3
<1>6. CASE Capture!RegisterOptical
  BY <1>6 DEF Capture!RegisterOptical, Capture!HasChild, Capture!Goto
<1>7. CASE Capture!LookAtEvent
  <2> USE <1>7 DEF Capture!LookAtEvent, Capture!AbandonCapture, Capture!Passes, Capture!Goto,
        Capture!Stopped
  <2>1. child' \in Processes
    OBVIOUS
  <2>2. told' \in Said
    OBVIOUS
  <2>3. Typed'
    BY <2>1, <2>2
  <2>4. Delivered' /\ Spoken' /\ Allowed
    BY <2>1, <2>2
  <2>5. OpticalInv'
    BY <2>1, <2>2
  <2> QED
    BY <2>3, <2>4, <2>5
<1>8. CASE Capture!FollowReader
  <2> USE <1>8 DEF Capture!FollowReader, Capture!AbandonCapture, Capture!HasChild, Capture!Goto,
        Capture!Stopped
  <2>1. Typed'
    OBVIOUS
  <2>2. Delivered' /\ Spoken' /\ Allowed
    OBVIOUS
  <2>3. OpticalInv'
    OBVIOUS
  <2> QED
    BY <2>1, <2>2, <2>3
<1>9. CASE Capture!CollectReader
  BY <1>9 DEF Capture!CollectReader, Capture!Interrupted, Capture!Passes, Capture!Ends,
      Capture!Goto, Capture!Reports
<1>10. CASE Capture!SyncCapture
  <2> USE <1>10 DEF Capture!SyncCapture, Capture!Ends, Capture!Makes, Capture!Reports,
        Capture!Goto
  <2>1. image' = image \/ image' = [image EXCEPT !.durable = TRUE]
    OBVIOUS
  <2>2. image' \in Blocks
    BY <2>1, DurableIsTyped
  <2>3. Typed'
    BY <2>1, <2>2
  <2>4. Delivered' /\ Spoken' /\ Allowed
    BY <2>1, <2>2
  <2>5. OpticalInv'
    BY <2>1, <2>2
  <2> QED
    BY <2>3, <2>4, <2>5
<1>11. CASE Capture!CheckSize
  BY <1>11 DEF Capture!CheckSize, Capture!Ends, Capture!FreeDestination, Capture!Passes,
      Capture!Reports, Capture!Goto
<1>12. CASE Capture!OpticalLink
  BY <1>12 DEF Capture!OpticalLink, Capture!GivesName, Capture!Goto
<1>13. CASE Capture!UnlinkCapture
  <2> USE <1>13 DEF Capture!UnlinkCapture, Capture!Ends, Capture!Keeps, Capture!Reports,
        Capture!Goto
  <2>1. image' \in Blocks
    OBVIOUS
  <2>2. Typed'
    BY <2>1
  <2>3. Delivered' /\ Spoken' /\ Allowed
    BY <2>1
  <2>4. OpticalInv'
    BY <2>1
  <2> QED
    BY <2>2, <2>3, <2>4
<1>14. CASE Capture!CaptureReturns
  BY <1>14 DEF Capture!CaptureReturns, Capture!Ends, Capture!Reports, Capture!Goto
<1>15. CASE Capture!RemovePartial
  <2> USE <1>15 DEF Capture!RemovePartial, Capture!Goto
  <2>1. Typed'
    OBVIOUS
  <2>2. Delivered' /\ Spoken' /\ Allowed
    OBVIOUS
  <2>3. OpticalInv'
    OBVIOUS
  <2> QED
    BY <2>1, <2>2, <2>3
<1>16. CASE Capture!OpticalWrites
  <2> USE <1>16 DEF Capture!OpticalWrites, Capture!SameDisc
  <2>1. image.done + 1 \in 0..Size
    BY OneMore
  <2>2. (image.right /\ input = "bound") \in BOOLEAN
    OBVIOUS
  <2>3. image' \in Blocks
    BY <2>1, <2>2
  <2>4. Typed'
    BY <2>1, <2>2, <2>3
  <2>5. Delivered' /\ Spoken' /\ Allowed
    BY <2>1, <2>2, <2>3
  <2>6. OpticalInv'
    BY <2>1, <2>2, <2>3
  <2> QED
    BY <2>4, <2>5, <2>6
<1>17. CASE Capture!OpticalEnds
  BY <1>17 DEF Capture!OpticalEnds
<1>18. CASE Capture!CancelSets
  BY <1>18 DEF Capture!CancelSets, Capture!Finished
<1>19. CASE Capture!CancelReads
  BY <1>19 DEF Capture!CancelReads
<1>20. CASE Capture!CancelStops
  BY <1>20 DEF Capture!CancelStops, Capture!Stopped
<1>21. CASE Capture!SomebodyCreates
  BY <1>21 DEF Capture!SomebodyCreates
<1>22. CASE Capture!Killed
  BY <1>22 DEF Capture!Killed, Capture!Finished
<1>23. CASE Capture!PowerLost({"unlink-capture", "return", "remove"})
  <2>1. /\ image' \in Blocks /\ (image.durable => image' = image)
        /\ ~Finished /\ pc' = "off" /\ (entry' = entry \/ (entry = "ours" /\ entry' = "absent"))
        /\ UNCHANGED <<cancelled, private, stubborn, input, child, told>>
    BY <1>23, AfterPowerLoss
  <2>2. Typed' /\ Allowed
    BY <2>1
  <2>3. Delivered' /\ Spoken' /\ OpticalInv'
    BY <2>1
  <2> QED
    BY <2>2, <2>3
<1>24. CASE pc \in {"idle", "planned", "unmount", "look"} /\ Capture!InputChanges
  BY <1>24 DEF Capture!InputChanges, Capture!Finished
<1> QED
  BY <1>1, <1>2, <1>3, <1>4, <1>5, <1>6, <1>7, <1>8, <1>9, <1>10, <1>11, <1>12, <1>13, <1>14,
     <1>15, <1>16, <1>17, <1>18, <1>19, <1>20, <1>21, <1>22, <1>23, <1>24
     DEF Capture!OpticalNext, Capture!OpticalWorks, Capture!OpticalChildWorks, Capture!Cancels,
         Capture!OpticalEnvironment

\* The contents of a container: a block counts if the source was the bound one after it.
LEMMA ContainerStep ==
  ASSUME Typed, Delivered, Spoken, ContainerInv, Capture!ContainerNext
  PROVE  Typed' /\ Delivered' /\ Spoken' /\ ContainerInv' /\ Allowed
<1> USE SizeAssumption DEF Delivered, Spoken, Allowed, Typed, Blocks, Said, Processes, Complete,
      Finished, Plain, Untold, Nothing, Empty, ContainerInv, ContainerHolds, ContainerDecodes,
      ContainerChecks
<1>1. CASE Capture!ContainerBegins
  BY <1>1 DEF Capture!ContainerBegins, Capture!Interrupted, Capture!Passes, Capture!Ends,
      Capture!Goto, Capture!Reports
<1>2. CASE Capture!OpenContainer
  BY <1>2 DEF Capture!OpenContainer, Capture!ContainerFails, Capture!Keeps, Capture!Interrupted,
      Capture!Goto, Capture!Ends, Capture!Reports
<1>3. CASE Capture!NameContainer
  BY <1>3 DEF Capture!NameContainer, Capture!ContainerFails, Capture!Passes, Capture!Interrupted,
      Capture!Goto, Capture!Ends, Capture!Reports
<1>4. CASE Capture!MakeStage
  BY <1>4 DEF Capture!MakeStage, Capture!Ends, Capture!Keeps, Capture!Reports, Capture!Goto
<1>5. CASE Capture!CreateOutput
  BY <1>5 DEF Capture!CreateOutput, Capture!Ends, Capture!Keeps, Capture!Reports, Capture!Goto
<1>6. CASE Capture!OpenLibrary
  BY <1>6 DEF Capture!OpenLibrary, Capture!Passes, Capture!Goto
<1>7. CASE Capture!StartDecoder
  <2> USE <1>7 DEF Capture!StartDecoder, Capture!HasChild, Capture!Goto
  <2>1. Typed'
    OBVIOUS
  <2>2. Delivered' /\ Spoken' /\ Allowed
    OBVIOUS
  <2>3. ContainerInv'
    OBVIOUS
  <2> QED
    BY <2>1, <2>2, <2>3
<1>8. CASE Capture!ContainerFails({"decode"})
  BY <1>8 DEF Capture!ContainerFails, Capture!Interrupted, Capture!Ends, Capture!Reports,
      Capture!Goto
<1>9. CASE Capture!ReadLibrary
  BY <1>9 DEF Capture!ReadLibrary, Capture!GivesBlock, Capture!Interrupted, Capture!Passes,
      Capture!Makes, Capture!Ends, Capture!Goto, Capture!Reports
<1>10. CASE Capture!ReadPipe
  <2> USE <1>10 DEF Capture!ReadPipe, Capture!Ends, Capture!Passes, Capture!Reports, Capture!Goto
  <2>1. image' \in Blocks
    OBVIOUS
  <2>2. Typed'
    BY <2>1
  <2>3. Delivered' /\ Spoken' /\ Allowed
    BY <2>1
  <2>4. ContainerInv'
    BY <2>1
  <2> QED
    BY <2>2, <2>3, <2>4
<1>11. CASE Capture!WriteBlock
  <2> USE <1>11 DEF Capture!WriteBlock, Capture!Interrupted, Capture!Makes, Capture!Ends,
          Capture!Reports, Capture!Goto
  <2>1. image.done + 1 \in 0..Size
    BY OneMore
  <2>2. (image.right /\ image.bound) \in BOOLEAN
    OBVIOUS
  <2>3. image' \in Blocks
    BY <2>1, <2>2
  <2>4. Typed' /\ ContainerHolds'
    BY <2>3
  <2>5. Delivered' /\ Spoken' /\ Allowed
    BY <2>3
  <2>6. ContainerInv'
    <3> HIDE DEF ContainerHolds
    <3>1. CASE pc' = "stop-decoder"
      BY <2>4, <3>1
    <3>2. CASE pc' = "read-block"
      <4>1. input = "bound" /\ child.state # "ended" /\ Untold /\ entry # "ours"
        BY <3>2
      <4>2. image'.right = image.right
        <5>1. (image.right /\ image.bound) = image.right
          BY <4>1
        <5>2. image'.right = (image.right /\ image.bound)
          BY <3>2
        <5> QED
          BY <5>1, <5>2
      <4>3. UNCHANGED <<child, told, entry, input>>
        BY <3>2
      <4> QED
        BY <2>4, <3>2, <4>1, <4>2, <4>3
    <3> QED
      BY <3>1, <3>2
  <2> QED
    BY <2>4, <2>5, <2>6
<1>12. CASE Capture!DecoderStatus
  BY <1>12 DEF Capture!DecoderStatus, Capture!Ends, Capture!Passes, Capture!Reports, Capture!Goto
<1>13. CASE Capture!StopDecoder
  BY <1>13 DEF Capture!StopDecoder, Capture!HasChild, Capture!Stopped, Capture!Goto
<1>14. CASE Capture!SyncOutput
  <2> USE <1>14 DEF Capture!SyncOutput, Capture!ContainerFails, Capture!Makes,
        Capture!Interrupted, Capture!Goto, Capture!Ends, Capture!Reports
  <2>1. Typed'
    OBVIOUS
  <2>2. Delivered' /\ Spoken' /\ Allowed
    OBVIOUS
  <2>3. ContainerInv'
    OBVIOUS
  <2> QED
    BY <2>1, <2>2, <2>3
<1>15. CASE Capture!ReopenOutput
  BY <1>15 DEF Capture!ReopenOutput, Capture!ContainerFails, Capture!Passes, Capture!Interrupted,
      Capture!Goto, Capture!Ends, Capture!Reports
<1>16. CASE Capture!DescribeOutput
  BY <1>16 DEF Capture!DescribeOutput, Capture!HasChild, Capture!Goto
<1>17. CASE Capture!RecheckContainer
  BY <1>17 DEF Capture!RecheckContainer, Capture!ContainerFails, Capture!Passes,
      Capture!Interrupted, Capture!Goto, Capture!Ends, Capture!Reports
<1>18. CASE Capture!GiveContainer
  BY <1>18 DEF Capture!GiveContainer, Capture!Goto
<1>19. CASE Capture!ContainerReturns
  BY <1>19 DEF Capture!ContainerReturns, Capture!Ends, Capture!Reports, Capture!Goto
<1>20. CASE Capture!ContainerFinally
  <2> USE <1>20 DEF Capture!ContainerFinally, Capture!Keeps, Capture!Goto
  <2>1. Typed'
    OBVIOUS
  <2>2. Delivered' /\ Spoken' /\ Allowed
    OBVIOUS
  <2>3. ContainerHolds'
    <3>1. CASE told.outcome = "success"
      BY <3>1
    <3>2. CASE told.outcome # "success"
      BY <3>2 DEF Capture!Remaining
    <3> QED
      BY <3>1, <3>2
  <2>4. ContainerInv'
    <3> HIDE DEF ContainerHolds
    <3> QED
      BY <2>3
  <2> QED
    BY <2>1, <2>2, <2>4
<1>21. CASE Capture!DecoderGives
  BY <1>21 DEF Capture!DecoderGives, Capture!GivesBlock, Capture!Makes, Capture!Goto
<1>22. CASE Capture!DecoderEnds
  <2> USE <1>22 DEF Capture!DecoderEnds
  <2>1. image' \in Blocks
    OBVIOUS
  <2>2. Typed'
    BY <2>1
  <2>3. Delivered' /\ Spoken' /\ Allowed
    BY <2>1
  <2>4. ContainerInv'
    BY <2>1
  <2> QED
    BY <2>2, <2>3, <2>4
<1>23. CASE Capture!DescriptionComes
  BY <1>23 DEF Capture!DescriptionComes
<1>24. CASE Capture!CancelSets
  BY <1>24 DEF Capture!CancelSets, Capture!Finished
<1>25. CASE Capture!CancelReads
  BY <1>25 DEF Capture!CancelReads
<1>26. CASE Capture!CancelStops
  BY <1>26 DEF Capture!CancelStops, Capture!Stopped
<1>27. CASE Capture!CloseContainer
  BY <1>27 DEF Capture!CloseContainer, Capture!Keeps, Capture!Remaining, Capture!Goto
<1>28. CASE Capture!InputChanges
  BY <1>28 DEF Capture!InputChanges, Capture!Finished
<1>29. CASE Capture!Killed
  BY <1>29 DEF Capture!Killed, Capture!Finished
<1>30. CASE Capture!FileChanges({"reopen", "describe", "described"})
  <2> USE <1>30 DEF Capture!FileChanges
  <2>1. Typed'
    OBVIOUS
  <2>2. Delivered' /\ Spoken' /\ Allowed
    OBVIOUS
  <2>3. ContainerInv'
    OBVIOUS
  <2> QED
    BY <2>1, <2>2, <2>3
<1> QED
  BY <1>1, <1>2, <1>3, <1>4, <1>5, <1>6, <1>7, <1>8, <1>9, <1>10, <1>11, <1>12, <1>13, <1>14,
     <1>15, <1>16, <1>17, <1>18, <1>19, <1>20, <1>21, <1>22, <1>23, <1>24, <1>25, <1>26, <1>27,
     <1>28, <1>29, <1>30
     DEF Capture!ContainerNext, Capture!ContainerWorks, Capture!ContainerChildWorks,
         Capture!Cancels, Capture!ContainerEnvironment

\* The tree of an ISO, with its boot files and the parts of a WIM.
LEMMA StagingStep ==
  ASSUME Typed, Delivered, Spoken, StagingInv, Staging!Next
  PROVE  Typed' /\ Delivered' /\ Spoken' /\ StagingInv' /\ Allowed
<1> USE SizeAssumption DEF Delivered, Spoken, Allowed, Typed, Blocks, Said, Processes, Complete,
      Finished, Plain, Untold, Nothing, Empty, StagingInv, StagingOperates
<1>1. CASE Staging!StageBegins
  BY <1>1 DEF Staging!StageBegins, Staging!Interrupted, Staging!Ends, Staging!Keeps,
      Staging!Reports, Staging!Goto
<1>2. CASE Staging!Activate
  <2> USE <1>2 DEF Staging!Activate, Staging!Ends, Staging!HasChild, Staging!Reports, Staging!Goto
  <2>1. Typed'
    OBVIOUS
  <2>2. Delivered' /\ Spoken' /\ Allowed
    OBVIOUS
  <2>3. StagingInv'
    OBVIOUS
  <2> QED
    BY <2>1, <2>2, <2>3
<1>3. CASE Staging!OperationStarts
  BY <1>3 DEF Staging!OperationStarts, Staging!Ends, Staging!HasChild, Staging!Reports,
      Staging!Goto
<1>4. CASE Staging!AdoptChild
  BY <1>4 DEF Staging!AdoptChild, Staging!Passes, Staging!Goto
<1>5. CASE Staging!StreamMember
  BY <1>5 DEF Staging!StreamMember, Staging!Goto, Staging!Stopped, Staging!Ends, Staging!Passes,
      Staging!Reports
<1>6. CASE Staging!Deactivate
  BY <1>6 DEF Staging!Deactivate, Staging!HasChild, Staging!Goto
<1>7. CASE Staging!CompareResult
  BY <1>7 DEF Staging!CompareResult, Staging!Interrupted, Staging!Passes, Staging!Makes,
      Staging!Ends, Staging!Goto, Staging!Reports
<1>8. CASE Staging!ExpandEmbedded
  BY <1>8 DEF Staging!ExpandEmbedded, Staging!Transforms, Staging!Interrupted, Staging!Passes,
      Staging!Ends, Staging!Goto, Staging!Reports
<1>9. CASE Staging!AddOverlay
  BY <1>9 DEF Staging!AddOverlay, Staging!Transforms, Staging!Interrupted, Staging!Passes,
      Staging!Ends, Staging!Goto, Staging!Reports
<1>10. CASE Staging!PlaceSyslinux
  BY <1>10 DEF Staging!PlaceSyslinux, Staging!Transforms, Staging!Interrupted, Staging!Passes,
      Staging!Ends, Staging!Goto, Staging!Reports
<1>11. CASE Staging!InspectEditions
  <2> USE <1>11 DEF Staging!InspectEditions, Staging!Interrupted, Staging!Makes, Staging!Ends,
        Staging!Goto, Staging!Reports
  <2>1. Typed'
    OBVIOUS
  <2>2. Delivered' /\ Spoken' /\ Allowed
    OBVIOUS
  <2>3. StagingInv'
    OBVIOUS
  <2> QED
    BY <2>1, <2>2, <2>3
<1>12. CASE Staging!ExtractBootEx
  <2> USE <1>12 DEF Staging!ExtractBootEx, Staging!Transforms, Staging!NewOperation,
        Staging!Interrupted, Staging!Passes, Staging!HasChild, Staging!NoChild, Staging!Ends,
        Staging!Goto, Staging!Reports
  <2>1. child' \in Processes
    BY NewOperations DEF Tasks, NoChild
  <2>2. Typed'
    BY <2>1
  <2>3. Delivered' /\ Spoken' /\ Allowed
    BY <2>1
  <2>4. StagingInv'
    BY <2>1
  <2> QED
    BY <2>2, <2>3, <2>4
<1>13. CASE Staging!ReplaceBootFiles
  BY <1>13 DEF Staging!ReplaceBootFiles, Staging!Transforms, Staging!Interrupted, Staging!Passes,
      Staging!Ends, Staging!Goto, Staging!Reports
<1>14. CASE Staging!SplitWim
  <2> USE <1>14 DEF Staging!SplitWim, Staging!Transforms, Staging!NewOperation,
        Staging!Interrupted, Staging!Passes, Staging!HasChild, Staging!NoChild, Staging!Ends,
        Staging!Goto, Staging!Reports
  <2>1. child' \in Processes
    BY NewOperations DEF Tasks, NoChild
  <2>2. Typed'
    BY <2>1
  <2>3. Delivered' /\ Spoken' /\ Allowed
    BY <2>1
  <2>4. StagingInv'
    BY <2>1
  <2> QED
    BY <2>2, <2>3, <2>4
<1>15. CASE Staging!AddAnswer
  BY <1>15 DEF Staging!AddAnswer, Staging!Interrupted, Staging!Makes, Staging!Ends, Staging!Goto,
      Staging!Reports
<1>16. CASE Staging!ScanTree
  BY <1>16 DEF Staging!ScanTree, Staging!Interrupted, Staging!Passes, Staging!Ends, Staging!Goto,
      Staging!Reports
<1>17. CASE Staging!CheckDestination
  BY <1>17 DEF Staging!CheckDestination, Staging!Interrupted, Staging!Passes, Staging!Ends,
      Staging!Goto, Staging!Reports
<1>18. CASE Staging!Rename
  BY <1>18 DEF Staging!Rename, Staging!GivesName, Staging!Goto
<1>19. CASE Staging!SyncParent
  BY <1>19 DEF Staging!SyncParent, Staging!Passes, Staging!Ends, Staging!Goto, Staging!Reports
<1>20. CASE Staging!CompareManifest
  BY <1>20 DEF Staging!CompareManifest, Staging!Ends, Staging!Reports, Staging!Goto
<1>21. CASE Staging!RemovePrivate
  BY <1>21 DEF Staging!RemovePrivate, Staging!Goto
<1>22. CASE Staging!ChildEnds
  <2> USE <1>22 DEF Staging!ChildEnds
  <2>1. Size - 1 \in 0..Size
    BY Bounds
  <2>2. (input = "bound") \in BOOLEAN
    OBVIOUS
  <2>3. image' \in Blocks
    BY <2>1, <2>2
  <2>4. Typed'
    BY <2>1, <2>2, <2>3
  <2>5. Delivered' /\ Spoken' /\ Allowed
    BY <2>1, <2>2, <2>3
  <2>6. StagingInv'
    BY <2>1, <2>2, <2>3
  <2> QED
    BY <2>4, <2>5, <2>6
<1>23. CASE Staging!CancelSets
  BY <1>23 DEF Staging!CancelSets, Staging!Finished
<1>24. CASE Staging!CancelReads
  BY <1>24 DEF Staging!CancelReads
<1>25. CASE Staging!CancelOperation
  <2> USE <1>25 DEF Staging!CancelOperation, Staging!Stopped
  <2>1. child' \in Processes /\ UNCHANGED <<cancelled, entry, input, image, told>>
    OBVIOUS
  <2>2. Typed'
    BY <2>1
  <2>3. Delivered' /\ Spoken' /\ Allowed
    BY <2>1
  <2>4. StagingInv'
    BY <2>1
  <2> QED
    BY <2>2, <2>3, <2>4
<1>26. CASE Staging!SomebodyCreates
  BY <1>26 DEF Staging!SomebodyCreates
<1>27. CASE Staging!InputChanges
  BY <1>27 DEF Staging!InputChanges, Staging!Finished
<1>28. CASE Staging!Tampers
  <2> USE <1>28 DEF Staging!Tampers, Staging!FileChanges
  <2>1. image' \in Blocks
    OBVIOUS
  <2>2. Typed'
    BY <2>1
  <2>3. Delivered' /\ Spoken' /\ Allowed
    BY <2>1
  <2>4. StagingInv'
    BY <2>1
  <2> QED
    BY <2>2, <2>3, <2>4
<1>29. CASE Staging!Killed
  BY <1>29 DEF Staging!Killed, Staging!Finished
<1> QED
  BY <1>1, <1>2, <1>3, <1>4, <1>5, <1>6, <1>7, <1>8, <1>9, <1>10, <1>11, <1>12, <1>13, <1>14,
     <1>15, <1>16, <1>17, <1>18, <1>19, <1>20, <1>21, <1>22, <1>23, <1>24, <1>25, <1>26, <1>27,
     <1>28, <1>29
     DEF Staging!Next, Staging!Works, Staging!ChildWorks, Staging!CancelGoesOn,
         Staging!Environment

\* The two operations on a WIM by themselves.
LEMMA WimStep ==
  ASSUME Typed, Delivered, Spoken, WimInv, Staging!WimNext
  PROVE  Typed' /\ Delivered' /\ Spoken' /\ WimInv' /\ Allowed
<1> USE SizeAssumption DEF Delivered, Spoken, Allowed, Typed, Blocks, Said, Processes, Complete,
      Finished, Plain, Untold, Nothing, Empty, WimInv
<1>1. CASE Staging!PlanSplit
  BY <1>1 DEF Staging!PlanSplit, Staging!Passes, Staging!Goto
<1>2. CASE Staging!PlanExtract
  BY <1>2 DEF Staging!PlanExtract, Staging!Passes, Staging!Goto
<1>3. CASE Staging!PlanRefused
  BY <1>3 DEF Staging!PlanRefused, Staging!Ends, Staging!Reports, Staging!Goto
<1>4. CASE Staging!OpenWim
  BY <1>4 DEF Staging!OpenWim, Staging!Passes, Staging!Goto
<1>5. CASE Staging!ExecuteRefused
  BY <1>5 DEF Staging!ExecuteRefused, Staging!Interrupted, Staging!Ends, Staging!Reports,
      Staging!Goto
<1>6. CASE Staging!MakeStaging
  BY <1>6 DEF Staging!MakeStaging, Staging!Ends, Staging!Keeps, Staging!WimNames, Staging!Reports,
      Staging!Goto
<1>7. CASE Staging!StartWim
  <2> USE <1>7 DEF Staging!StartWim, Staging!Interrupted, Staging!HasChild, Staging!Ends,
        Staging!Goto, Staging!Reports
  <2>1. Typed'
    OBVIOUS
  <2>2. Delivered' /\ Spoken' /\ Allowed
    OBVIOUS
  <2>3. WimInv'
    OBVIOUS
  <2> QED
    BY <2>1, <2>2, <2>3
<1>8. CASE Staging!RegisterWim
  BY <1>8 DEF Staging!RegisterWim, Staging!HasChild, Staging!Goto
<1>9. CASE Staging!StartReaders
  BY <1>9 DEF Staging!StartReaders, Staging!Passes, Staging!Ends, Staging!Goto, Staging!Reports
<1>10. CASE Staging!PollWim
  BY <1>10 DEF Staging!PollWim, Staging!Passes, Staging!Meets, Staging!Goto, Staging!Ends,
      Staging!Reports
<1>11. CASE Staging!StopWim
  BY <1>11 DEF Staging!StopWim, Staging!StopsWim, Staging!Goto, Staging!Stopped
<1>12. CASE Staging!JoinReaders
  <2> USE <1>12 DEF Staging!JoinReaders, Staging!Ends, Staging!Passes, Staging!HasChild,
        Staging!Reports, Staging!Goto
  <2>1. Typed'
    OBVIOUS
  <2>2. Delivered' /\ Spoken' /\ Allowed
    OBVIOUS
  <2>3. WimInv'
    OBVIOUS
  <2> QED
    BY <2>1, <2>2, <2>3
<1>13. CASE Staging!CheckExit
  BY <1>13 DEF Staging!CheckExit, Staging!Interrupted, Staging!Passes, Staging!Ends, Staging!Goto,
      Staging!Reports
<1>14. CASE Staging!ValidateParts
  <2> USE <1>14 DEF Staging!ValidateParts, Staging!Makes, Staging!Goto
  <2>1. Typed'
    OBVIOUS
  <2>2. Delivered' /\ Spoken' /\ Allowed
    OBVIOUS
  <2>3. WimInv'
    OBVIOUS
  <2> QED
    BY <2>1, <2>2, <2>3
<1>15. CASE Staging!ValidateTree
  <2> USE <1>15 DEF Staging!ValidateTree, Staging!Makes, Staging!Goto
  <2>1. Typed'
    OBVIOUS
  <2>2. Delivered' /\ Spoken' /\ Allowed
    OBVIOUS
  <2>3. WimInv'
    OBVIOUS
  <2> QED
    BY <2>1, <2>2, <2>3
<1>16. CASE Staging!TreeRefused
  BY <1>16 DEF Staging!TreeRefused, Staging!Ends, Staging!Reports, Staging!Goto
<1>17. CASE Staging!CheckNewDirectory
  BY <1>17 DEF Staging!CheckNewDirectory, Staging!Interrupted, Staging!Passes, Staging!Ends,
      Staging!Goto, Staging!Reports
<1>18. CASE Staging!MoveStaging
  BY <1>18 DEF Staging!MoveStaging, Staging!Goto
<1>19. CASE Staging!SyncWimParent
  BY <1>19 DEF Staging!SyncWimParent, Staging!Ends, Staging!Reports, Staging!Goto
<1>20. CASE Staging!WimFinally
  <2> USE <1>20 DEF Staging!WimFinally, Staging!Goto, Staging!Stopped
  <2>1. Typed'
    OBVIOUS
  <2>2. Delivered' /\ Spoken' /\ Allowed
    OBVIOUS
  <2>3. WimInv'
    OBVIOUS
  <2> QED
    BY <2>1, <2>2, <2>3
<1>21. CASE Staging!WimChildEnds
  <2> USE <1>21 DEF Staging!WimChildEnds
  <2>1. Typed'
    OBVIOUS
  <2>2. Delivered' /\ Spoken' /\ Allowed
    OBVIOUS
  <2>3. WimInv'
    OBVIOUS
  <2> QED
    BY <2>1, <2>2, <2>3
<1>22. CASE Staging!CancelSets
  BY <1>22 DEF Staging!CancelSets, Staging!Finished
<1>23. CASE Staging!CancelReads
  BY <1>23 DEF Staging!CancelReads
<1>24. CASE Staging!CancelStops
  BY <1>24 DEF Staging!CancelStops, Staging!Stopped
<1>25. CASE Staging!SomebodyCreates
  BY <1>25 DEF Staging!SomebodyCreates
<1>26. CASE Staging!InputChanges
  BY <1>26 DEF Staging!InputChanges, Staging!Finished
<1>27. CASE Staging!Killed
  BY <1>27 DEF Staging!Killed, Staging!Finished
<1> QED
  BY <1>1, <1>2, <1>3, <1>4, <1>5, <1>6, <1>7, <1>8, <1>9, <1>10, <1>11, <1>12, <1>13, <1>14,
     <1>15, <1>16, <1>17, <1>18, <1>19, <1>20, <1>21, <1>22, <1>23, <1>24, <1>25, <1>26, <1>27
     DEF Staging!WimNext, Staging!WimWorks, Staging!Cancels, Staging!WimEnvironment

\* The lock and the descriptors of a snapshot, between its worker and its close().
LEMMA SnapshotOwnerStep ==
  ASSUME Typed, SnapshotInv, Snapshot!Next
  PROVE  SnapshotOwner'
<1> USE SizeAssumption DEF Typed, SnapshotInv, SnapshotOwner, Blocks, SnapshotOwners, Planning,
      Opening, Converting, Owned
<1>1. CASE Snapshot!BuildFilePlan /\ UNCHANGED owner
  BY <1>1 DEF Snapshot!BuildFilePlan, Snapshot!Passes, Snapshot!Goto
<1>2. CASE Snapshot!MatchProfile /\ UNCHANGED owner
  BY <1>2 DEF Snapshot!MatchProfile, Snapshot!Passes, Snapshot!Goto
<1>3. CASE Snapshot!BindOuterSource /\ UNCHANGED owner
  BY <1>3 DEF Snapshot!BindOuterSource, Snapshot!Unchanged, Snapshot!Passes, Snapshot!Goto
<1>4. CASE Snapshot!BuildBoundPlan /\ UNCHANGED owner
  BY <1>4 DEF Snapshot!BuildBoundPlan, Snapshot!Passes, Snapshot!Goto
<1>5. CASE Snapshot!CheckPlanShape /\ UNCHANGED owner
  BY <1>5 DEF Snapshot!CheckPlanShape, Snapshot!Passes, Snapshot!Goto
<1>6. CASE Snapshot!ValidatePlan /\ UNCHANGED owner
  BY <1>6 DEF Snapshot!ValidatePlan, Snapshot!Passes, Snapshot!Goto
<1>7. CASE Snapshot!Run /\ UNCHANGED owner
  BY <1>7 DEF Snapshot!Run, Snapshot!Passes, Snapshot!Goto
<1>8. CASE Snapshot!RunMaterialized /\ UNCHANGED owner
  BY <1>8 DEF Snapshot!RunMaterialized, Snapshot!Passes, Snapshot!Goto
<1>9. CASE Snapshot!PlanRefused /\ UNCHANGED owner
  BY <1>9 DEF Snapshot!PlanRefused, Snapshot!Interrupted, Snapshot!Ends, Snapshot!Reports,
      Snapshot!Goto
<1>10. CASE Snapshot!OpenSource /\ UNCHANGED owner
  BY <1>10 DEF Snapshot!OpenSource, Snapshot!Keeps, Snapshot!Goto
<1>11. CASE Snapshot!OpenWorkspace /\ UNCHANGED owner
  BY <1>11 DEF Snapshot!OpenWorkspace, Snapshot!Keeps, Snapshot!Goto
<1>12. CASE Snapshot!RequireNonresident /\ UNCHANGED owner
  BY <1>12 DEF Snapshot!RequireNonresident, Snapshot!Passes, Snapshot!Goto
<1>13. CASE Snapshot!OpenRefused /\ UNCHANGED owner
  BY <1>13 DEF Snapshot!OpenRefused, Snapshot!Interrupted, Snapshot!Ends, Snapshot!Reports,
      Snapshot!Goto
<1>14. CASE Snapshot!CreateForFile /\ UNCHANGED owner
  BY <1>14 DEF Snapshot!CreateForFile, Snapshot!WithSnapshot, Snapshot!Keeps, Snapshot!Goto
<1>15. CASE Snapshot!CreateForStream /\ UNCHANGED owner
  BY <1>15 DEF Snapshot!CreateForStream, Snapshot!Unchanged, Snapshot!WithSnapshot,
      Snapshot!Keeps, Snapshot!Goto
<1>16. CASE Snapshot!CreateForCallback /\ UNCHANGED owner
  BY <1>16 DEF Snapshot!CreateForCallback, Snapshot!Unchanged, Snapshot!WithSnapshot,
      Snapshot!Keeps, Snapshot!Goto
<1>17. CASE Snapshot!ReadBlock /\ UNCHANGED owner
  BY <1>17 DEF Snapshot!ReadBlock, Snapshot!Makes, Snapshot!InHand, Snapshot!Goto
<1>18. CASE Snapshot!NextChunk /\ UNCHANGED owner
  BY <1>18 DEF Snapshot!NextChunk, Snapshot!Makes, Snapshot!InHand, Snapshot!Goto
<1>19. CASE Snapshot!WriteCopied /\ UNCHANGED owner
  BY <1>19 DEF Snapshot!WriteCopied, Snapshot!WritesBlock, Snapshot!Makes, Snapshot!Goto
<1>20. CASE Snapshot!WriteDecoded /\ UNCHANGED owner
  BY <1>20 DEF Snapshot!WriteDecoded, Snapshot!WritesBlock, Snapshot!Makes, Snapshot!Goto
<1>21. CASE Snapshot!CopyRefused /\ UNCHANGED owner
  BY <1>21 DEF Snapshot!CopyRefused, Snapshot!Interrupted, Snapshot!Ends, Snapshot!Reports,
      Snapshot!Goto
<1>22. CASE Snapshot!CopyEnds /\ UNCHANGED owner
  BY <1>22 DEF Snapshot!CopyEnds, Snapshot!Passes, Snapshot!Goto
<1>23. CASE Snapshot!StreamEnds /\ UNCHANGED owner
  BY <1>23 DEF Snapshot!StreamEnds, Snapshot!Passes, Snapshot!Goto
<1>24. CASE Snapshot!LendDescriptor /\ UNCHANGED owner
  BY <1>24 DEF Snapshot!LendDescriptor, Snapshot!Keeps, Snapshot!Goto
<1>25. CASE Snapshot!BindDisk /\ UNCHANGED owner
  BY <1>25 DEF Snapshot!BindDisk, Snapshot!SameDisk, Snapshot!Keeps, Snapshot!Goto
<1>26. CASE Snapshot!AskInfo /\ UNCHANGED owner
  BY <1>26 DEF Snapshot!AskInfo, Snapshot!AnonymousOutput, Snapshot!HasChild, Snapshot!Goto
<1>27. CASE Snapshot!RunInfoLimited /\ UNCHANGED owner
  BY <1>27 DEF Snapshot!RunInfoLimited, Snapshot!Interrupted, Snapshot!Ends, Snapshot!Reports,
      Snapshot!Goto
<1>28. CASE Snapshot!SameDescription /\ UNCHANGED owner
  BY <1>28 DEF Snapshot!SameDescription, Snapshot!AnonymousOutput, Snapshot!SameDisk,
      Snapshot!HasChild, Snapshot!Goto
<1>29. CASE Snapshot!SpawnConverter /\ UNCHANGED owner
  BY <1>29 DEF Snapshot!SpawnConverter, Snapshot!Ends, Snapshot!HasChild, Snapshot!Reports,
      Snapshot!Goto
<1>30. CASE Snapshot!RegisterConverter /\ UNCHANGED owner
  BY <1>30 DEF Snapshot!RegisterConverter, Snapshot!HasChild, Snapshot!Goto
<1>31. CASE Snapshot!WatchConverter /\ UNCHANGED owner
  BY <1>31 DEF Snapshot!WatchConverter, Snapshot!Passes, Snapshot!StopProcess, Snapshot!Goto,
      Snapshot!HasChild, Snapshot!Stopped
<1>32. CASE Snapshot!GiveUp /\ UNCHANGED owner
  BY <1>32 DEF Snapshot!GiveUp, Snapshot!Ends, Snapshot!Reports, Snapshot!Goto
<1>33. CASE Snapshot!Collect /\ UNCHANGED owner
  BY <1>33 DEF Snapshot!Collect, Snapshot!Passes, Snapshot!Goto
<1>34. CASE Snapshot!Verdict /\ UNCHANGED owner
  BY <1>34 DEF Snapshot!Verdict, Snapshot!Interrupted, Snapshot!SameDisk,
      Snapshot!AnonymousOutput, Snapshot!Passes, Snapshot!Ends, Snapshot!Goto, Snapshot!Reports
<1>35. CASE Snapshot!CloseConversion /\ UNCHANGED owner
  BY <1>35 DEF Snapshot!CloseConversion, Snapshot!Goto, Snapshot!Stopped
<1>36. CASE Snapshot!MaterializerReturns /\ UNCHANGED owner
  BY <1>36 DEF Snapshot!MaterializerReturns, Snapshot!Keeps, Snapshot!Ends, Snapshot!Goto,
      Snapshot!Reports
<1>37. CASE Snapshot!MaterializerFails /\ UNCHANGED owner
  BY <1>37 DEF Snapshot!MaterializerFails, Snapshot!Interrupted, Snapshot!Ends, Snapshot!Reports,
      Snapshot!Goto
<1>38. CASE Snapshot!CloseBorrowed /\ UNCHANGED owner
  BY <1>38 DEF Snapshot!CloseBorrowed, Snapshot!Keeps, Snapshot!Goto
<1>39. CASE Snapshot!CheckContinuity /\ UNCHANGED owner
  BY <1>39 DEF Snapshot!CheckContinuity, Snapshot!Unchanged, Snapshot!Passes, Snapshot!Goto
<1>40. CASE Snapshot!AllocateMaterialized /\ UNCHANGED owner
  BY <1>40 DEF Snapshot!AllocateMaterialized, Snapshot!Unchanged, Snapshot!Passes, Snapshot!Goto
<1>41. CASE Snapshot!MaterializerRefused /\ UNCHANGED owner
  BY <1>41 DEF Snapshot!MaterializerRefused, Snapshot!Interrupted, Snapshot!Ends,
      Snapshot!Reports, Snapshot!Goto
<1>42. CASE Snapshot!SyncSnapshot /\ UNCHANGED owner
  BY <1>42 DEF Snapshot!SyncSnapshot, Snapshot!Interrupted, Snapshot!Makes, Snapshot!Ends,
      Snapshot!Goto, Snapshot!Reports
<1>43. CASE Snapshot!AttestRefused /\ UNCHANGED owner
  BY <1>43 DEF Snapshot!AttestRefused, Snapshot!Interrupted, Snapshot!Ends, Snapshot!Reports,
      Snapshot!Goto
<1>44. CASE Snapshot!AttestCopy /\ UNCHANGED owner
  BY <1>44 DEF Snapshot!AttestCopy, Snapshot!Attests, Snapshot!HasChild, Snapshot!Goto
<1>45. CASE Snapshot!AttestStream /\ UNCHANGED owner
  BY <1>45 DEF Snapshot!AttestStream, Snapshot!Unchanged, Snapshot!Attests, Snapshot!HasChild,
      Snapshot!Goto
<1>46. CASE Snapshot!FirstReadBack /\ UNCHANGED owner
  BY <1>46 DEF Snapshot!FirstReadBack, Snapshot!Unchanged, Snapshot!Attests, Snapshot!HasChild,
      Snapshot!Goto
<1>47. CASE Snapshot!SecondReadBack /\ UNCHANGED owner
  BY <1>47 DEF Snapshot!SecondReadBack, Snapshot!Unchanged, Snapshot!SameDigest, Snapshot!Attests,
      Snapshot!HasChild, Snapshot!Goto
<1>48. CASE Snapshot!CloseAll /\ UNCHANGED owner
  BY <1>48 DEF Snapshot!CloseAll, Snapshot!Keeps, Snapshot!Goto
<1>49. CASE Snapshot!HandOver
  BY <1>49 DEF Snapshot!HandOver, Snapshot!Goto
<1>50. CASE Snapshot!TransferLocks
  BY <1>50 DEF Snapshot!TransferLocks, Snapshot!Passes, Snapshot!Goto
<1>51. CASE Snapshot!NotTransferable
  BY <1>51 DEF Snapshot!NotTransferable, Snapshot!Ends, Snapshot!Release, Snapshot!Reports,
      Snapshot!Goto
<1>52. CASE Snapshot!Duplicate
  BY <1>52 DEF Snapshot!Duplicate, Snapshot!Keeps, Snapshot!Goto
<1>53. CASE Snapshot!RehashFails
  BY <1>53 DEF Snapshot!RehashFails, Snapshot!Goto, Snapshot!Release, Snapshot!Closes
<1>54. CASE Snapshot!Rehash
  BY <1>54 DEF Snapshot!Rehash, Snapshot!SameDigest, Snapshot!Passes, Snapshot!Goto
<1>55. CASE Snapshot!Detach
  BY <1>55 DEF Snapshot!Detach, Snapshot!Keeps, Snapshot!Release, Snapshot!Closes, Snapshot!Goto
<1>56. CASE Snapshot!SendPacket
  BY <1>56 DEF Snapshot!SendPacket, Snapshot!GivesName, Snapshot!Goto
<1>57. CASE Snapshot!SendFails
  BY <1>57 DEF Snapshot!SendFails, Snapshot!Ends, Snapshot!Reports, Snapshot!Goto
<1>58. CASE Snapshot!PoisonAfterSend
  BY <1>58 DEF Snapshot!PoisonAfterSend, Snapshot!Passes, Snapshot!Goto
<1>59. CASE Snapshot!CloseDuplicate
  BY <1>59 DEF Snapshot!CloseDuplicate, Snapshot!Goto
<1>60. CASE Snapshot!CloseCalled
  BY <1>60 DEF Snapshot!CloseCalled, Snapshot!Closing
<1>61. CASE Snapshot!CloseLocks
  BY <1>61 DEF Snapshot!CloseLocks, Snapshot!Closing
<1>62. CASE Snapshot!CloseDescriptor
  BY <1>62 DEF Snapshot!CloseDescriptor, Snapshot!Closing, Snapshot!Closes
<1>63. CASE Snapshot!CloseMarks
  BY <1>63 DEF Snapshot!CloseMarks, Snapshot!Closing
<1>64. CASE Snapshot!CancelSets /\ UNCHANGED owner
  BY <1>64 DEF Snapshot!CancelSets, Snapshot!Finished
<1>65. CASE Snapshot!CancelReads /\ UNCHANGED owner
  BY <1>65 DEF Snapshot!CancelReads
<1>66. CASE Snapshot!CancelStops /\ UNCHANGED owner
  BY <1>66 DEF Snapshot!CancelStops, Snapshot!Stopped
<1>67. CASE Snapshot!InputChanges /\ UNCHANGED owner
  BY <1>67 DEF Snapshot!InputChanges, Snapshot!Finished
<1>68. CASE Snapshot!StorageErrs /\ UNCHANGED owner
  BY <1>68 DEF Snapshot!StorageErrs, Snapshot!FileChanges
<1>69. CASE Snapshot!MaterializerCloses /\ UNCHANGED owner
  BY <1>69 DEF Snapshot!MaterializerCloses, Snapshot!Keeps, Snapshot!Goto
<1>70. CASE Snapshot!InfoAnswers /\ UNCHANGED owner
  BY <1>70 DEF Snapshot!InfoAnswers
<1>71. CASE Snapshot!ConverterSizes /\ UNCHANGED owner
  BY <1>71 DEF Snapshot!ConverterSizes
<1>72. CASE Snapshot!ConverterExits /\ UNCHANGED owner
  BY <1>72 DEF Snapshot!ConverterExits, Snapshot!SameDisk
<1>73. CASE Snapshot!TooMuchOutput /\ UNCHANGED owner
  BY <1>73 DEF Snapshot!TooMuchOutput, Snapshot!Stopped
<1> QED
  BY <1>1, <1>2, <1>3, <1>4, <1>5, <1>6, <1>7, <1>8, <1>9, <1>10, <1>11, <1>12, <1>13, <1>14,
     <1>15, <1>16, <1>17, <1>18, <1>19, <1>20, <1>21, <1>22, <1>23, <1>24, <1>25, <1>26, <1>27,
     <1>28, <1>29, <1>30, <1>31, <1>32, <1>33, <1>34, <1>35, <1>36, <1>37, <1>38, <1>39, <1>40,
     <1>41, <1>42, <1>43, <1>44, <1>45, <1>46, <1>47, <1>48, <1>49, <1>50, <1>51, <1>52, <1>53,
     <1>54, <1>55, <1>56, <1>57, <1>58, <1>59, <1>60, <1>61, <1>62, <1>63, <1>64, <1>65, <1>66,
     <1>67, <1>68, <1>69, <1>70, <1>71, <1>72, <1>73
     DEF Snapshot!Next, Snapshot!BuilderWorks, Snapshot!Converts, Snapshot!Works,
         Snapshot!CloseGoesOn, Snapshot!Cancels, Snapshot!Environment, Snapshot!ConverterWorks,
         Snapshot!Builder

\* A snapshot: what is hashed once more under the lock is what is sent.
LEMMA SnapshotStep ==
  ASSUME Typed, Delivered, Spoken, SnapshotInv, Snapshot!Next, SnapshotOwner'
  PROVE  Typed' /\ Delivered' /\ Spoken' /\ SnapshotInv' /\ Allowed
<1> USE SizeAssumption DEF Delivered, Spoken, Allowed, Typed, Blocks, Said, Processes, Complete,
      Finished, Plain, Untold, Nothing, Empty, SnapshotInv, Planning, Opening, Converting, Owned
<1>1. CASE Snapshot!BuildFilePlan /\ UNCHANGED owner
  BY <1>1 DEF Snapshot!BuildFilePlan, Snapshot!Passes, Snapshot!Goto
<1>2. CASE Snapshot!MatchProfile /\ UNCHANGED owner
  BY <1>2 DEF Snapshot!MatchProfile, Snapshot!Passes, Snapshot!Goto
<1>3. CASE Snapshot!BindOuterSource /\ UNCHANGED owner
  BY <1>3 DEF Snapshot!BindOuterSource, Snapshot!Unchanged, Snapshot!Passes, Snapshot!Goto
<1>4. CASE Snapshot!BuildBoundPlan /\ UNCHANGED owner
  BY <1>4 DEF Snapshot!BuildBoundPlan, Snapshot!Passes, Snapshot!Goto
<1>5. CASE Snapshot!CheckPlanShape /\ UNCHANGED owner
  BY <1>5 DEF Snapshot!CheckPlanShape, Snapshot!Passes, Snapshot!Goto
<1>6. CASE Snapshot!ValidatePlan /\ UNCHANGED owner
  BY <1>6 DEF Snapshot!ValidatePlan, Snapshot!Passes, Snapshot!Goto
<1>7. CASE Snapshot!Run /\ UNCHANGED owner
  BY <1>7 DEF Snapshot!Run, Snapshot!Passes, Snapshot!Goto
<1>8. CASE Snapshot!RunMaterialized /\ UNCHANGED owner
  BY <1>8 DEF Snapshot!RunMaterialized, Snapshot!Passes, Snapshot!Goto
<1>9. CASE Snapshot!PlanRefused /\ UNCHANGED owner
  BY <1>9 DEF Snapshot!PlanRefused, Snapshot!Interrupted, Snapshot!Ends, Snapshot!Reports,
      Snapshot!Goto
<1>10. CASE Snapshot!OpenSource /\ UNCHANGED owner
  BY <1>10 DEF Snapshot!OpenSource, Snapshot!Keeps, Snapshot!Goto
<1>11. CASE Snapshot!OpenWorkspace /\ UNCHANGED owner
  BY <1>11 DEF Snapshot!OpenWorkspace, Snapshot!Keeps, Snapshot!Goto
<1>12. CASE Snapshot!RequireNonresident /\ UNCHANGED owner
  BY <1>12 DEF Snapshot!RequireNonresident, Snapshot!Passes, Snapshot!Goto
<1>13. CASE Snapshot!OpenRefused /\ UNCHANGED owner
  BY <1>13 DEF Snapshot!OpenRefused, Snapshot!Interrupted, Snapshot!Ends, Snapshot!Reports,
      Snapshot!Goto
<1>14. CASE Snapshot!CreateForFile /\ UNCHANGED owner
  BY <1>14 DEF Snapshot!CreateForFile, Snapshot!WithSnapshot, Snapshot!Keeps, Snapshot!Goto
<1>15. CASE Snapshot!CreateForStream /\ UNCHANGED owner
  BY <1>15 DEF Snapshot!CreateForStream, Snapshot!Unchanged, Snapshot!WithSnapshot,
      Snapshot!Keeps, Snapshot!Goto
<1>16. CASE Snapshot!CreateForCallback /\ UNCHANGED owner
  BY <1>16 DEF Snapshot!CreateForCallback, Snapshot!Unchanged, Snapshot!WithSnapshot,
      Snapshot!Keeps, Snapshot!Goto
<1>17. CASE Snapshot!ReadBlock /\ UNCHANGED owner
  BY <1>17 DEF Snapshot!ReadBlock, Snapshot!Makes, Snapshot!InHand, Snapshot!Goto
<1>18. CASE Snapshot!NextChunk /\ UNCHANGED owner
  BY <1>18 DEF Snapshot!NextChunk, Snapshot!Makes, Snapshot!InHand, Snapshot!Goto
<1>19. CASE Snapshot!WriteCopied /\ UNCHANGED owner
  <2> USE <1>19 DEF Snapshot!WriteCopied, Snapshot!WritesBlock, Snapshot!Makes, Snapshot!Goto
  <2>1. image.done + 1 \in 0..Size
    BY OneMore
  <2>2. (image.right /\ image.bound) \in BOOLEAN
    OBVIOUS
  <2>3. image' \in Blocks
    BY <2>1, <2>2
  <2>4. Typed'
    BY <2>1, <2>2, <2>3
  <2>5. Delivered' /\ Spoken' /\ Allowed
    BY <2>1, <2>2, <2>3
  <2>6. SnapshotInv'
    BY <2>1, <2>2, <2>3
  <2> QED
    BY <2>4, <2>5, <2>6
<1>20. CASE Snapshot!WriteDecoded /\ UNCHANGED owner
  <2> USE <1>20 DEF Snapshot!WriteDecoded, Snapshot!WritesBlock, Snapshot!Makes, Snapshot!Goto
  <2>1. image.done + 1 \in 0..Size
    BY OneMore
  <2>2. (image.right /\ image.bound) \in BOOLEAN
    OBVIOUS
  <2>3. image' \in Blocks
    BY <2>1, <2>2
  <2>4. Typed'
    BY <2>1, <2>2, <2>3
  <2>5. Delivered' /\ Spoken' /\ Allowed
    BY <2>1, <2>2, <2>3
  <2>6. SnapshotInv'
    BY <2>1, <2>2, <2>3
  <2> QED
    BY <2>4, <2>5, <2>6
<1>21. CASE Snapshot!CopyRefused /\ UNCHANGED owner
  BY <1>21 DEF Snapshot!CopyRefused, Snapshot!Interrupted, Snapshot!Ends, Snapshot!Reports,
      Snapshot!Goto
<1>22. CASE Snapshot!CopyEnds /\ UNCHANGED owner
  BY <1>22 DEF Snapshot!CopyEnds, Snapshot!Passes, Snapshot!Goto
<1>23. CASE Snapshot!StreamEnds /\ UNCHANGED owner
  BY <1>23 DEF Snapshot!StreamEnds, Snapshot!Passes, Snapshot!Goto
<1>24. CASE Snapshot!LendDescriptor /\ UNCHANGED owner
  BY <1>24 DEF Snapshot!LendDescriptor, Snapshot!Keeps, Snapshot!Goto
<1>25. CASE Snapshot!BindDisk /\ UNCHANGED owner
  BY <1>25 DEF Snapshot!BindDisk, Snapshot!SameDisk, Snapshot!Keeps, Snapshot!Goto
<1>26. CASE Snapshot!AskInfo /\ UNCHANGED owner
  BY <1>26 DEF Snapshot!AskInfo, Snapshot!AnonymousOutput, Snapshot!HasChild, Snapshot!Goto
<1>27. CASE Snapshot!RunInfoLimited /\ UNCHANGED owner
  BY <1>27 DEF Snapshot!RunInfoLimited, Snapshot!Interrupted, Snapshot!Ends, Snapshot!Reports,
      Snapshot!Goto
<1>28. CASE Snapshot!SameDescription /\ UNCHANGED owner
  BY <1>28 DEF Snapshot!SameDescription, Snapshot!AnonymousOutput, Snapshot!SameDisk,
      Snapshot!HasChild, Snapshot!Goto
<1>29. CASE Snapshot!SpawnConverter /\ UNCHANGED owner
  <2> USE <1>29 DEF Snapshot!SpawnConverter, Snapshot!Ends, Snapshot!HasChild, Snapshot!Reports,
        Snapshot!Goto
  <2>1. Typed'
    OBVIOUS
  <2>2. Delivered' /\ Spoken' /\ Allowed
    OBVIOUS
  <2>3. SnapshotInv'
    OBVIOUS
  <2> QED
    BY <2>1, <2>2, <2>3
<1>30. CASE Snapshot!RegisterConverter /\ UNCHANGED owner
  BY <1>30 DEF Snapshot!RegisterConverter, Snapshot!HasChild, Snapshot!Goto
<1>31. CASE Snapshot!WatchConverter /\ UNCHANGED owner
  BY <1>31 DEF Snapshot!WatchConverter, Snapshot!Passes, Snapshot!StopProcess, Snapshot!Goto,
      Snapshot!HasChild, Snapshot!Stopped
<1>32. CASE Snapshot!GiveUp /\ UNCHANGED owner
  BY <1>32 DEF Snapshot!GiveUp, Snapshot!Ends, Snapshot!Reports, Snapshot!Goto
<1>33. CASE Snapshot!Collect /\ UNCHANGED owner
  BY <1>33 DEF Snapshot!Collect, Snapshot!Passes, Snapshot!Goto
<1>34. CASE Snapshot!Verdict /\ UNCHANGED owner
  BY <1>34 DEF Snapshot!Verdict, Snapshot!Interrupted, Snapshot!SameDisk,
      Snapshot!AnonymousOutput, Snapshot!Passes, Snapshot!Ends, Snapshot!Goto, Snapshot!Reports
<1>35. CASE Snapshot!CloseConversion /\ UNCHANGED owner
  <2> USE <1>35 DEF Snapshot!CloseConversion, Snapshot!Goto, Snapshot!Stopped
  <2>1. Typed'
    OBVIOUS
  <2>2. Delivered' /\ Spoken' /\ Allowed
    OBVIOUS
  <2>3. SnapshotInv'
    OBVIOUS
  <2> QED
    BY <2>1, <2>2, <2>3
<1>36. CASE Snapshot!MaterializerReturns /\ UNCHANGED owner
  BY <1>36 DEF Snapshot!MaterializerReturns, Snapshot!Keeps, Snapshot!Ends, Snapshot!Goto,
      Snapshot!Reports
<1>37. CASE Snapshot!MaterializerFails /\ UNCHANGED owner
  BY <1>37 DEF Snapshot!MaterializerFails, Snapshot!Interrupted, Snapshot!Ends, Snapshot!Reports,
      Snapshot!Goto
<1>38. CASE Snapshot!CloseBorrowed /\ UNCHANGED owner
  BY <1>38 DEF Snapshot!CloseBorrowed, Snapshot!Keeps, Snapshot!Goto
<1>39. CASE Snapshot!CheckContinuity /\ UNCHANGED owner
  BY <1>39 DEF Snapshot!CheckContinuity, Snapshot!Unchanged, Snapshot!Passes, Snapshot!Goto
<1>40. CASE Snapshot!AllocateMaterialized /\ UNCHANGED owner
  BY <1>40 DEF Snapshot!AllocateMaterialized, Snapshot!Unchanged, Snapshot!Passes, Snapshot!Goto
<1>41. CASE Snapshot!MaterializerRefused /\ UNCHANGED owner
  BY <1>41 DEF Snapshot!MaterializerRefused, Snapshot!Interrupted, Snapshot!Ends,
      Snapshot!Reports, Snapshot!Goto
<1>42. CASE Snapshot!SyncSnapshot /\ UNCHANGED owner
  <2> USE <1>42 DEF Snapshot!SyncSnapshot, Snapshot!Interrupted, Snapshot!Makes, Snapshot!Ends,
        Snapshot!Goto, Snapshot!Reports
  <2>1. image' = image \/ image' = [image EXCEPT !.durable = TRUE]
    OBVIOUS
  <2>2. image' \in Blocks
    BY <2>1, DurableIsTyped
  <2>3. Typed'
    BY <2>1, <2>2
  <2>4. Delivered' /\ Spoken' /\ Allowed
    BY <2>1, <2>2
  <2>5. SnapshotInv'
    BY <2>1, <2>2
  <2> QED
    BY <2>3, <2>4, <2>5
<1>43. CASE Snapshot!AttestRefused /\ UNCHANGED owner
  BY <1>43 DEF Snapshot!AttestRefused, Snapshot!Interrupted, Snapshot!Ends, Snapshot!Reports,
      Snapshot!Goto
<1>44. CASE Snapshot!AttestCopy /\ UNCHANGED owner
  BY <1>44 DEF Snapshot!AttestCopy, Snapshot!Attests, Snapshot!HasChild, Snapshot!Goto
<1>45. CASE Snapshot!AttestStream /\ UNCHANGED owner
  BY <1>45 DEF Snapshot!AttestStream, Snapshot!Unchanged, Snapshot!Attests, Snapshot!HasChild,
      Snapshot!Goto
<1>46. CASE Snapshot!FirstReadBack /\ UNCHANGED owner
  BY <1>46 DEF Snapshot!FirstReadBack, Snapshot!Unchanged, Snapshot!Attests, Snapshot!HasChild,
      Snapshot!Goto
<1>47. CASE Snapshot!SecondReadBack /\ UNCHANGED owner
  BY <1>47 DEF Snapshot!SecondReadBack, Snapshot!Unchanged, Snapshot!SameDigest, Snapshot!Attests,
      Snapshot!HasChild, Snapshot!Goto
<1>48. CASE Snapshot!CloseAll /\ UNCHANGED owner
  BY <1>48 DEF Snapshot!CloseAll, Snapshot!Keeps, Snapshot!Goto
<1>49. CASE Snapshot!HandOver
  BY <1>49 DEF Snapshot!HandOver, Snapshot!Goto
<1>50. CASE Snapshot!TransferLocks
  BY <1>50 DEF Snapshot!TransferLocks, Snapshot!Passes, Snapshot!Goto
<1>51. CASE Snapshot!NotTransferable
  BY <1>51 DEF Snapshot!NotTransferable, Snapshot!Ends, Snapshot!Release, Snapshot!Reports,
      Snapshot!Goto
<1>52. CASE Snapshot!Duplicate
  BY <1>52 DEF Snapshot!Duplicate, Snapshot!Keeps, Snapshot!Goto
<1>53. CASE Snapshot!RehashFails
  BY <1>53 DEF Snapshot!RehashFails, Snapshot!Goto, Snapshot!Release, Snapshot!Closes
<1>54. CASE Snapshot!Rehash
  BY <1>54 DEF Snapshot!Rehash, Snapshot!SameDigest, Snapshot!Passes, Snapshot!Goto
<1>55. CASE Snapshot!Detach
  BY <1>55 DEF Snapshot!Detach, Snapshot!Keeps, Snapshot!Release, Snapshot!Closes, Snapshot!Goto
<1>56. CASE Snapshot!SendPacket
  BY <1>56 DEF Snapshot!SendPacket, Snapshot!GivesName, Snapshot!Goto
<1>57. CASE Snapshot!SendFails
  BY <1>57 DEF Snapshot!SendFails, Snapshot!Ends, Snapshot!Reports, Snapshot!Goto
<1>58. CASE Snapshot!PoisonAfterSend
  BY <1>58 DEF Snapshot!PoisonAfterSend, Snapshot!Passes, Snapshot!Goto
<1>59. CASE Snapshot!CloseDuplicate
  BY <1>59 DEF Snapshot!CloseDuplicate, Snapshot!Goto
<1>60. CASE Snapshot!CloseCalled
  BY <1>60 DEF Snapshot!CloseCalled, Snapshot!Closing
<1>61. CASE Snapshot!CloseLocks
  BY <1>61 DEF Snapshot!CloseLocks, Snapshot!Closing
<1>62. CASE Snapshot!CloseDescriptor
  BY <1>62 DEF Snapshot!CloseDescriptor, Snapshot!Closing, Snapshot!Closes
<1>63. CASE Snapshot!CloseMarks
  BY <1>63 DEF Snapshot!CloseMarks, Snapshot!Closing
<1>64. CASE Snapshot!CancelSets /\ UNCHANGED owner
  BY <1>64 DEF Snapshot!CancelSets, Snapshot!Finished
<1>65. CASE Snapshot!CancelReads /\ UNCHANGED owner
  BY <1>65 DEF Snapshot!CancelReads
<1>66. CASE Snapshot!CancelStops /\ UNCHANGED owner
  BY <1>66 DEF Snapshot!CancelStops, Snapshot!Stopped
<1>67. CASE Snapshot!InputChanges /\ UNCHANGED owner
  BY <1>67 DEF Snapshot!InputChanges, Snapshot!Finished
<1>68. CASE Snapshot!StorageErrs /\ UNCHANGED owner
  <2> USE <1>68 DEF Snapshot!StorageErrs, Snapshot!FileChanges
  <2>1. image' \in Blocks
    OBVIOUS
  <2>2. Typed'
    BY <2>1
  <2>3. Delivered' /\ Spoken' /\ Allowed
    BY <2>1
  <2>4. SnapshotInv'
    BY <2>1
  <2> QED
    BY <2>2, <2>3, <2>4
<1>69. CASE Snapshot!MaterializerCloses /\ UNCHANGED owner
  BY <1>69 DEF Snapshot!MaterializerCloses, Snapshot!Keeps, Snapshot!Goto
<1>70. CASE Snapshot!InfoAnswers /\ UNCHANGED owner
  BY <1>70 DEF Snapshot!InfoAnswers
<1>71. CASE Snapshot!ConverterSizes /\ UNCHANGED owner
  <2> USE <1>71 DEF Snapshot!ConverterSizes
  <2>1. Size \in 0..Size
    BY Bounds
  <2>2. image' \in Blocks
    BY <2>1
  <2>3. Typed'
    BY <2>1, <2>2
  <2>4. Delivered' /\ Spoken' /\ Allowed
    BY <2>1, <2>2
  <2>5. SnapshotInv'
    BY <2>1, <2>2
  <2> QED
    BY <2>3, <2>4, <2>5
<1>72. CASE Snapshot!ConverterExits /\ UNCHANGED owner
  <2> USE <1>72 DEF Snapshot!ConverterExits, Snapshot!SameDisk
  <2>1. (image.done = Size /\ input = "bound") \in BOOLEAN
    OBVIOUS
  <2>2. PICK r \in BOOLEAN : image' = image \/ image' = [image EXCEPT !.right = r]
    BY <2>1
  <2>3. image' \in Blocks
    BY <2>1, <2>2
  <2>4. Typed'
    BY <2>1, <2>2, <2>3
  <2>5. Delivered' /\ Spoken' /\ Allowed
    BY <2>1, <2>2, <2>3
  <2>6. SnapshotInv'
    BY <2>1, <2>2, <2>3
  <2> QED
    BY <2>4, <2>5, <2>6
<1>73. CASE Snapshot!TooMuchOutput /\ UNCHANGED owner
  BY <1>73 DEF Snapshot!TooMuchOutput, Snapshot!Stopped
<1> QED
  BY <1>1, <1>2, <1>3, <1>4, <1>5, <1>6, <1>7, <1>8, <1>9, <1>10, <1>11, <1>12, <1>13, <1>14,
     <1>15, <1>16, <1>17, <1>18, <1>19, <1>20, <1>21, <1>22, <1>23, <1>24, <1>25, <1>26, <1>27,
     <1>28, <1>29, <1>30, <1>31, <1>32, <1>33, <1>34, <1>35, <1>36, <1>37, <1>38, <1>39, <1>40,
     <1>41, <1>42, <1>43, <1>44, <1>45, <1>46, <1>47, <1>48, <1>49, <1>50, <1>51, <1>52, <1>53,
     <1>54, <1>55, <1>56, <1>57, <1>58, <1>59, <1>60, <1>61, <1>62, <1>63, <1>64, <1>65, <1>66,
     <1>67, <1>68, <1>69, <1>70, <1>71, <1>72, <1>73
     DEF Snapshot!Next, Snapshot!BuilderWorks, Snapshot!Converts, Snapshot!Works,
         Snapshot!CloseGoesOn, Snapshot!Cancels, Snapshot!Environment, Snapshot!ConverterWorks,
         Snapshot!Builder

\* What these depend on and does not change.
LEMMA ImageOwnerStays ==
  ASSUME ImageOwner, UNCHANGED <<pc, private, owner>>
  PROVE  ImageOwner'
BY DEF ImageOwner

\* The same of a private image.
LEMMA ImageOwnerStep ==
  ASSUME Typed, ImageInv, Image!Next
  PROVE  ImageOwner'
<1> USE SizeAssumption DEF Typed, ImageInv, ImageOwner, Blocks, ImageOwners, Planned, Constructed,
      Patched, Attested
<1>1. CASE Image!PlanRefused /\ UNCHANGED owner
  BY <1>1 DEF Image!PlanRefused, Image!Interrupted, Image!Ends, Image!Reports, Image!Goto
<1>2. CASE Image!BindTree /\ UNCHANGED owner
  BY <1>2 DEF Image!BindTree, Image!Unchanged, Image!Passes, Image!Goto
<1>3. CASE Image!HashTree /\ UNCHANGED owner
  BY <1>3 DEF Image!HashTree, Image!Passes, Image!Goto
<1>4. CASE Image!RescanTree /\ UNCHANGED owner
  BY <1>4 DEF Image!RescanTree, Image!Unchanged, Image!Passes, Image!Goto
<1>5. CASE Image!BindPlan /\ UNCHANGED owner
  BY <1>5 DEF Image!BindPlan, Image!Unchanged, Image!Passes, Image!Goto
<1>6. CASE Image!RevalidatePlan /\ UNCHANGED owner
  BY <1>6 DEF Image!RevalidatePlan, Image!Unchanged, Image!Passes, Image!Goto
<1>7. CASE Image!CreateImage /\ UNCHANGED owner
  BY <1>7 DEF Image!CreateImage, Image!Keeps, Image!Goto
<1>8. CASE Image!WriteMetadata /\ UNCHANGED owner
  BY <1>8 DEF Image!WriteMetadata, Image!Passes, Image!Goto
<1>9. CASE Image!CopyFile /\ UNCHANGED owner
  BY <1>9 DEF Image!CopyFile, Image!Makes, Image!Goto
<1>10. CASE Image!DigestAgrees /\ UNCHANGED owner
  BY <1>10 DEF Image!DigestAgrees, Image!Makes, Image!Goto
<1>11. CASE Image!CopyEnds /\ UNCHANGED owner
  BY <1>11 DEF Image!CopyEnds, Image!Passes, Image!Goto
<1>12. CASE Image!TreeUnchanged /\ UNCHANGED owner
  BY <1>12 DEF Image!TreeUnchanged, Image!Passes, Image!Goto
<1>13. CASE Image!SyncImage /\ UNCHANGED owner
  BY <1>13 DEF Image!SyncImage, Image!Makes, Image!Goto
<1>14. CASE Image!MetadataReadBack /\ UNCHANGED owner
  BY <1>14 DEF Image!MetadataReadBack, Image!Passes, Image!Goto
<1>15. CASE Image!ZeroExtents /\ UNCHANGED owner
  BY <1>15 DEF Image!ZeroExtents, Image!Passes, Image!Goto
<1>16. CASE Image!Inspect
  BY <1>16 DEF Image!Inspect, Image!Makes, Image!Ends, Image!Goto, Image!Reports
<1>17. CASE Image!HashImage
  BY <1>17 DEF Image!HashImage, Image!Keeps, Image!Goto
<1>18. CASE Image!ConstructionFails
  BY <1>18 DEF Image!ConstructionFails, Image!Construction
<1>19. CASE Image!BeginPatch
  BY <1>19 DEF Image!BeginPatch, Image!Passes, Image!Goto
<1>20. CASE Image!WindowsPreimage
  BY <1>20 DEF Image!WindowsPreimage, Image!Is, Image!StillBuilt, Image!Building, Image!Passes,
      Image!Goto
<1>21. CASE Image!WindowsRecords
  BY <1>21 DEF Image!WindowsRecords, Image!Is, Image!PatchRecords, Image!Building, Image!Makes,
      Image!Goto
<1>22. CASE Image!WindowsMbr
  BY <1>22 DEF Image!WindowsMbr, Image!Is, Image!PatchMbr, Image!Building, Image!Makes, Image!Goto
<1>23. CASE Image!WindowsAttested
  BY <1>23 DEF Image!WindowsAttested, Image!Is, Image!Inspected, Image!Building, Image!Makes,
      Image!Goto
<1>24. CASE Image!SyslinuxPreimage
  BY <1>24 DEF Image!SyslinuxPreimage, Image!Is, Image!StillBuilt, Image!Building, Image!Passes,
      Image!Goto
<1>25. CASE Image!SyslinuxRebuilt
  BY <1>25 DEF Image!SyslinuxRebuilt, Image!StillBuilt, Image!Building, Image!Passes, Image!Goto
<1>26. CASE Image!SyslinuxRecords
  BY <1>26 DEF Image!SyslinuxRecords, Image!Is, Image!PatchRecords, Image!Building, Image!Makes,
      Image!Goto
<1>27. CASE Image!SyslinuxMbr
  BY <1>27 DEF Image!SyslinuxMbr, Image!Is, Image!PatchMbr, Image!Building, Image!Makes,
      Image!Goto
<1>28. CASE Image!SyslinuxVerified
  BY <1>28 DEF Image!SyslinuxVerified, Image!Is, Image!Building, Image!Passes, Image!Goto
<1>29. CASE Image!SyslinuxAttested
  BY <1>29 DEF Image!SyslinuxAttested, Image!Inspected, Image!Building, Image!Makes, Image!Goto
<1>30. CASE Image!GrubPreimage
  BY <1>30 DEF Image!GrubPreimage, Image!Is, Image!StillBuilt, Image!Building, Image!Passes,
      Image!Goto
<1>31. CASE Image!GrubCore
  BY <1>31 DEF Image!GrubCore, Image!Is, Image!PatchRecords, Image!Building, Image!Makes,
      Image!Goto
<1>32. CASE Image!GrubMbr
  BY <1>32 DEF Image!GrubMbr, Image!Is, Image!PatchMbr, Image!Building, Image!Makes, Image!Goto
<1>33. CASE Image!GrubAttested
  BY <1>33 DEF Image!GrubAttested, Image!Is, Image!Inspected, Image!Building, Image!Makes,
      Image!Goto
<1>34. CASE Image!FinalHash
  BY <1>34 DEF Image!FinalHash, Image!DigestIsExpected, Image!Passes, Image!Is, Image!Goto
<1>35. CASE Image!PatchFails
  BY <1>35 DEF Image!PatchFails, Image!Patching, Image!Poisons, Image!Closes
<1>36. CASE Image!DuplicateLocks
  BY <1>36 DEF Image!DuplicateLocks, Image!Passes, Image!Goto
<1>37. CASE Image!NotAttested
  BY <1>37 DEF Image!NotAttested, Image!Ends, Image!Reports, Image!Goto
<1>38. CASE Image!Duplicate
  <2>1. pc = "duplicate" /\ pc' = "rehash" /\ UNCHANGED owner /\ owner.state = "patched"
    BY <1>38 DEF Image!Duplicate, Image!Building, Image!Keeps, Image!Goto
  <2>2. private = {"image"}
    BY <2>1
  <2>3. private' = {"image", "duplicate"}
    BY <1>38, <2>2 DEF Image!Duplicate, Image!Building, Image!Keeps, Image!Goto
  <2> QED
    BY <2>1, <2>3
<1>39. CASE Image!Rehash
  BY <1>39 DEF Image!Rehash, Image!StillAttested, Image!Passes, Image!Goto
<1>40. CASE Image!RehashChanged
  BY <1>40 DEF Image!RehashChanged, Image!StillAttested, Image!Discard, Image!Goto, Image!Poisons,
      Image!Closes
<1>41. CASE Image!RehashInterrupted
  BY <1>41 DEF Image!RehashInterrupted
<1>42. CASE Image!Reopen
  BY <1>42 DEF Image!Reopen, Image!Building, Image!Keeps, Image!Goto
<1>43. CASE Image!RehashAgain
  BY <1>43 DEF Image!RehashAgain, Image!Goto
<1>44. CASE Image!RehashAgainChanged
  BY <1>44 DEF Image!RehashAgainChanged, Image!Discard, Image!Goto, Image!Poisons, Image!Closes
<1>45. CASE Image!SendPacket
  BY <1>45 DEF Image!SendPacket, Image!Building, Image!GivesName, Image!Goto
<1>46. CASE Image!SendFails
  BY <1>46 DEF Image!SendFails, Image!Building, Image!Ends, Image!Reports, Image!Goto
<1>47. CASE Image!CloseDuplicate
  BY <1>47 DEF Image!CloseDuplicate, Image!Building, Image!Keeps, Image!Goto
<1>48. CASE Image!CloseOwned
  BY <1>48 DEF Image!CloseOwned, Image!Goto, Image!Closes
<1>49. CASE Image!CloseCalled
  BY <1>49 DEF Image!CloseCalled, Image!Closing
<1>50. CASE Image!CloseLocks
  BY <1>50 DEF Image!CloseLocks, Image!Closing
<1>51. CASE Image!CloseDescriptor
  <2>1. /\ owner.closer = "close" /\ owner.state \notin {"none", "unpatched", "patching"}
        /\ pc \notin {"built"} \cup Planned \cup Constructed \cup Patched \cup Attested
        /\ UNCHANGED pc /\ private' = private \ {"image"}
    BY <1>51 DEF Image!CloseDescriptor, Image!Closing
  <2>2. owner' \in ImageOwners
    <3>1. (owner.misclosed \/ (owner.holds /\ "image" \notin private)) = FALSE
      OBVIOUS
    <3>2. PICK misclosed \in {FALSE} : misclosed = (owner.misclosed \/ (owner.holds /\ "image" \notin private))
      BY <3>1
    <3>3. owner' = [owner EXCEPT !.holds = FALSE, !.misclosed = misclosed, !.state = "closed", !.lock = "free",
                                 !.closer = "done"]
      BY <1>51, <3>2 DEF Image!CloseDescriptor, Image!Closing, Image!Closes
    <3> QED
      BY <3>3
  <2>3. owner'.state = "closed" /\ owner'.lock = "free" /\ owner'.closer = "done" /\ ~owner'.holds
    BY <1>51 DEF Image!CloseDescriptor, Image!Closing, Image!Closes
  <2> QED
    BY <2>1, <2>2, <2>3
<1>52. CASE Image!CancelSets /\ UNCHANGED owner
  <2>1. UNCHANGED <<pc, private, owner>>
    BY <1>52 DEF Image!CancelSets
  <2> QED
    BY <2>1, ImageOwnerStays
<1>53. CASE Image!CancelReads /\ UNCHANGED owner
  <2>1. UNCHANGED <<pc, private, owner>>
    BY <1>53 DEF Image!CancelReads
  <2> QED
    BY <2>1, ImageOwnerStays
<1>54. CASE Image!CancelStops /\ UNCHANGED owner
  <2>1. UNCHANGED <<pc, private, owner>>
    BY <1>54 DEF Image!CancelStops
  <2> QED
    BY <2>1, ImageOwnerStays
<1>55. CASE Image!InputChanges /\ UNCHANGED owner
  <2>1. UNCHANGED <<pc, private, owner>>
    BY <1>55 DEF Image!InputChanges
  <2> QED
    BY <2>1, ImageOwnerStays
<1>56. CASE Image!SomebodyWrites /\ UNCHANGED owner
  BY <1>56 DEF Image!SomebodyWrites, Image!FileChanges, Image!Patching
<1> QED
  BY <1>1, <1>2, <1>3, <1>4, <1>5, <1>6, <1>7, <1>8, <1>9, <1>10, <1>11, <1>12, <1>13, <1>14,
     <1>15, <1>16, <1>17, <1>18, <1>19, <1>20, <1>21, <1>22, <1>23, <1>24, <1>25, <1>26, <1>27,
     <1>28, <1>29, <1>30, <1>31, <1>32, <1>33, <1>34, <1>35, <1>36, <1>37, <1>38, <1>39, <1>40,
     <1>41, <1>42, <1>43, <1>44, <1>45, <1>46, <1>47, <1>48, <1>49, <1>50, <1>51, <1>52, <1>53,
     <1>54, <1>55, <1>56
     DEF Image!Next, Image!BuilderWorks, Image!Patches, Image!Works, Image!CloseGoesOn,
         Image!Cancels, Image!Environment, Image!Building

\* A private image: who writes to it breaks its binding, which the rehash looks at.
LEMMA ImageStep ==
  ASSUME Typed, Delivered, Spoken, ImageInv, Image!Next, ImageOwner'
  PROVE  Typed' /\ Delivered' /\ Spoken' /\ ImageInv' /\ Allowed
<1> USE SizeAssumption DEF Delivered, Spoken, Allowed, Typed, Blocks, Said, Processes, Complete,
      Finished, Plain, Untold, Nothing, Empty, ImageInv, Planned, Constructed, Patched, Attested
<1>1. CASE Image!PlanRefused /\ UNCHANGED owner
  BY <1>1 DEF Image!PlanRefused, Image!Interrupted, Image!Ends, Image!Reports, Image!Goto
<1>2. CASE Image!BindTree /\ UNCHANGED owner
  BY <1>2 DEF Image!BindTree, Image!Unchanged, Image!Passes, Image!Goto
<1>3. CASE Image!HashTree /\ UNCHANGED owner
  BY <1>3 DEF Image!HashTree, Image!Passes, Image!Goto
<1>4. CASE Image!RescanTree /\ UNCHANGED owner
  BY <1>4 DEF Image!RescanTree, Image!Unchanged, Image!Passes, Image!Goto
<1>5. CASE Image!BindPlan /\ UNCHANGED owner
  BY <1>5 DEF Image!BindPlan, Image!Unchanged, Image!Passes, Image!Goto
<1>6. CASE Image!RevalidatePlan /\ UNCHANGED owner
  BY <1>6 DEF Image!RevalidatePlan, Image!Unchanged, Image!Passes, Image!Goto
<1>7. CASE Image!CreateImage /\ UNCHANGED owner
  BY <1>7 DEF Image!CreateImage, Image!Keeps, Image!Goto
<1>8. CASE Image!WriteMetadata /\ UNCHANGED owner
  BY <1>8 DEF Image!WriteMetadata, Image!Passes, Image!Goto
<1>9. CASE Image!CopyFile /\ UNCHANGED owner
  <2> USE <1>9 DEF Image!CopyFile, Image!Makes, Image!Goto
  <2>1. Typed'
    OBVIOUS
  <2>2. Delivered' /\ Spoken' /\ Allowed
    OBVIOUS
  <2>3. ImageInv'
    OBVIOUS
  <2> QED
    BY <2>1, <2>2, <2>3
<1>10. CASE Image!DigestAgrees /\ UNCHANGED owner
  BY <1>10 DEF Image!DigestAgrees, Image!Makes, Image!Goto
<1>11. CASE Image!CopyEnds /\ UNCHANGED owner
  BY <1>11 DEF Image!CopyEnds, Image!Passes, Image!Goto
<1>12. CASE Image!TreeUnchanged /\ UNCHANGED owner
  BY <1>12 DEF Image!TreeUnchanged, Image!Passes, Image!Goto
<1>13. CASE Image!SyncImage /\ UNCHANGED owner
  <2> USE <1>13 DEF Image!SyncImage, Image!Makes, Image!Goto
  <2>1. Typed'
    OBVIOUS
  <2>2. Delivered' /\ Spoken' /\ Allowed
    OBVIOUS
  <2>3. ImageInv'
    OBVIOUS
  <2> QED
    BY <2>1, <2>2, <2>3
<1>14. CASE Image!MetadataReadBack /\ UNCHANGED owner
  BY <1>14 DEF Image!MetadataReadBack, Image!Passes, Image!Goto
<1>15. CASE Image!ZeroExtents /\ UNCHANGED owner
  BY <1>15 DEF Image!ZeroExtents, Image!Passes, Image!Goto
<1>16. CASE Image!Inspect
  <2> USE <1>16 DEF Image!Inspect, Image!Makes, Image!Ends, Image!Goto, Image!Reports
  <2>1. Typed'
    OBVIOUS
  <2>2. Delivered' /\ Spoken' /\ Allowed
    OBVIOUS
  <2>3. ImageInv'
    OBVIOUS
  <2> QED
    BY <2>1, <2>2, <2>3
<1>17. CASE Image!HashImage
  BY <1>17 DEF Image!HashImage, Image!Keeps, Image!Goto
<1>18. CASE Image!ConstructionFails
  BY <1>18 DEF Image!ConstructionFails, Image!Construction
<1>19. CASE Image!BeginPatch
  BY <1>19 DEF Image!BeginPatch, Image!Passes, Image!Goto
<1>20. CASE Image!WindowsPreimage
  BY <1>20 DEF Image!WindowsPreimage, Image!Is, Image!StillBuilt, Image!Building, Image!Passes,
      Image!Goto
<1>21. CASE Image!WindowsRecords
  BY <1>21 DEF Image!WindowsRecords, Image!Is, Image!PatchRecords, Image!Building, Image!Makes,
      Image!Goto
<1>22. CASE Image!WindowsMbr
  <2> USE <1>22 DEF Image!WindowsMbr, Image!Is, Image!PatchMbr, Image!Building, Image!Makes,
        Image!Goto
  <2>1. Size \in 0..Size
    BY Bounds
  <2>2. image' \in Blocks
    BY <2>1
  <2>3. Typed'
    BY <2>1, <2>2
  <2>4. Delivered' /\ Spoken' /\ Allowed
    BY <2>1, <2>2
  <2>5. ImageInv'
    BY <2>1, <2>2
  <2> QED
    BY <2>3, <2>4, <2>5
<1>23. CASE Image!WindowsAttested
  BY <1>23 DEF Image!WindowsAttested, Image!Is, Image!Inspected, Image!Building, Image!Makes,
      Image!Goto
<1>24. CASE Image!SyslinuxPreimage
  BY <1>24 DEF Image!SyslinuxPreimage, Image!Is, Image!StillBuilt, Image!Building, Image!Passes,
      Image!Goto
<1>25. CASE Image!SyslinuxRebuilt
  BY <1>25 DEF Image!SyslinuxRebuilt, Image!StillBuilt, Image!Building, Image!Passes, Image!Goto
<1>26. CASE Image!SyslinuxRecords
  BY <1>26 DEF Image!SyslinuxRecords, Image!Is, Image!PatchRecords, Image!Building, Image!Makes,
      Image!Goto
<1>27. CASE Image!SyslinuxMbr
  <2> USE <1>27 DEF Image!SyslinuxMbr, Image!Is, Image!PatchMbr, Image!Building, Image!Makes,
        Image!Goto
  <2>1. Size \in 0..Size
    BY Bounds
  <2>2. image' \in Blocks
    BY <2>1
  <2>3. Typed'
    BY <2>1, <2>2
  <2>4. Delivered' /\ Spoken' /\ Allowed
    BY <2>1, <2>2
  <2>5. ImageInv'
    BY <2>1, <2>2
  <2> QED
    BY <2>3, <2>4, <2>5
<1>28. CASE Image!SyslinuxVerified
  BY <1>28 DEF Image!SyslinuxVerified, Image!Is, Image!Building, Image!Passes, Image!Goto
<1>29. CASE Image!SyslinuxAttested
  BY <1>29 DEF Image!SyslinuxAttested, Image!Inspected, Image!Building, Image!Makes, Image!Goto
<1>30. CASE Image!GrubPreimage
  BY <1>30 DEF Image!GrubPreimage, Image!Is, Image!StillBuilt, Image!Building, Image!Passes,
      Image!Goto
<1>31. CASE Image!GrubCore
  BY <1>31 DEF Image!GrubCore, Image!Is, Image!PatchRecords, Image!Building, Image!Makes,
      Image!Goto
<1>32. CASE Image!GrubMbr
  <2> USE <1>32 DEF Image!GrubMbr, Image!Is, Image!PatchMbr, Image!Building, Image!Makes,
        Image!Goto
  <2>1. Size \in 0..Size
    BY Bounds
  <2>2. image' \in Blocks
    BY <2>1
  <2>3. Typed'
    BY <2>1, <2>2
  <2>4. Delivered' /\ Spoken' /\ Allowed
    BY <2>1, <2>2
  <2>5. ImageInv'
    BY <2>1, <2>2
  <2> QED
    BY <2>3, <2>4, <2>5
<1>33. CASE Image!GrubAttested
  BY <1>33 DEF Image!GrubAttested, Image!Is, Image!Inspected, Image!Building, Image!Makes,
      Image!Goto
<1>34. CASE Image!FinalHash
  BY <1>34 DEF Image!FinalHash, Image!DigestIsExpected, Image!Passes, Image!Is, Image!Goto
<1>35. CASE Image!PatchFails
  BY <1>35 DEF Image!PatchFails, Image!Patching, Image!Poisons, Image!Closes
<1>36. CASE Image!DuplicateLocks
  BY <1>36 DEF Image!DuplicateLocks, Image!Passes, Image!Goto
<1>37. CASE Image!NotAttested
  BY <1>37 DEF Image!NotAttested, Image!Ends, Image!Reports, Image!Goto
<1>38. CASE Image!Duplicate
  BY <1>38 DEF Image!Duplicate, Image!Building, Image!Keeps, Image!Goto
<1>39. CASE Image!Rehash
  BY <1>39 DEF Image!Rehash, Image!StillAttested, Image!Passes, Image!Goto
<1>40. CASE Image!RehashChanged
  BY <1>40 DEF Image!RehashChanged, Image!StillAttested, Image!Discard, Image!Goto, Image!Poisons,
      Image!Closes
<1>41. CASE Image!RehashInterrupted
  BY <1>41 DEF Image!RehashInterrupted
<1>42. CASE Image!Reopen
  BY <1>42 DEF Image!Reopen, Image!Building, Image!Keeps, Image!Goto
<1>43. CASE Image!RehashAgain
  <2> USE <1>43 DEF Image!RehashAgain, Image!Goto
  <2>1. Complete
    BY DEF ImageOwner
  <2>2. owner.attested /\ owner'.attested = owner.attested
    BY DEF ImageOwner, ImageOwners
  <2>3. Typed'
    BY <2>1, <2>2
  <2>4. Delivered' /\ Spoken' /\ Allowed
    BY <2>1, <2>2
  <2>5. ImageInv'
    BY <2>1, <2>2
  <2> QED
    BY <2>3, <2>4, <2>5
<1>44. CASE Image!RehashAgainChanged
  BY <1>44 DEF Image!RehashAgainChanged, Image!Discard, Image!Goto, Image!Poisons, Image!Closes
<1>45. CASE Image!SendPacket
  BY <1>45 DEF Image!SendPacket, Image!Building, Image!GivesName, Image!Goto
<1>46. CASE Image!SendFails
  BY <1>46 DEF Image!SendFails, Image!Building, Image!Ends, Image!Reports, Image!Goto
<1>47. CASE Image!CloseDuplicate
  BY <1>47 DEF Image!CloseDuplicate, Image!Building, Image!Keeps, Image!Goto
<1>48. CASE Image!CloseOwned
  BY <1>48 DEF Image!CloseOwned, Image!Goto, Image!Closes
<1>49. CASE Image!CloseCalled
  BY <1>49 DEF Image!CloseCalled, Image!Closing
<1>50. CASE Image!CloseLocks
  BY <1>50 DEF Image!CloseLocks, Image!Closing
<1>51. CASE Image!CloseDescriptor
  BY <1>51 DEF Image!CloseDescriptor, Image!Closing, Image!Closes
<1>52. CASE Image!CancelSets /\ UNCHANGED owner
  BY <1>52 DEF Image!CancelSets, Image!Finished
<1>53. CASE Image!CancelReads /\ UNCHANGED owner
  BY <1>53 DEF Image!CancelReads
<1>54. CASE Image!CancelStops /\ UNCHANGED owner
  BY <1>54 DEF Image!CancelStops, Image!Stopped
<1>55. CASE Image!InputChanges /\ UNCHANGED owner
  BY <1>55 DEF Image!InputChanges, Image!Finished
<1>56. CASE Image!SomebodyWrites /\ UNCHANGED owner
  <2> USE <1>56 DEF Image!SomebodyWrites, Image!FileChanges, Image!Patching
  <2>1. image' \in Blocks
    OBVIOUS
  <2>2. Typed'
    BY <2>1
  <2>3. Delivered' /\ Spoken' /\ Allowed
    BY <2>1
  <2>4. ImageInv'
    BY <2>1
  <2> QED
    BY <2>2, <2>3, <2>4
<1> QED
  BY <1>1, <1>2, <1>3, <1>4, <1>5, <1>6, <1>7, <1>8, <1>9, <1>10, <1>11, <1>12, <1>13, <1>14,
     <1>15, <1>16, <1>17, <1>18, <1>19, <1>20, <1>21, <1>22, <1>23, <1>24, <1>25, <1>26, <1>27,
     <1>28, <1>29, <1>30, <1>31, <1>32, <1>33, <1>34, <1>35, <1>36, <1>37, <1>38, <1>39, <1>40,
     <1>41, <1>42, <1>43, <1>44, <1>45, <1>46, <1>47, <1>48, <1>49, <1>50, <1>51, <1>52, <1>53,
     <1>54, <1>55, <1>56
     DEF Image!Next, Image!BuilderWorks, Image!Patches, Image!Works, Image!CloseGoesOn,
         Image!Cancels, Image!Environment, Image!Building

\* The entries of the cache, the response that is connected to and the entry that is removed.
LEMMA BundleOwnerStep ==
  ASSUME Typed, BundleInv, Cache!Next
  PROVE  BundleOwner'
<1> USE SizeAssumption DEF Typed, BundleInv, BundleOwner, Cache!Entries
<1>1. CASE Cache!LoadCatalog /\ UNCHANGED owner
  BY <1>1 DEF BundleOwners, Cache!LoadCatalog, Cache!Ends, Cache!Passes, Cache!Reports, Cache!Goto
<1>2. CASE Cache!FindBundle /\ UNCHANGED owner
  BY <1>2 DEF BundleOwners, Cache!FindBundle, Cache!Ends, Cache!Passes, Cache!Reports, Cache!Goto
<1>3. CASE Cache!NextArtifact /\ UNCHANGED owner
  BY <1>3 DEF BundleOwners, Cache!NextArtifact, Cache!Interrupted, Cache!Passes, Cache!Ends,
      Cache!Goto, Cache!Reports
<1>4. CASE Cache!OpenParent /\ UNCHANGED owner
  BY <1>4 DEF BundleOwners, Cache!OpenParent, Cache!Interrupted, Cache!Passes, Cache!Ends,
      Cache!Goto, Cache!Reports
<1>5. CASE Cache!VerifyCached /\ UNCHANGED owner
  BY <1>5 DEF BundleOwners, Cache!VerifyCached, Cache!Interrupted, Cache!Cached, Cache!Passes,
      Cache!Ends, Cache!Artifact, Cache!Goto, Cache!Reports
<1>6. CASE Cache!RevalidateCached /\ UNCHANGED owner
  BY <1>6 DEF BundleOwners, Cache!RevalidateCached, Cache!Interrupted, Cache!Passes, Cache!Ends,
      Cache!Goto, Cache!Reports
<1>7. CASE Cache!DiscardInvalid
  <2>1. owner' = owner \/ owner' = Cache!WithEntry(Cache!Artifact, "absent")
    BY <1>7 DEF Cache!DiscardInvalid
  <2> QED
    BY <2>1, ArtifactIsThere, WithEntryKeeps
<1>8. CASE Cache!StartConnecting
  <2>1. owner' = owner \/ owner' = [owner EXCEPT !.helper = "connecting"]
    BY <1>8 DEF Cache!StartConnecting
  <2>2. owner' \in BundleOwners /\ owner'.held = owner.held /\ owner'.remover = owner.remover
    BY <2>1, HelperChanges
  <2> QED
    BY <2>2
<1>9. CASE Cache!TakeResponse
  BY <1>9 DEF BundleOwners, Cache!TakeResponse, Cache!Passes, Cache!Ends, Cache!Goto,
      Cache!Reports
<1>10. CASE Cache!TakeError
  BY <1>10 DEF BundleOwners, Cache!TakeError, Cache!Ends, Cache!Reports, Cache!Goto
<1>11. CASE Cache!AbandonConnection
  BY <1>11 DEF BundleOwners, Cache!AbandonConnection, Cache!Interrupted, Cache!Ends,
      Cache!Reports, Cache!Goto
<1>12. CASE Cache!CheckFinalUrl /\ UNCHANGED owner
  BY <1>12 DEF BundleOwners, Cache!CheckFinalUrl, Cache!Interrupted, Cache!Passes, Cache!Ends,
      Cache!Goto, Cache!Reports
<1>13. CASE Cache!CreateTemporary
  <2>1. PICK new : new = [owner EXCEPT !.stream = TRUE, !.temp = "right"]
    OBVIOUS
  <2>2. new \in BundleOwners /\ new.held = owner.held /\ new.remover = owner.remover
    BY <2>1, StreamChanges
  <2>3. owner' = owner \/ owner' = new
    BY <1>13, <2>1 DEF Cache!CreateTemporary
  <2> QED
    BY <2>2, <2>3
<1>14. CASE Cache!ReceiveBlocks
  <2>1. PICK right \in BOOLEAN, temp \in {"right", "wrong"} :
          owner' = owner \/ owner' = [owner EXCEPT !.stream = right, !.temp = temp]
    BY <1>14 DEF Cache!ReceiveBlocks, BundleOwners
  <2>2. PICK new : new = [owner EXCEPT !.stream = right, !.temp = temp]
    OBVIOUS
  <2>3. new \in BundleOwners /\ new.held = owner.held /\ new.remover = owner.remover
    BY <2>2, StreamChanges
  <2>4. owner' = owner \/ owner' = new
    BY <2>1, <2>2
  <2> QED
    BY <2>3, <2>4
<1>15. CASE Cache!SyncTemporary /\ UNCHANGED owner
  BY <1>15 DEF BundleOwners, Cache!SyncTemporary, Cache!Interrupted, Cache!Passes, Cache!Ends,
      Cache!Goto, Cache!Reports
<1>16. CASE Cache!CheckDigest /\ UNCHANGED owner
  BY <1>16 DEF BundleOwners, Cache!CheckDigest, Cache!Keeps, Cache!Ends, Cache!Goto, Cache!Reports
<1>17. CASE Cache!ReplaceEntry
  <2>1. PICK new : new = Cache!WithEntry(Cache!Artifact, owner.temp)
    OBVIOUS
  <2>2. owner.temp \in Cache!Entries
    BY DEF BundleOwners
  <2>3. new \in BundleOwners /\ new.held = owner.held /\ new.remover = owner.remover
    BY <2>1, <2>2, ArtifactIsThere, WithEntryKeeps
  <2>4. PICK next : next = [new EXCEPT !.temp = "right"]
    OBVIOUS
  <2>5. next \in BundleOwners /\ next.held = owner.held /\ next.remover = owner.remover
    BY <2>3, <2>4, TempChanges
  <2>6. owner' = owner \/ owner' = next
    BY <1>17, <2>1, <2>4 DEF Cache!ReplaceEntry
  <2> QED
    BY <2>5, <2>6
<1>18. CASE Cache!Leave
  BY <1>18 DEF BundleOwners, Cache!Leave, Cache!Keeps, Cache!Goto
<1>19. CASE Cache!SyncPublished /\ UNCHANGED owner
  BY <1>19 DEF BundleOwners, Cache!SyncPublished, Cache!Interrupted, Cache!Passes, Cache!Ends,
      Cache!Goto, Cache!Reports
<1>20. CASE Cache!BindBytes /\ UNCHANGED owner
  BY <1>20 DEF BundleOwners, Cache!BindBytes, Cache!Interrupted, Cache!Cached, Cache!Makes,
      Cache!Artifact, Cache!Ends, Cache!Goto, Cache!Reports
<1>21. CASE Cache!ReturnBundle /\ UNCHANGED owner
  BY <1>21 DEF BundleOwners, Cache!ReturnBundle, Cache!GivesName, Cache!Goto
<1>22. CASE Cache!CallerHasBundle /\ UNCHANGED owner
  BY <1>22 DEF BundleOwners, Cache!CallerHasBundle, Cache!Ends, Cache!Reports, Cache!Goto
<1>23. CASE Cache!ConnectorOpens
  <2>1. PICK helper \in {"offered", "failed", "none"} : owner' = [owner EXCEPT !.helper = helper]
    BY <1>23 DEF Cache!ConnectorOpens
  <2>2. owner' \in BundleOwners /\ owner'.held = owner.held /\ owner'.remover = owner.remover
    BY <2>1, HelperChanges
  <2> QED
    BY <2>2
<1>24. CASE Cache!ConnectorSeesAbandoned
  BY <1>24 DEF BundleOwners, Cache!ConnectorSeesAbandoned, Cache!Keeps, Cache!Goto
<1>25. CASE Cache!Inventory
  BY <1>25 DEF BundleOwners, Cache!Inventory, Cache!Regular, Cache!Removes, Cache!publisherVars
<1>26. CASE Cache!RemovalSkipped
  BY <1>26 DEF BundleOwners, Cache!RemovalSkipped, Cache!Removes, Cache!publisherVars
<1>27. CASE Cache!OpenEntry
  BY <1>27 DEF BundleOwners, Cache!OpenEntry, Cache!Regular, Cache!Removes, Cache!publisherVars
<1>28. CASE Cache!Isolate
  <2>1. PICK cache \in [1..Size -> Cache!Entries] : cache = [owner.cache EXCEPT ![1] = "absent"]
    BY DEF BundleOwners
  <2>2. PICK held \in Cache!Entries : held = owner.cache[1]
    BY DEF BundleOwners
  <2>3. \/ owner' = [owner EXCEPT !.remover = "skipped"] /\ owner.held = "absent"
        \/ owner' = [owner EXCEPT !.held = held, !.cache = cache, !.remover = "isolated"]
    BY <1>28, <2>1, <2>2 DEF Cache!Isolate, Cache!Removes
  <2>4. owner' \in BundleOwners
    <3>1. CASE owner' = [owner EXCEPT !.remover = "skipped"]
      BY <3>1 DEF BundleOwners
    <3>2. CASE owner' = [owner EXCEPT !.held = held, !.cache = cache, !.remover = "isolated"]
      BY <3>2 DEF BundleOwners
    <3> QED
      BY <2>3, <3>1, <3>2
  <2>5. owner'.held = "absent" \/ owner'.remover = "isolated"
    BY <2>3 DEF BundleOwners
  <2> QED
    BY <2>4, <2>5
<1>29. CASE Cache!DestroyIsolated
  BY <1>29 DEF BundleOwners, Cache!DestroyIsolated, Cache!Regular, Cache!Removes,
      Cache!publisherVars
<1>30. CASE Cache!RestoreIsolated
  <2>1. PICK cache \in [1..Size -> Cache!Entries] : cache = [owner.cache EXCEPT ![1] = owner.held]
    BY DEF BundleOwners
  <2>2. \/ owner' = [owner EXCEPT !.cache = cache, !.held = "absent", !.remover = "skipped"]
        \/ owner' = [owner EXCEPT !.remover = "retained"]
    BY <1>30, <2>1 DEF Cache!RestoreIsolated, Cache!Removes
  <2>3. CASE owner' = [owner EXCEPT !.cache = cache, !.held = "absent", !.remover = "skipped"]
    <3>1. owner' \in BundleOwners
      BY <2>3 DEF BundleOwners
    <3>2. owner'.held = "absent"
      BY <2>3 DEF BundleOwners
    <3> QED
      BY <3>1, <3>2
  <2>4. CASE owner' = [owner EXCEPT !.remover = "retained"]
    BY <2>4 DEF BundleOwners
  <2> QED
    BY <2>2, <2>3, <2>4
<1>31. CASE Cache!CancelBundle /\ UNCHANGED owner
  BY <1>31 DEF BundleOwners, Cache!CancelBundle, Cache!Finished
<1>32. CASE Cache!CacheChanges
  <2>1. PICK what \in Cache!Entries : owner' = Cache!WithEntry(1, what)
    BY <1>32 DEF Cache!CacheChanges
  <2>2. 1 \in 1..Size
    OBVIOUS
  <2> QED
    BY <2>1, <2>2, WithEntryKeeps
<1>33. CASE Cache!TemporaryChanges
  BY <1>33 DEF BundleOwners, Cache!TemporaryChanges, Cache!publisherVars
<1>34. CASE Cache!FetchKilled
  BY <1>34 DEF BundleOwners, Cache!FetchKilled, Cache!Finished, Cache!Empty
<1>35. CASE Cache!BundleAgain
  BY <1>35 DEF BundleOwners, Cache!BundleAgain, Cache!Finished, Cache!Nothing, Cache!Empty
<1> QED
  BY <1>1, <1>2, <1>3, <1>4, <1>5, <1>6, <1>7, <1>8, <1>9, <1>10, <1>11, <1>12, <1>13, <1>14,
     <1>15, <1>16, <1>17, <1>18, <1>19, <1>20, <1>21, <1>22, <1>23, <1>24, <1>25, <1>26, <1>27,
     <1>28, <1>29, <1>30, <1>31, <1>32, <1>33, <1>34, <1>35
     DEF Cache!Next, Cache!Fetch, Cache!Works, Cache!Remover, Cache!Fetching

\* A bundle of boot code: each artifact is verified whichever way it came.
LEMMA BundleStep ==
  ASSUME Typed, Delivered, Spoken, BundleInv, Cache!Next, BundleOwner'
  PROVE  Typed' /\ Delivered' /\ Spoken' /\ BundleInv' /\ Allowed
<1> USE SizeAssumption DEF Delivered, Spoken, Allowed, Typed, Blocks, Said, Processes, Complete,
      Finished, Plain, Untold, Nothing, Empty, BundleInv, Closed
<1>1. CASE Cache!LoadCatalog /\ UNCHANGED owner
  BY <1>1 DEF Cache!LoadCatalog, Cache!Ends, Cache!Passes, Cache!Reports, Cache!Goto
<1>2. CASE Cache!FindBundle /\ UNCHANGED owner
  BY <1>2 DEF Cache!FindBundle, Cache!Ends, Cache!Passes, Cache!Reports, Cache!Goto
<1>3. CASE Cache!NextArtifact /\ UNCHANGED owner
  BY <1>3 DEF Cache!NextArtifact, Cache!Interrupted, Cache!Passes, Cache!Ends, Cache!Goto,
      Cache!Reports
<1>4. CASE Cache!OpenParent /\ UNCHANGED owner
  BY <1>4 DEF Cache!OpenParent, Cache!Interrupted, Cache!Passes, Cache!Ends, Cache!Goto,
      Cache!Reports
<1>5. CASE Cache!VerifyCached /\ UNCHANGED owner
  BY <1>5 DEF Cache!VerifyCached, Cache!Interrupted, Cache!Cached, Cache!Passes, Cache!Ends,
      Cache!Artifact, Cache!Goto, Cache!Reports
<1>6. CASE Cache!RevalidateCached /\ UNCHANGED owner
  BY <1>6 DEF Cache!RevalidateCached, Cache!Interrupted, Cache!Passes, Cache!Ends, Cache!Goto,
      Cache!Reports
<1>7. CASE Cache!DiscardInvalid
  <2>1. owner' = owner \/ owner' = Cache!WithEntry(Cache!Artifact, "absent")
    BY <1>7 DEF Cache!DiscardInvalid
  <2>2. owner'.helper = owner.helper
    BY <2>1, ArtifactIsThere, WithEntryKeeps DEF Cache!Entries
  <2> USE <1>7 DEF Cache!DiscardInvalid, Cache!Passes, Cache!Ends, Cache!Interrupted, Cache!Goto,
        Cache!Reports
  <2>3. Typed'
    OBVIOUS
  <2>4. Delivered' /\ Spoken' /\ Allowed
    OBVIOUS
  <2>5. BundleInv'
    BY <2>2
  <2> QED
    BY <2>3, <2>4, <2>5
<1>8. CASE Cache!StartConnecting
  <2> USE <1>8 DEF Cache!StartConnecting, Cache!Interrupted, Cache!Passes, Cache!Ends, Cache!Goto,
        Cache!Reports
  <2>1. pc' = "leave" => owner'.helper = owner.helper
    BY DEF BundleOwner, BundleOwners
  <2>2. pc' = "connect" => owner'.helper = "connecting"
    BY DEF BundleOwner, BundleOwners
  <2>3. Typed'
    BY <2>1, <2>2
  <2>4. Delivered' /\ Spoken' /\ Allowed
    BY <2>1, <2>2
  <2>5. BundleInv'
    BY <2>1, <2>2
  <2> QED
    BY <2>3, <2>4, <2>5
<1>9. CASE Cache!TakeResponse
  BY <1>9 DEF Cache!TakeResponse, Cache!Passes, Cache!Ends, Cache!Goto, Cache!Reports
<1>10. CASE Cache!TakeError
  BY <1>10 DEF Cache!TakeError, Cache!Ends, Cache!Reports, Cache!Goto
<1>11. CASE Cache!AbandonConnection
  BY <1>11 DEF Cache!AbandonConnection, Cache!Interrupted, Cache!Ends, Cache!Reports, Cache!Goto
<1>12. CASE Cache!CheckFinalUrl /\ UNCHANGED owner
  BY <1>12 DEF Cache!CheckFinalUrl, Cache!Interrupted, Cache!Passes, Cache!Ends, Cache!Goto,
      Cache!Reports
<1>13. CASE Cache!CreateTemporary
  <2> USE <1>13 DEF Cache!CreateTemporary, Cache!Ends, Cache!Keeps, Cache!Reports, Cache!Goto
  <2>1. owner'.helper = owner.helper
    BY DEF BundleOwner, BundleOwners
  <2>2. Typed'
    BY <2>1
  <2>3. Delivered' /\ Spoken' /\ Allowed
    BY <2>1
  <2>4. BundleInv'
    BY <2>1
  <2> QED
    BY <2>2, <2>3, <2>4
<1>14. CASE Cache!ReceiveBlocks
  <2> USE <1>14 DEF Cache!ReceiveBlocks, Cache!Interrupted, Cache!Passes, Cache!Ends, Cache!Goto,
        Cache!Reports
  <2>1. owner'.helper = owner.helper
    BY DEF BundleOwner, BundleOwners
  <2>2. Typed'
    BY <2>1
  <2>3. Delivered' /\ Spoken' /\ Allowed
    BY <2>1
  <2>4. BundleInv'
    BY <2>1
  <2> QED
    BY <2>2, <2>3, <2>4
<1>15. CASE Cache!SyncTemporary /\ UNCHANGED owner
  BY <1>15 DEF Cache!SyncTemporary, Cache!Interrupted, Cache!Passes, Cache!Ends, Cache!Goto,
      Cache!Reports
<1>16. CASE Cache!CheckDigest /\ UNCHANGED owner
  BY <1>16 DEF Cache!CheckDigest, Cache!Keeps, Cache!Ends, Cache!Goto, Cache!Reports
<1>17. CASE Cache!ReplaceEntry
  <2>1. owner' = owner \/ owner' = [Cache!WithEntry(Cache!Artifact, owner.temp) EXCEPT !.temp = "right"]
    BY <1>17 DEF Cache!ReplaceEntry
  <2>2. owner'.helper = owner.helper
    <3>1. PICK new : new = Cache!WithEntry(Cache!Artifact, owner.temp)
      OBVIOUS
    <3>2. owner.temp \in Cache!Entries
      BY DEF BundleOwner, BundleOwners, Cache!Entries
    <3>3. new \in BundleOwners /\ new.helper = owner.helper
      BY <3>1, <3>2, ArtifactIsThere, WithEntryKeeps
    <3>4. owner' = owner \/ owner' = [new EXCEPT !.temp = "right"]
      BY <2>1, <3>1
    <3> QED
      BY <3>3, <3>4 DEF BundleOwners
  <2> USE <1>17 DEF Cache!ReplaceEntry, Cache!Interrupted, Cache!Ends, Cache!Keeps, Cache!Reports,
        Cache!Goto
  <2>3. Typed'
    OBVIOUS
  <2>4. Delivered' /\ Spoken' /\ Allowed
    OBVIOUS
  <2>5. BundleInv'
    BY <2>2
  <2> QED
    BY <2>3, <2>4, <2>5
<1>18. CASE Cache!Leave
  BY <1>18 DEF Cache!Leave, Cache!Keeps, Cache!Goto
<1>19. CASE Cache!SyncPublished /\ UNCHANGED owner
  BY <1>19 DEF Cache!SyncPublished, Cache!Interrupted, Cache!Passes, Cache!Ends, Cache!Goto,
      Cache!Reports
<1>20. CASE Cache!BindBytes /\ UNCHANGED owner
  <2> USE <1>20 DEF Cache!BindBytes, Cache!Interrupted, Cache!Cached, Cache!Makes, Cache!Artifact,
        Cache!Ends, Cache!Goto, Cache!Reports
  <2>1. image.done + 1 \in 0..Size
    BY OneMore
  <2>2. (image.right /\ Cache!Cached = "right") \in BOOLEAN
    OBVIOUS
  <2>3. image' \in Blocks
    BY <2>1, <2>2
  <2>4. owner' = owner /\ image'.right
    OBVIOUS
  <2>5. pc' \in {"done", "bundle", "next"}
    OBVIOUS
  <2>6. pc' # "done" => UNCHANGED told
    OBVIOUS
  <2>7. pc' = "bundle" => Cache!Artifact = Size /\ image'.done = image.done + 1
    OBVIOUS
  <2>8. pc' = "bundle" => image'.done = Size
    BY <2>1, <2>2, <2>3, <2>4, <2>5, <2>6, <2>7 DEF Cache!Artifact
  <2>9. Typed'
    BY <2>1, <2>2, <2>3, <2>4, <2>5, <2>6, <2>7, <2>8
  <2>10. Delivered' /\ Spoken' /\ Allowed
    BY <2>1, <2>2, <2>3, <2>4, <2>5, <2>6, <2>7, <2>8
  <2>11. BundleInv'
    BY <2>1, <2>2, <2>3, <2>4, <2>5, <2>6, <2>7, <2>8
  <2> QED
    BY <2>9, <2>10, <2>11
<1>21. CASE Cache!ReturnBundle /\ UNCHANGED owner
  BY <1>21 DEF Cache!ReturnBundle, Cache!GivesName, Cache!Goto
<1>22. CASE Cache!CallerHasBundle /\ UNCHANGED owner
  BY <1>22 DEF Cache!CallerHasBundle, Cache!Ends, Cache!Reports, Cache!Goto
<1>23. CASE Cache!ConnectorOpens
  <2> USE <1>23 DEF Cache!ConnectorOpens, Cache!Keeps, Cache!Goto, Cache!publisherVars
  <2>1. pc = "connect" =>
          \/ owner'.helper = "failed" /\ UNCHANGED private
          \/ owner'.helper = "offered" /\ private' = private \cup {"response"}
    BY DEF BundleOwner, BundleOwners
  <2>2. pc # "connect" => owner'.helper = "none" /\ UNCHANGED private
    BY DEF BundleOwner, BundleOwners
  <2>3. Typed'
    BY <2>1, <2>2
  <2>4. Delivered' /\ Spoken' /\ Allowed
    BY <2>1, <2>2
  <2>5. BundleInv'
    BY <2>1, <2>2
  <2> QED
    BY <2>3, <2>4, <2>5
<1>24. CASE Cache!ConnectorSeesAbandoned
  BY <1>24 DEF Cache!ConnectorSeesAbandoned, Cache!Keeps, Cache!Goto
<1>25. CASE Cache!Inventory
  BY <1>25 DEF Cache!Inventory, Cache!Regular, Cache!Removes, Cache!publisherVars
<1>26. CASE Cache!RemovalSkipped
  BY <1>26 DEF Cache!RemovalSkipped, Cache!Removes, Cache!publisherVars
<1>27. CASE Cache!OpenEntry
  BY <1>27 DEF Cache!OpenEntry, Cache!Regular, Cache!Removes, Cache!publisherVars
<1>28. CASE Cache!Isolate
  <2> USE <1>28 DEF Cache!Isolate, Cache!Removes, Cache!publisherVars
  <2>1. owner'.helper = owner.helper
    BY DEF BundleOwner, BundleOwners
  <2>2. Typed'
    BY <2>1
  <2>3. Delivered' /\ Spoken' /\ Allowed
    BY <2>1
  <2>4. BundleInv'
    BY <2>1
  <2> QED
    BY <2>2, <2>3, <2>4
<1>29. CASE Cache!DestroyIsolated
  BY <1>29 DEF Cache!DestroyIsolated, Cache!Regular, Cache!Removes, Cache!publisherVars
<1>30. CASE Cache!RestoreIsolated
  <2> USE <1>30 DEF Cache!RestoreIsolated, Cache!Removes, Cache!publisherVars
  <2>1. owner'.helper = owner.helper
    <3>1. PICK cache \in [1..Size -> Cache!Entries] : cache = [owner.cache EXCEPT ![1] = owner.held]
      BY DEF BundleOwner, BundleOwners
    <3>2. \/ owner' = [owner EXCEPT !.cache = cache, !.held = "absent", !.remover = "skipped"]
          \/ owner' = [owner EXCEPT !.remover = "retained"]
      BY <3>1
    <3>3. /\ [owner EXCEPT !.cache = cache, !.held = "absent", !.remover = "skipped"].helper = owner.helper
          /\ [owner EXCEPT !.remover = "retained"].helper = owner.helper
      BY RemoverChanges DEF BundleOwner
    <3> QED
      BY <3>2, <3>3
  <2>2. Typed'
    BY <2>1
  <2>3. Delivered' /\ Spoken' /\ Allowed
    BY <2>1
  <2>4. BundleInv'
    BY <2>1
  <2> QED
    BY <2>2, <2>3, <2>4
<1>31. CASE Cache!CancelBundle /\ UNCHANGED owner
  BY <1>31 DEF Cache!CancelBundle, Cache!Finished
<1>32. CASE Cache!CacheChanges
  BY <1>32 DEF Cache!CacheChanges, Cache!Entries, Cache!Finished, Cache!WithEntry,
      Cache!publisherVars
<1>33. CASE Cache!TemporaryChanges
  BY <1>33 DEF Cache!TemporaryChanges, Cache!publisherVars
<1>34. CASE Cache!FetchKilled
  BY <1>34 DEF Cache!FetchKilled, Cache!Finished, Cache!Empty
<1>35. CASE Cache!BundleAgain
  <2> USE <1>35 DEF Cache!BundleAgain, Cache!Finished, Cache!Nothing, Cache!Empty
  <2>1. image' \in Blocks
    OBVIOUS
  <2>2. Typed'
    BY <2>1
  <2>3. Delivered' /\ Spoken' /\ Allowed
    BY <2>1
  <2>4. BundleInv'
    BY <2>1
  <2> QED
    BY <2>2, <2>3, <2>4
<1> QED
  BY <1>1, <1>2, <1>3, <1>4, <1>5, <1>6, <1>7, <1>8, <1>9, <1>10, <1>11, <1>12, <1>13, <1>14,
     <1>15, <1>16, <1>17, <1>18, <1>19, <1>20, <1>21, <1>22, <1>23, <1>24, <1>25, <1>26, <1>27,
     <1>28, <1>29, <1>30, <1>31, <1>32, <1>33, <1>34, <1>35
     DEF Cache!Next, Cache!Fetch, Cache!Works, Cache!Remover, Cache!Fetching

-----------------------------------------------------------------------------
(* All of them. *)

\* Every component begins with nothing done and nothing told.
LEMMA Beginning ==
  ASSUME NEW tasks \in SUBSET Tasks,
         pc = "idle", cancelled = FALSE, entry \in {"absent", "foreign"}, image = Empty, private = {},
         input = "bound", \E task \in tasks : child = [NoChild EXCEPT !.task = task], told = Nothing
  PROVE  /\ Typed /\ Delivered /\ Spoken /\ Untold /\ Plain
         /\ child.state = "none" /\ child.killable /\ child.task \in tasks
<1>1. PICK task \in tasks : child = [NoChild EXCEPT !.task = task]
  OBVIOUS
<1>2. child \in Processes /\ child.state = "none" /\ child.killable /\ child.task = task
  BY <1>1, NewOperations DEF NoChild
<1>3. told \in Said /\ Untold /\ Plain
  BY DEF Nothing, Said, Untold, Plain
<1> QED
  BY <1>2, <1>3, EmptyIsTyped DEF Typed, Delivered, Spoken

\* The invariant holds in the initial states.
LEMMA Beginnings ==
  ASSUME Init
  PROVE  IInv
<1> USE SizeAssumption DEF Tasks
<1>1. CASE kind = "download"
  <2>1. Download!VerifiedInit /\ owner = Snapshot!Nobody
    BY <1>1 DEF Init
  <2>2. /\ Typed /\ Delivered /\ Spoken /\ Untold /\ Plain
        /\ child.state = "none" /\ child.killable /\ child.task \in {"download"}
        /\ pc = "idle" /\ private = {} /\ image = Empty /\ input = "bound"
        /\ entry \in {"absent", "foreign"}
    BY <2>1, Beginning DEF Download!VerifiedInit, Download!PublisherInit, Download!Empty,
        Download!NoChild, Download!Nothing, Empty, NoChild, Nothing, Tasks
  <2>3. DownloadInv
    BY <2>2 DEF DownloadInv, Empty, Plain
  <2> QED
    BY <1>1, <2>1, <2>2, <2>3, KindsAssumption DEF IInv, Init
<1>2. CASE kind = "freedos"
  <2>1. Download!FreeDosInit /\ owner = Snapshot!Nobody
    BY <1>2 DEF Init
  <2>2. /\ Typed /\ Delivered /\ Spoken /\ Untold /\ Plain
        /\ child.state = "none" /\ child.killable /\ child.task \in {"freedos"}
        /\ pc = "idle" /\ private = {} /\ image = Empty /\ input = "bound"
        /\ entry \in {"absent", "foreign"}
    BY <2>1, Beginning DEF Download!FreeDosInit, Download!PublisherInit, Download!Empty,
        Download!NoChild, Download!Nothing, Empty, NoChild, Nothing, Tasks
  <2>3. FreeDosInv
    BY <2>2 DEF FreeDosInv, Empty, Plain
  <2> QED
    BY <1>2, <2>1, <2>2, <2>3, KindsAssumption DEF IInv, Init
<1>3. CASE kind = "drive"
  <2>1. Capture!DriveInit /\ owner = Snapshot!Nobody
    BY <1>3 DEF Init
  <2>2. /\ Typed /\ Delivered /\ Spoken /\ Untold /\ Plain
        /\ child.state = "none" /\ child.killable /\ child.task \in {"read"}
        /\ pc = "idle" /\ private = {} /\ image = Empty /\ input = "bound"
        /\ entry \in {"absent", "foreign"}
    BY <2>1, Beginning DEF Capture!DriveInit, Capture!PublisherInit, Capture!Empty,
        Capture!NoChild, Capture!Nothing, Empty, NoChild, Nothing, Tasks
  <2>3. DriveInv
    BY <2>2 DEF DriveInv, DriveRead, Empty, Plain
  <2> QED
    BY <1>3, <2>1, <2>2, <2>3, KindsAssumption DEF IInv, Init
<1>4. CASE kind = "virtual"
  <2>1. Capture!VirtualInit /\ owner = Snapshot!Nobody
    BY <1>4 DEF Init
  <2>2. /\ Typed /\ Delivered /\ Spoken /\ Untold /\ Plain
        /\ child.state = "none" /\ child.killable /\ child.task \in {"convert"}
        /\ pc = "idle" /\ private = {} /\ image = Empty /\ input = "bound"
        /\ entry \in {"absent", "foreign"}
    BY <2>1, Beginning DEF Capture!VirtualInit, Capture!PublisherInit, Capture!Empty,
        Capture!NoChild, Capture!Nothing, Empty, NoChild, Nothing, Tasks
  <2>3. VirtualInv
    BY <2>2 DEF VirtualInv, Empty, Plain
  <2> QED
    BY <1>4, <2>1, <2>2, <2>3, KindsAssumption DEF IInv, Init
<1>5. CASE kind = "optical"
  <2>1. Capture!OpticalInit /\ owner = Snapshot!Nobody
    BY <1>5 DEF Init
  <2>2. /\ Typed /\ Delivered /\ Spoken /\ Untold /\ Plain
        /\ child.state = "none" /\ child.killable /\ child.task \in {"capture"}
        /\ pc = "idle" /\ private = {} /\ image = Empty /\ input = "bound"
        /\ entry \in {"absent", "foreign"}
    BY <2>1, Beginning DEF Capture!OpticalInit, Capture!PublisherInit, Capture!Empty,
        Capture!NoChild, Capture!Nothing, Empty, NoChild, Nothing, Tasks
  <2>3. OpticalInv
    BY <2>2 DEF OpticalInv, OpticalLooks, Empty, Plain
  <2> QED
    BY <1>5, <2>1, <2>2, <2>3, KindsAssumption DEF IInv, Init
<1>6. CASE kind = "container"
  <2>1. Capture!ContainerInit /\ owner = Snapshot!Nobody
    BY <1>6 DEF Init
  <2>2. /\ Typed /\ Delivered /\ Spoken /\ Untold /\ Plain
        /\ child.state = "none" /\ child.killable /\ child.task \in {"library", "decoder"}
        /\ pc = "idle" /\ private = {} /\ image = Empty /\ input = "bound"
        /\ entry = "absent"
    BY <2>1, Beginning DEF Capture!ContainerInit, Capture!PublisherInit, Capture!Empty,
        Capture!NoChild, Capture!Nothing, Empty, NoChild, Nothing, Tasks
  <2>3. ContainerInv
    BY <2>2 DEF ContainerInv, ContainerHolds, ContainerDecodes,
        ContainerChecks, Empty, Plain
  <2> QED
    BY <1>6, <2>1, <2>2, <2>3, KindsAssumption DEF IInv, Init
<1>7. CASE kind = "staging"
  <2>1. Staging!Init /\ owner = Snapshot!Nobody
    BY <1>7 DEF Init
  <2>2. /\ Typed /\ Delivered /\ Spoken /\ Untold /\ Plain
        /\ child.state = "none" /\ child.killable /\ child.task \in {"extract"}
        /\ pc = "idle" /\ private = {} /\ image = Empty /\ input = "bound"
        /\ entry \in {"absent", "foreign"}
    BY <2>1, Beginning DEF Staging!Init, Staging!PublisherInit, Staging!Empty, Staging!NoChild,
        Staging!Nothing, Empty, NoChild, Nothing, Tasks
  <2>3. StagingInv
    BY <2>2 DEF StagingInv, StagingOperates, Empty, Plain
  <2> QED
    BY <1>7, <2>1, <2>2, <2>3, KindsAssumption DEF IInv, Init
<1>8. CASE kind = "wim"
  <2>1. Staging!WimInit /\ owner = Snapshot!Nobody
    BY <1>8 DEF Init
  <2>2. /\ Typed /\ Delivered /\ Spoken /\ Untold /\ Plain
        /\ child.state = "none" /\ child.killable /\ child.task \in {"split", "extract"}
        /\ pc = "idle" /\ private = {} /\ image = Empty /\ input = "bound"
        /\ entry \in {"absent", "foreign"}
    BY <2>1, Beginning DEF Staging!WimInit, Staging!PublisherInit, Staging!Empty, Staging!NoChild,
        Staging!Nothing, Empty, NoChild, Nothing, Tasks
  <2>3. WimInv
    BY <2>2 DEF WimInv, Empty, Plain
  <2> QED
    BY <1>8, <2>1, <2>2, <2>3, KindsAssumption DEF IInv, Init
<1>9. CASE kind = "snapshot"
  <2>1. Snapshot!Init
    BY <1>9 DEF Init
  <2>2. /\ Typed /\ Delivered /\ Spoken /\ Untold /\ Plain
        /\ child.state = "none" /\ child.killable /\ child.task \in {"file", "stream", "materialize"}
        /\ pc = "idle" /\ private = {} /\ image = Empty /\ input = "bound"
        /\ entry = "absent"
    BY <2>1, Beginning DEF Snapshot!Init, Snapshot!PublisherInit, Snapshot!Tasks, Snapshot!Empty,
        Snapshot!NoChild, Snapshot!Nothing, Empty, NoChild, Nothing, Tasks
  <2>3. SnapshotOwner
    BY <2>1, <2>2 DEF Snapshot!Init, Snapshot!Nobody, SnapshotOwner, SnapshotOwners, Planning,
        Opening, Owned
  <2>4. SnapshotInv
    BY <2>2, <2>3 DEF SnapshotInv, Planning, Opening, Converting, Owned,
        Empty, Plain
  <2> QED
    BY <1>9, <2>1, <2>2, <2>4, KindsAssumption DEF IInv, Init
<1>10. CASE kind = "image"
  <2>1. Image!Init
    BY <1>10 DEF Init
  <2>2. /\ Typed /\ Delivered /\ Spoken /\ Untold /\ Plain
        /\ child.state = "none" /\ child.killable /\ child.task \in {"windows", "syslinux", "grub", "vm"}
        /\ pc = "idle" /\ private = {} /\ image = Empty /\ input = "bound"
        /\ entry = "absent"
    BY <2>1, Beginning DEF Image!Init, Image!PublisherInit, Image!Tasks, Image!Empty,
        Image!NoChild, Image!Nothing, Empty, NoChild, Nothing, Tasks
  <2>3. ImageOwner
    <3>1. PICK readable \in {TRUE} : owner = [Image!NoImage EXCEPT !.readable = readable]
      BY <2>1, <2>2, ImagesAreReadable DEF Image!Init
    <3> QED
      BY <2>2, <3>1 DEF Image!NoImage, ImageOwner, ImageOwners, Planned, Constructed, Patched,
          Attested
  <2>4. ImageInv
    BY <2>2, <2>3 DEF ImageInv, Planned, Constructed, Patched, Attested, Empty,
        Plain
  <2> QED
    BY <1>10, <2>1, <2>2, <2>4, KindsAssumption DEF IInv, Init
<1>11. CASE kind = "bundle"
  <2>1. Cache!Init
    BY <1>11 DEF Init
  <2>2. /\ Typed /\ Delivered /\ Spoken /\ Untold /\ Plain
        /\ child.state = "none" /\ child.killable /\ child.task \in {"bundle"}
        /\ pc = "idle" /\ private = {} /\ image = Empty /\ input = "bound"
        /\ entry = "absent" /\ stubborn \subseteq {"temp"}
    BY <2>1, Beginning DEF Cache!Init, Cache!PublisherInit, Cache!Empty, Cache!NoChild,
        Cache!Nothing, Empty, NoChild, Nothing, Tasks
  <2>3. BundleOwner /\ owner.helper = "none"
    <3>1. PICK kept \in Cache!Entries : owner = [Cache!NoCache EXCEPT !.cache[1] = kept]
      BY <2>1 DEF Cache!Init
    <3>2. PICK cache \in [1..Size -> Cache!Entries] : cache = [[c \in 1..Size |-> "absent"] EXCEPT ![1] = kept]
      BY DEF Cache!Entries
    <3>3. owner = [Cache!NoCache EXCEPT !.cache = cache]
      BY <3>1, <3>2 DEF Cache!NoCache
    <3> QED
      BY <3>3 DEF Cache!NoCache, Cache!Entries, BundleOwner, BundleOwners
  <2>4. BundleInv
    BY <2>2, <2>3 DEF BundleInv, Closed, Empty, Plain
  <2> QED
    BY <1>11, <2>1, <2>2, <2>4, KindsAssumption DEF IInv, Init
<1> QED
  BY <1>1, <1>2, <1>3, <1>4, <1>5, <1>6, <1>7, <1>8, <1>9, <1>10, <1>11, KindsAssumption DEF Init

\* Every component begins at its first step, with a name that is free or somebody else's.
LEMMA Opens ==
  ASSUME Init
  PROVE  pc = "idle" /\ entry \in {"absent", "foreign"}
<1>1. CASE kind = "download"
  BY <1>1 DEF Init, Download!VerifiedInit, Download!PublisherInit
<1>2. CASE kind = "freedos"
  BY <1>2 DEF Init, Download!FreeDosInit, Download!PublisherInit
<1>3. CASE kind = "drive"
  BY <1>3 DEF Init, Capture!DriveInit, Capture!PublisherInit
<1>4. CASE kind = "virtual"
  BY <1>4 DEF Init, Capture!VirtualInit, Capture!PublisherInit
<1>5. CASE kind = "optical"
  BY <1>5 DEF Init, Capture!OpticalInit, Capture!PublisherInit
<1>6. CASE kind = "container"
  BY <1>6 DEF Init, Capture!ContainerInit, Capture!PublisherInit
<1>7. CASE kind = "staging"
  BY <1>7 DEF Init, Staging!Init, Staging!PublisherInit
<1>8. CASE kind = "wim"
  BY <1>8 DEF Init, Staging!WimInit, Staging!PublisherInit
<1>9. CASE kind = "snapshot"
  BY <1>9 DEF Init, Snapshot!Init, Snapshot!PublisherInit
<1>10. CASE kind = "image"
  BY <1>10 DEF Init, Image!Init, Image!PublisherInit
<1>11. CASE kind = "bundle"
  BY <1>11 DEF Init, Cache!Init, Cache!PublisherInit
<1> QED
  BY <1>1, <1>2, <1>3, <1>4, <1>5, <1>6, <1>7, <1>8, <1>9, <1>10, <1>11, KindsAssumption DEF Init

\* What nothing changes stays as it is.
LEMMA Stutters ==
  ASSUME IInv, UNCHANGED vars
  PROVE  IInv' /\ Allowed
<1> USE DEF vars, publisherVars
<1>1. Typed' /\ Delivered' /\ Spoken' /\ Allowed
  BY DEF IInv, Typed, Delivered, Spoken, Allowed, Complete
<1>2. kind' = kind /\ owner' = owner
  OBVIOUS
<1>3. DownloadInv => DownloadInv'
  BY DEF DownloadInv, Complete, Plain, Untold, Empty
<1>4. FreeDosInv => FreeDosInv'
  BY DEF FreeDosInv, Complete, Plain, Untold, Empty
<1>5. DriveInv => DriveInv'
  BY DEF DriveInv, Complete, Plain, Untold, Empty
<1>6. VirtualInv => VirtualInv'
  BY DEF VirtualInv, Complete, Plain, Untold, Empty
<1>7. OpticalInv => OpticalInv'
  BY DEF OpticalInv, Complete, Plain, Untold, Empty
<1>8. ContainerInv => ContainerInv'
  BY DEF ContainerInv, ContainerHolds, Complete, Plain, Untold, Empty
<1>9. StagingInv => StagingInv'
  BY DEF StagingInv, Complete, Plain, Untold, Empty
<1>10. WimInv => WimInv'
  BY DEF WimInv, Complete, Plain, Untold, Empty
<1>11. SnapshotInv => SnapshotInv'
  BY DEF SnapshotInv, SnapshotOwner, Complete, Plain, Untold, Empty
<1>12. ImageInv => ImageInv'
  BY DEF ImageInv, ImageOwner, Complete, Plain, Untold, Empty
<1>13. BundleInv => BundleInv'
  BY DEF BundleInv, BundleOwner, Complete, Plain, Untold, Empty
<1> QED
  BY <1>1, <1>2, <1>3, <1>4, <1>5, <1>6, <1>7, <1>8, <1>9, <1>10, <1>11, <1>12, <1>13 DEF IInv

\* A step of any component keeps the invariant, and is one that is allowed.
LEMMA Steps ==
  ASSUME IInv, [Next]_vars
  PROVE  IInv' /\ Allowed
<1>1. CASE DownloadSteps
  <2>1. kind = "download" /\ kind' = kind /\ Download!VerifiedNext /\ owner' = owner
    BY <1>1 DEF DownloadSteps
  <2>2. Typed /\ Delivered /\ Spoken /\ DownloadInv /\ kind \in Kinds /\ owner = Snapshot!Nobody
    BY <2>1 DEF IInv
  <2>3. Typed' /\ Delivered' /\ Spoken' /\ DownloadInv' /\ Allowed
    BY <2>1, <2>2, DownloadStep
  <2> QED
    BY <2>1, <2>2, <2>3 DEF IInv
<1>2. CASE FreeDosSteps
  <2>1. kind = "freedos" /\ kind' = kind /\ Download!FreeDosNext /\ owner' = owner
    BY <1>2 DEF FreeDosSteps
  <2>2. Typed /\ Delivered /\ Spoken /\ FreeDosInv /\ kind \in Kinds /\ owner = Snapshot!Nobody
    BY <2>1 DEF IInv
  <2>3. Typed' /\ Delivered' /\ Spoken' /\ FreeDosInv' /\ Allowed
    BY <2>1, <2>2, FreeDosStep
  <2> QED
    BY <2>1, <2>2, <2>3 DEF IInv
<1>3. CASE DriveSteps
  <2>1. kind = "drive" /\ kind' = kind /\ Capture!DriveNext /\ owner' = owner
    BY <1>3 DEF DriveSteps
  <2>2. Typed /\ Delivered /\ Spoken /\ DriveInv /\ kind \in Kinds /\ owner = Snapshot!Nobody
    BY <2>1 DEF IInv
  <2>3. Typed' /\ Delivered' /\ Spoken' /\ DriveInv' /\ Allowed
    BY <2>1, <2>2, DriveStep
  <2> QED
    BY <2>1, <2>2, <2>3 DEF IInv
<1>4. CASE VirtualSteps
  <2>1. kind = "virtual" /\ kind' = kind /\ Capture!VirtualNext /\ owner' = owner
    BY <1>4 DEF VirtualSteps
  <2>2. Typed /\ Delivered /\ Spoken /\ VirtualInv /\ kind \in Kinds /\ owner = Snapshot!Nobody
    BY <2>1 DEF IInv
  <2>3. Typed' /\ Delivered' /\ Spoken' /\ VirtualInv' /\ Allowed
    BY <2>1, <2>2, VirtualStep
  <2> QED
    BY <2>1, <2>2, <2>3 DEF IInv
<1>5. CASE OpticalSteps
  <2>1. kind = "optical" /\ kind' = kind /\ Capture!OpticalNext /\ owner' = owner
    BY <1>5 DEF OpticalSteps
  <2>2. Typed /\ Delivered /\ Spoken /\ OpticalInv /\ kind \in Kinds /\ owner = Snapshot!Nobody
    BY <2>1 DEF IInv
  <2>3. Typed' /\ Delivered' /\ Spoken' /\ OpticalInv' /\ Allowed
    BY <2>1, <2>2, OpticalStep
  <2> QED
    BY <2>1, <2>2, <2>3 DEF IInv
<1>6. CASE ContainerSteps
  <2>1. kind = "container" /\ kind' = kind /\ Capture!ContainerNext /\ owner' = owner
    BY <1>6 DEF ContainerSteps
  <2>2. Typed /\ Delivered /\ Spoken /\ ContainerInv /\ kind \in Kinds /\ owner = Snapshot!Nobody
    BY <2>1 DEF IInv
  <2>3. Typed' /\ Delivered' /\ Spoken' /\ ContainerInv' /\ Allowed
    BY <2>1, <2>2, ContainerStep
  <2> QED
    BY <2>1, <2>2, <2>3 DEF IInv
<1>7. CASE StagingSteps
  <2>1. kind = "staging" /\ kind' = kind /\ Staging!Next /\ owner' = owner
    BY <1>7 DEF StagingSteps
  <2>2. Typed /\ Delivered /\ Spoken /\ StagingInv /\ kind \in Kinds /\ owner = Snapshot!Nobody
    BY <2>1 DEF IInv
  <2>3. Typed' /\ Delivered' /\ Spoken' /\ StagingInv' /\ Allowed
    BY <2>1, <2>2, StagingStep
  <2> QED
    BY <2>1, <2>2, <2>3 DEF IInv
<1>8. CASE WimSteps
  <2>1. kind = "wim" /\ kind' = kind /\ Staging!WimNext /\ owner' = owner
    BY <1>8 DEF WimSteps
  <2>2. Typed /\ Delivered /\ Spoken /\ WimInv /\ kind \in Kinds /\ owner = Snapshot!Nobody
    BY <2>1 DEF IInv
  <2>3. Typed' /\ Delivered' /\ Spoken' /\ WimInv' /\ Allowed
    BY <2>1, <2>2, WimStep
  <2> QED
    BY <2>1, <2>2, <2>3 DEF IInv
<1>9. CASE SnapshotSteps
  <2>1. kind = "snapshot" /\ kind' = kind /\ Snapshot!Next
    BY <1>9 DEF SnapshotSteps
  <2>2. Typed /\ Delivered /\ Spoken /\ SnapshotInv /\ kind \in Kinds
    BY <2>1 DEF IInv
  <2>3. SnapshotOwner'
    BY <2>1, <2>2, SnapshotOwnerStep
  <2>4. Typed' /\ Delivered' /\ Spoken' /\ SnapshotInv' /\ Allowed
    BY <2>1, <2>2, <2>3, SnapshotStep
  <2> QED
    BY <2>1, <2>2, <2>4 DEF IInv
<1>10. CASE ImageSteps
  <2>1. kind = "image" /\ kind' = kind /\ Image!Next
    BY <1>10 DEF ImageSteps
  <2>2. Typed /\ Delivered /\ Spoken /\ ImageInv /\ kind \in Kinds
    BY <2>1 DEF IInv
  <2>3. ImageOwner'
    BY <2>1, <2>2, ImageOwnerStep
  <2>4. Typed' /\ Delivered' /\ Spoken' /\ ImageInv' /\ Allowed
    BY <2>1, <2>2, <2>3, ImageStep
  <2> QED
    BY <2>1, <2>2, <2>4 DEF IInv
<1>11. CASE BundleSteps
  <2>1. kind = "bundle" /\ kind' = kind /\ Cache!Next
    BY <1>11 DEF BundleSteps
  <2>2. Typed /\ Delivered /\ Spoken /\ BundleInv /\ kind \in Kinds
    BY <2>1 DEF IInv
  <2>3. BundleOwner'
    BY <2>1, <2>2, BundleOwnerStep
  <2>4. Typed' /\ Delivered' /\ Spoken' /\ BundleInv' /\ Allowed
    BY <2>1, <2>2, <2>3, BundleStep
  <2> QED
    BY <2>1, <2>2, <2>4 DEF IInv
<1>12. CASE UNCHANGED vars
  BY <1>12, Stutters
<1> QED
  BY <1>1, <1>2, <1>3, <1>4, <1>5, <1>6, <1>7, <1>8, <1>9, <1>10, <1>11, <1>12 DEF Next

\* A report says what there is.
LEMMA ReportFollows ==
  ASSUME IInv
  PROVE  ReportIsTrue
<1> SUFFICES ASSUME pc = "done"
             PROVE  ReportIsTrue
  BY DEF ReportIsTrue, Reported
<1>1. told.outcome = "cancelled" => entry # "ours"
  BY DEF IInv, Spoken
<1>2. CASE kind = "download"
  BY <1>1, <1>2 DEF IInv, DownloadInv, Plain, ReportIsTrue
<1>3. CASE kind = "freedos"
  BY <1>1, <1>3 DEF IInv, FreeDosInv, Plain, ReportIsTrue
<1>4. CASE kind = "drive"
  BY <1>1, <1>4 DEF IInv, DriveInv, Plain, ReportIsTrue
<1>5. CASE kind = "virtual"
  BY <1>1, <1>5 DEF IInv, VirtualInv, Plain, ReportIsTrue
<1>6. CASE kind = "optical"
  BY <1>1, <1>6 DEF IInv, OpticalInv, Plain, ReportIsTrue
<1>7. CASE kind = "container"
  BY <1>1, <1>7 DEF IInv, ContainerInv, Plain, ReportIsTrue
<1>8. CASE kind = "staging"
  BY <1>1, <1>8 DEF IInv, StagingInv, Plain, ReportIsTrue
<1>9. CASE kind = "wim"
  BY <1>1, <1>9 DEF IInv, WimInv, Plain, ReportIsTrue
<1>10. CASE kind = "snapshot"
  BY <1>1, <1>10 DEF IInv, SnapshotInv, Plain, ReportIsTrue
<1>11. CASE kind = "image"
  BY <1>1, <1>11 DEF IInv, ImageInv, Plain, ReportIsTrue, ImageOwner, ImageOwners
<1>12. CASE kind = "bundle"
  BY <1>1, <1>12 DEF IInv, BundleInv, Plain, ReportIsTrue
<1> QED
  BY <1>2, <1>3, <1>4, <1>5, <1>6, <1>7, <1>8, <1>9, <1>10, <1>11, <1>12, KindsAssumption DEF IInv

\* Nothing is left that is not told of.
LEMMA NothingStays ==
  ASSUME IInv
  PROVE  NothingLeaks
<1>1. ~owner.misclosed
  <2>1. CASE kind \notin {"snapshot", "image", "bundle"}
    BY <2>1 DEF IInv, Snapshot!Nobody
  <2>2. CASE kind = "snapshot"
    BY <2>2 DEF IInv, SnapshotInv, SnapshotOwner, SnapshotOwners
  <2>3. CASE kind = "image"
    BY <2>3 DEF IInv, ImageInv, ImageOwner, ImageOwners
  <2>4. CASE kind = "bundle"
    BY <2>4 DEF IInv, BundleInv, BundleOwner, BundleOwners
  <2> QED
    BY <2>1, <2>2, <2>3, <2>4
<1>2. CASE kind = "download"
  BY <1>1, <1>2 DEF IInv, DownloadInv, Plain, Spoken, NothingLeaks, Reported
<1>3. CASE kind = "freedos"
  BY <1>1, <1>3 DEF IInv, FreeDosInv, Plain, Spoken, NothingLeaks, Reported
<1>4. CASE kind = "drive"
  BY <1>1, <1>4 DEF IInv, DriveInv, Plain, Spoken, NothingLeaks, Reported
<1>5. CASE kind = "virtual"
  BY <1>1, <1>5 DEF IInv, VirtualInv, Plain, Spoken, NothingLeaks, Reported
<1>6. CASE kind = "optical"
  BY <1>1, <1>6 DEF IInv, OpticalInv, Plain, Spoken, NothingLeaks, Reported, Typed, Said
<1>7. CASE kind = "container"
  BY <1>1, <1>7 DEF IInv, ContainerInv, Plain, Spoken, NothingLeaks, Reported, ContainerHolds
<1>8. CASE kind = "staging"
  BY <1>1, <1>8 DEF IInv, StagingInv, Plain, Spoken, NothingLeaks, Reported
<1>9. CASE kind = "wim"
  BY <1>1, <1>9 DEF IInv, WimInv, Plain, Spoken, NothingLeaks, Reported
<1>10. CASE kind = "snapshot"
  BY <1>1, <1>10 DEF IInv, SnapshotInv, Plain, Spoken, NothingLeaks, Reported, SnapshotOwner
<1>11. CASE kind = "image"
  BY <1>1, <1>11 DEF IInv, ImageInv, Plain, Spoken, NothingLeaks, Reported, ImageOwner
<1>12. CASE kind = "bundle"
  BY <1>1, <1>12 DEF IInv, BundleInv, Plain, Spoken, NothingLeaks, Reported, BundleOwner,
      BundleOwners
<1> QED
  BY <1>2, <1>3, <1>4, <1>5, <1>6, <1>7, <1>8, <1>9, <1>10, <1>11, <1>12, KindsAssumption DEF IInv

\* Every reachable state is one that the components mean: what has the name is complete,
\* and each step has for certain what the next one relies on.
THEOREM Inductive == Spec => []IInv
<1>1. Init => IInv
  BY Beginnings
<1>2. IInv /\ [Next]_vars => IInv'
  BY Steps
<1> QED
  BY <1>1, <1>2, PTL DEF Spec

\* Whatever is published, by any of the components and at any size, is published complete,
\* by one step, and never over a file of somebody else.
THEOREM Refinement == Spec => ImplementsPublication
<1>1. Init => Promise!Init
  <2> SUFFICES ASSUME Init
               PROVE  Promise!Init
    OBVIOUS
  <2>1. pc = "idle" /\ entry \in {"absent", "foreign"}
    BY Opens
  <2> QED
    BY <2>1 DEF Promise!Init
<1>2. IInv /\ IInv' /\ [Next]_vars => [Promise!Next]_(Promise!vars)
  BY Steps, AllowedIsPromised DEF IInv
<1> QED
  BY <1>1, <1>2, Inductive, PTL DEF Spec, ImplementsPublication, Promise!Spec

\* For files of every size: a cancellation is reported only of what was not published, and
\* only what is there is said to be left behind; and but for the staging, the WIM and the
\* leftover of an optical capture a published file is told of, but for a virtual backup
\* before its conversion only a published one.
THEOREM ReportHolds == Spec => []ReportIsTrue
BY Inductive, ReportFollows, PTL

\* Private names, descriptors and children stay behind only as NothingLeaks says, component
\* by component: told of, after a failure, or where the file system refuses to remove them.
THEOREM NothingIsLeft == Spec => []NothingLeaks
BY Inductive, NothingStays, PTL
=============================================================================
