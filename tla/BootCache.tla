------------------------------- MODULE BootCache --------------------------------
(***************************************************************************)
(* prepare_bundle of isopropyl/bootloaders.py: the Size files of a bundle  *)
(* of boot code are taken from a cache that every program of the user can  *)
(* write to, or fetched into it, and frozen in memory; and, in another     *)
(* window of the program, delete_cached_artifacts.                         *)
(*                                                                         *)
(* The name is the caller's variable: it gets the whole bundle or nothing. *)
(* image holds the files frozen so far, private what is open or on disk    *)
(* for this fetch: "temp", the private file, and "response".  A "temp"     *)
(* that the file system refuses to remove stays, and nobody is told.       *)
(***************************************************************************)
EXTENDS Publisher

VARIABLE owner  \* the cache, what is on its way to it, the helper thread and the remover

cacheVars == <<publisherVars, owner>>

\* A cache entry: nothing, the pinned bytes, others, a file with a second link, or
\* something that is not a file.
Entries == {"absent", "right", "wrong", "double", "odd"}

Regular == {"right", "wrong"}

NoCache ==
  [closer |-> "idle", misclosed |-> FALSE, cache |-> [c \in 1..Size |-> "absent"],
   temp |-> "right", stream |-> TRUE, helper |-> "none",
   remover |-> "idle", held |-> "absent", fresh |-> FALSE, spoiled |-> FALSE]

Init ==
  /\ PublisherInit({"bundle"}, {"temp"}) /\ entry = "absent"
  /\ \E kept \in Entries : owner = [NoCache EXCEPT !.cache[1] = kept]

\* The artifact in hand, and what the cache has of it.
Artifact == IF image.done < Size THEN image.done + 1 ELSE Size
Cached == owner.cache[Artifact]

\* An entry that is replaced is not the one that the remover opened.
WithEntry(c, what) ==
  [owner EXCEPT !.cache[c] = what, !.fresh = @ \/ (c = 1 /\ owner.remover = "bound")]

Fetching(step) == step /\ UNCHANGED owner

-----------------------------------------------------------------------------
(* prepare_bundle. *)

LoadCatalog == Ends("idle", "done", "failure") \/ Passes("idle", "catalog")

FindBundle == Ends("catalog", "done", "failure") \/ Passes("catalog", "next")

NextArtifact ==
  \/ Interrupted({"next"}, "done")
  \/ ~cancelled /\ image.done < Size /\ Passes("next", "open")

-----------------------------------------------------------------------------
(* fetch_resource.  Every failure leaves through Leave. *)

\* No component of the path is a link; missing directories are made.
OpenParent ==
  \/ Interrupted({"open"}, "leave")
  \/ ~cancelled /\ Passes("open", "verify")

\* Read in a thread, behind the deadline, and stable from the first look to the last.
VerifyCached ==
  \/ Interrupted({"verify"}, "leave")
  \/ ~cancelled /\ Cached = "right" /\ Passes("verify", "revalidate")
  \/ ~cancelled /\ Cached # "right" /\ Passes("verify", "discard")

RevalidateCached ==
  \/ Interrupted({"revalidate"}, "leave")
  \/ ~cancelled /\ Passes("revalidate", "bind")

\* Never keep what is known to be bad under a trusted key.
DiscardInvalid ==
  IF Cached \in {"absent", "odd"}
    THEN /\ IF Cached = "absent" THEN Passes("discard", "request") ELSE Ends("discard", "leave", "failure")
         /\ UNCHANGED owner
    ELSE /\ owner' = WithEntry(Artifact, "absent")
         /\ Interrupted({"discard"}, "leave") \/ Passes("discard", "request")

\* The connection is set up in a thread of its own.
StartConnecting ==
  \/ Interrupted({"request"}, "leave") /\ UNCHANGED owner
  \/ ~cancelled /\ Passes("request", "connect") /\ owner' = [owner EXCEPT !.helper = "connecting"]

\* A response that nobody waits for any more is closed by the thread that opened it.
ConnectorOpens ==
  /\ owner.helper = "connecting"
  /\ \/ /\ pc = "connect" /\ Keeps("connect", "connect", private \cup {"response"})
        /\ owner' = [owner EXCEPT !.helper = "offered"]
     \/ /\ owner' = [owner EXCEPT !.helper = IF pc = "connect" THEN "failed" ELSE "none"]
        /\ UNCHANGED publisherVars

ConnectorSeesAbandoned ==
  /\ owner.helper = "offered" /\ pc # "connect"
  /\ Keeps(pc, pc, private \ {"response"})
  /\ owner' = [owner EXCEPT !.helper = "none"]

\* The deadline is looked at again after the response has been claimed.
TakeResponse ==
  /\ owner.helper = "offered" /\ owner' = [owner EXCEPT !.helper = "none"]
  /\ Passes("connect", "url") \/ Ends("connect", "leave", "failure")

TakeError ==
  /\ owner.helper = "failed" /\ owner' = [owner EXCEPT !.helper = "none"]
  /\ Ends("connect", "leave", "failure")

AbandonConnection == Interrupted({"connect"}, "leave") /\ UNCHANGED owner

CheckFinalUrl ==
  \/ Interrupted({"url"}, "leave")
  \/ ~cancelled /\ Passes("url", "create")

CreateTemporary ==
  \/ Ends("create", "leave", "failure") /\ UNCHANGED owner
  \/ Keeps("create", "receive", private \cup {"temp"}) /\ owner' = [owner EXCEPT !.temp = "right", !.stream = TRUE]

\* The blocks of one file, which may be other ones, too few or too many; the digest is
\* that of the stream.
ReceiveBlocks ==
  \/ Interrupted({"receive"}, "leave") /\ UNCHANGED owner
  \/ /\ ~cancelled /\ Passes("receive", "sync")
     /\ \E right \in BOOLEAN :
          owner' = [owner EXCEPT !.stream = right, !.temp = IF right THEN @ ELSE "wrong"]

\* A synchronisation that takes too long is left to its thread.
SyncTemporary ==
  \/ Interrupted({"sync"}, "leave")
  \/ ~cancelled /\ Passes("sync", "digest")

CheckDigest ==
  IF owner.stream THEN Keeps("digest", "replace", private \ {"response"}) ELSE Ends("digest", "leave", "failure")

ReplaceEntry ==
  \/ (Interrupted({"replace"}, "leave") \/ (Cached = "odd" /\ Ends("replace", "leave", "failure"))) /\ UNCHANGED owner
  \/ /\ ~cancelled /\ Cached # "odd" /\ Keeps("replace", "publish", private \ {"temp"})
     /\ owner' = [WithEntry(Artifact, owner.temp) EXCEPT !.temp = "right"]

\* A late cancellation keeps what is in the cache.
SyncPublished ==
  \/ Interrupted({"publish"}, "leave")
  \/ ~cancelled /\ Passes("publish", "bind")

\* The finally clauses: the response, unless it is still the connector's, and the file; an
\* error of its unlink() is dropped.
Leave ==
  /\ Keeps("leave", "done", private \ (({"temp"} \ stubborn) \cup IF owner.helper = "offered" THEN {} ELSE {"response"}))
  /\ owner' = [owner EXCEPT !.temp = "right"]

\* bind_resource_bytes: what is returned are the bytes that were verified.
BindBytes ==
  \/ Interrupted({"bind"}, "done")
  \/ /\ ~cancelled /\ Cached = "right"
     /\ Makes("bind", IF Artifact = Size THEN "bundle" ELSE "next",
              [image EXCEPT !.done = @ + 1, !.right = @ /\ Cached = "right"])

ReturnBundle == GivesName("bundle", "return", "done")
CallerHasBundle == Ends("return", "done", "success")

-----------------------------------------------------------------------------
(* The cache window: an inventory, a question, and the removal through a   *)
(* private quarantine.                                                     *)

Removes(from, to, change) ==
  /\ owner.remover = from /\ owner' = [change EXCEPT !.remover = to]
  /\ UNCHANGED publisherVars

Inventory == owner.cache[1] \in Regular /\ Removes("idle", "asked", owner)

\* Not there any more, a link, a directory, a second name, or no quarantine.
RemovalSkipped ==
  \E from \in {"asked", "bound"} : Removes(from, "skipped", owner)

OpenEntry == owner.cache[1] \in Regular /\ Removes("asked", "bound", [owner EXCEPT !.fresh = FALSE])

Isolate ==
  \/ owner.cache[1] = "absent" /\ Removes("bound", "skipped", owner)
  \/ owner.cache[1] # "absent"
       /\ Removes("bound", "isolated", [owner EXCEPT !.held = owner.cache[1], !.cache[1] = "absent"])

\* Only the object that was opened, with its one link, goes.
DestroyIsolated ==
  /\ owner.held \in Regular /\ ~owner.fresh
  /\ Removes("isolated", "deleted", [owner EXCEPT !.held = "absent", !.fresh = FALSE, !.spoiled = owner.fresh])

\* Back under its name, unless something has appeared there; then it stays, and is told.
RestoreIsolated ==
  IF owner.cache[1] = "absent"
    THEN Removes("isolated", "skipped", [owner EXCEPT !.cache[1] = owner.held, !.held = "absent"])
    ELSE Removes("isolated", "retained", owner)

-----------------------------------------------------------------------------
(* The environment. *)

CacheChanges ==
  \E what \in Entries \ {owner.cache[1]} :
    ~Finished /\ owner' = WithEntry(1, what) /\ UNCHANGED publisherVars

TemporaryChanges ==
  /\ pc \in {"receive", "sync", "digest", "replace"} /\ owner.temp = "right"
  /\ owner' = [owner EXCEPT !.temp = "wrong"] /\ UNCHANGED publisherVars

\* The event alone: cancel() has no process to stop.
CancelBundle ==
  /\ ~cancelled /\ ~Finished /\ cancelled' = TRUE
  /\ UNCHANGED <<pc, signal, entry, image, private, stubborn, input, child, told>>

\* The threads and the response end with the process; a private file stays, under a name
\* that nobody looks for.
FetchKilled ==
  /\ entry = "absent" /\ ~Finished /\ pc # "idle" /\ pc' = "off"
  /\ image' = Empty /\ private' = {} /\ owner' = [owner EXCEPT !.helper = "none", !.temp = "right"]
  /\ UNCHANGED <<signal, cancelled, entry, stubborn, input, child, told>>

\* The next fetch makes a file of another name; one that an earlier fetch left stays.
BundleAgain ==
  /\ Finished /\ entry # "ours" /\ owner.helper = "none" /\ pc' = "idle"
  /\ told' = Nothing /\ cancelled' = FALSE /\ image' = Empty /\ private' = {}
  /\ UNCHANGED <<signal, entry, stubborn, input, child, owner>>

-----------------------------------------------------------------------------

Fetch ==
  \/ Fetching(LoadCatalog \/ FindBundle \/ NextArtifact \/ OpenParent \/ VerifyCached \/ RevalidateCached)
  \/ DiscardInvalid \/ StartConnecting \/ TakeResponse \/ TakeError \/ AbandonConnection
  \/ Fetching(CheckFinalUrl) \/ CreateTemporary \/ ReceiveBlocks
  \/ Fetching(SyncTemporary \/ CheckDigest) \/ ReplaceEntry
  \/ Leave \/ Fetching(SyncPublished \/ BindBytes \/ ReturnBundle \/ CallerHasBundle)

\* A connection is given up by its own timeout, so that the thread goes on too.
Works == Fetch \/ ConnectorOpens \/ ConnectorSeesAbandoned

Remover == Inventory \/ RemovalSkipped \/ OpenEntry \/ Isolate \/ DestroyIsolated \/ RestoreIsolated

Next ==
  \/ Works \/ Remover \/ Fetching(CancelBundle)
  \/ CacheChanges \/ TemporaryChanges \/ FetchKilled \/ BundleAgain
=============================================================================
