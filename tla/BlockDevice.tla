------------------------------- MODULE BlockDevice -------------------------------
(***************************************************************************)
(* The block device that the privileged transactions write to, as far as   *)
(* the calls of HelperOperations (pread, pwrite, fsync and ioctl in        *)
(* syslinux_device_helper.py) can tell: the durable sectors of a medium,   *)
(* the kernel's page cache in front of them, the sectors of a worn or      *)
(* counterfeit medium that need not keep what is written, and the medium   *)
(* that somebody may put in its place.                                     *)
(*                                                                         *)
(* The transactions extend this module; each of them is one process that   *)
(* has the device open exclusively.                                        *)
(***************************************************************************)
EXTENDS Integers, FiniteSets

CONSTANTS
  TargetTail,  \* last physical sector of the target
  MaxWeak      \* bound: sectors of the medium that need not retain writes

ASSUME DeviceAssumption == TargetTail \in Nat /\ MaxWeak \in Nat

VARIABLES
  page,     \* page cache of the target: a content, or "absent"
  dirty,    \* sectors whose cached content is newer than the medium
  dur,      \* durable content of every sector of the authorized medium
  weak,     \* sectors of a failing or counterfeit medium: a write may be lost
  swap,     \* the step during which the medium was replaced, or "none"
  alien     \* what reached the replacing medium: <<sector, content>> pairs

targetVars == <<page, dirty, dur, alien>>

Blocks == 0..TargetTail
Content == {"old", "zero", "image", "bad"}

DeviceTypeOK ==
  /\ page \in [Blocks -> (Content \ {"old"}) \union {"absent"}]
  /\ dirty \subseteq {b \in Blocks : page[b] # "absent"}
  /\ dur \in [Blocks -> Content]
  /\ weak \subseteq Blocks
  /\ alien \subseteq Blocks \X (Content \ {"old"})

\* Nothing of the device is cached; the initial content is the transaction's.
DeviceInit ==
  /\ page = [b \in Blocks |-> "absent"]
  /\ dirty = {}
  /\ weak \in {W \in SUBSET Blocks : Cardinality(W) <= MaxWeak}
  /\ swap = "none"
  /\ alien = {}

\* A write puts content c in the cached copies of the sectors S.
Put(S, c) ==
  /\ page' = [b \in Blocks |-> IF b \in S THEN c ELSE page[b]]
  /\ dirty' = dirty \union S
  /\ UNCHANGED <<dur, alien>>

\* The sectors S reach the medium that is in the slot now.  It acknowledges all of
\* them; of the weak ones it drops any, which keep what they held, and spoils any.
Persist(S) ==
  IF swap = "none"
    THEN /\ \E dropped \in SUBSET (S \intersect weak), spoiled \in SUBSET (S \intersect weak) :
              dur' = [b \in Blocks |-> IF b \notin S \/ b \in dropped THEN dur[b]
                                       ELSE IF b \in spoiled THEN "bad" ELSE page[b]]
         /\ UNCHANGED alien
    ELSE /\ alien' = alien \union {<<b, page[b]>> : b \in S}
         /\ UNCHANGED dur

\* A successful fsync persists every dirty sector.
Fsync == Persist(dirty) /\ dirty' = {} /\ UNCHANGED page

\* BLKFLSBUF writes back what is dirty and drops the cached copies, so that
\* reads are served by the medium.
FlushBuffers ==
  /\ Persist(dirty)
  /\ dirty' = {}
  /\ page' = [b \in Blocks |-> "absent"]

\* A failing fsync: the kernel marks every dirty sector clean, so that no later
\* fsync writes it.  What it did persist is WriteBack steps before this one.
LoseDirty == dirty' = {} /\ UNCHANGED <<page, dur, alien>>

\* The kernel writes a dirty sector back whenever it likes.
WriteBackSector(b) == b \in dirty /\ Persist({b}) /\ dirty' = dirty \ {b} /\ UNCHANGED page

\* Only what is durable survives the loss of power.
LosePower == page' = [b \in Blocks |-> "absent"] /\ dirty' = {} /\ UNCHANGED <<dur, alien>>

\* A read of sector b may return c: from the cached copy if there is one,
\* from the medium if the sector is clean.  A replacing medium holds anything.
MayRead(b, c) ==
  \/ swap # "none"
  \/ page[b] # "absent" /\ page[b] = c
  \/ b \notin dirty /\ dur[b] = c
=============================================================================
