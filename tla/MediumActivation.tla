--------------------------- MODULE MediumActivation ---------------------------
(***************************************************************************)
(* What a privileged whole-disk writer promises about the selected medium, *)
(* seen through the only thing a power cut or a later boot can see: the    *)
(* durable sectors.  The medium is                                         *)
(*   intact   no sector has been changed;                                  *)
(*   opened   some front sector still holds the old metadata, and the      *)
(*            image body has not been touched;                             *)
(*   stale    some front sector still holds the old metadata, over a body  *)
(*            that has been touched;                                       *)
(*   inert    the front guard holds neither old nor new metadata, so       *)
(*            nothing on the medium claims to be a file system or a disk;  *)
(*   arming   a part of the new front guard is there, over a complete      *)
(*            image body;                                                  *)
(*   active   the new image is complete.                                   *)
(* New metadata over an incomplete body, or beside old metadata ("torn"),  *)
(* has no name here because no step leads to it on any medium.  Only one   *)
(* that does not keep what it has acknowledged becomes stale.              *)
(***************************************************************************)

VARIABLES
  reliable, \* whether the medium keeps every write that it acknowledges
  view,     \* what the durable sectors amount to
  outcome   \* what the caller of the writer is told, "running" before that

vars == <<reliable, view, outcome>>

Views == {"intact", "opened", "stale", "inert", "arming", "active"}
Outcomes == {"running", "succeeded", "untouched", "failed"}

\* The steps that the durable state of the medium can take.
Edges ==
  {<<"intact", "opened">>, <<"intact", "inert">>, <<"opened", "inert">>,
   <<"inert", "arming">>, <<"inert", "active">>, <<"arming", "active">>,
   <<"active", "arming">>, <<"active", "inert">>, <<"arming", "inert">>}

\* And those that only dropped writes lead to.
StaleEdges == {<<"intact", "stale">>, <<"opened", "stale">>, <<"stale", "inert">>}

Init == reliable \in BOOLEAN /\ view = "intact" /\ outcome = "running"

\* Sectors reach the medium while the writer runs, and after a failure too:
\* what it had written may still be in the page cache of the kernel.
MediumMoves ==
  /\ outcome \in {"running", "failed"}
  /\ <<view, view'>> \in Edges \/ (~reliable /\ <<view, view'>> \in StaleEdges)
  /\ UNCHANGED <<reliable, outcome>>

Tells(report) == outcome = "running" /\ outcome' = report /\ UNCHANGED <<reliable, view>>

Succeed == view = "active" /\ Tells("succeeded")
Refuse  == view = "intact" /\ Tells("untouched")
Fail    == Tells("failed")

Next == MediumMoves \/ Succeed \/ Refuse \/ Fail

Spec == Init /\ [][Next]_vars
=============================================================================
