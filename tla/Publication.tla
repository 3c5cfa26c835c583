------------------------------ MODULE Publication -------------------------------
(***************************************************************************)
(* What everything that makes a file promises its user: under the name     *)
(* that was asked for there is nothing, or somebody else's file, or the    *)
(* complete one.  The detailed modules (a verified download, the capture   *)
(* of a drive, its conversion to a virtual disk, the staging of an ISO     *)
(* tree, the snapshot that is sent to a helper) implement this one.        *)
(***************************************************************************)

VARIABLES
  name,   \* "absent", "foreign" or "complete"
  told    \* "none" while it runs; then what was reported; "lost" if it died

vars == <<name, told>>

Init == name \in {"absent", "foreign"} /\ told = "none"

Publish == told = "none" /\ name = "absent" /\ name' = "complete" /\ UNCHANGED told

SomebodyCreates == name = "absent" /\ name' = "foreign" /\ UNCHANGED told

Succeed == told = "none" /\ name = "complete" /\ told' = "success" /\ UNCHANGED name

Fail == told = "none" /\ told' \in {"failure", "cancelled"} /\ UNCHANGED name

\* A power loss may take back a name whose directory was never synchronised.
Die == told = "none" /\ told' = "lost" /\ name' \in {name, IF name = "complete" THEN "absent" ELSE name}

TryAgain == told # "none" /\ told' = "none" /\ UNCHANGED name

Next == Publish \/ SomebodyCreates \/ Succeed \/ Fail \/ Die \/ TryAgain

Spec == Init /\ [][Next]_vars
=============================================================================
