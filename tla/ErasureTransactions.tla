-------------------------- MODULE ErasureTransactions ---------------------------
(***************************************************************************)
(* The two root transactions that erase a whole disk, side by side, each   *)
(* with its unprivileged runner: fast zero of                              *)
(* isopropyl/syslinux_device_helper.py and isopropyl/fast_zero.py, and the *)
(* verified restore of isopropyl/restore_device_helper.py.  One of them    *)
(* runs, over the same block device.                                       *)
(***************************************************************************)
EXTENDS Integers, FiniteSets

CONSTANTS
  RestoreTail,  \* last sector of the disk of RestoreSession
  ZeroTail,     \* last sector of the disk of FastZeroSession
  MaxWeak,      \* of both disks
  ChunkSize,    \* of FastZeroSession
  Boundary,     \* the ends of the disk that either clean-up zeroes, in sectors
  Table,        \* of RestoreSession
  Metadata,
  MaxBlank,
  MaxOdd        \* bound: sectors that are zero at first, and sectors that keep nothing

ASSUME ErasureAssumption ==
  /\ RestoreTail \in Nat /\ ZeroTail \in Nat /\ MaxWeak \in Nat
  /\ ChunkSize \in Nat \ {0} /\ Boundary \in Nat \ {0} /\ MaxBlank \in Nat /\ MaxOdd \in Nat
  /\ Table \subseteq 0..RestoreTail /\ 0 \in Table
  /\ Metadata \subseteq (0..RestoreTail) \ Table

VARIABLES
  kind,                                                     \* "fast-zero" or "restore"
  page, dirty, dur, weak, swap, alien,                      \* the disk, of BlockDevice
  pc, decision, peer,                                       \* of both
  rpc, cancelled, committed, packet, exited, report,        \* of both runners
  before, written, skipped, verified, cause,                \* of FastZeroSession
  control, requestSent, terminal, told, connected,          \* of FastZeroSession
  cursor, part, ppage, pdirty, stray                        \* of RestoreSession

zeroVars == <<before, written, skipped, verified, cause,
              control, requestSent, terminal, told, connected>>
restoreVars == <<cursor, part, ppage, pdirty, stray>>
sharedVars == <<pc, decision, peer, rpc, cancelled, committed, packet, exited, report>>
vars == <<kind, sharedVars, zeroVars, restoreVars, page, dirty, dur, weak, swap, alien>>

FastZero == INSTANCE FastZeroSession WITH TargetTail <- ZeroTail
Restore == INSTANCE RestoreSession WITH TargetTail <- RestoreTail

TypeOK == IF kind = "restore" THEN Restore!TypeOK ELSE FastZero!TypeOK

\* The variables of the one that does not run.
NoZero ==
  /\ before = "none" /\ written = {} /\ skipped = {} /\ verified = 0 /\ cause = "none"
  /\ control = "none" /\ requestSent = FALSE /\ terminal = "none" /\ told = "none"
  /\ connected = FALSE

NoRestore == cursor = 0 /\ part = FALSE /\ ppage = "none" /\ pdirty = {} /\ stray = "none"

Init ==
  /\ \/ kind = "fast-zero" /\ FastZero!Init /\ NoRestore
     \/ kind = "restore" /\ Restore!Init /\ NoZero
  /\ Cardinality(weak) + Cardinality({b \in DOMAIN dur : dur[b] = "zero"}) <= MaxOdd

FastZeroSteps == kind = "fast-zero" /\ FastZero!Next /\ UNCHANGED <<kind, restoreVars>>
RestoreSteps == kind = "restore" /\ Restore!Next /\ UNCHANGED <<kind, zeroVars>>

Next == FastZeroSteps \/ RestoreSteps

Spec == Init /\ [][Next]_vars

-----------------------------------------------------------------------------
(* Properties. *)

\* What is reported is true of the medium: a zeroed disk is zeroes only, a partial
\* result has verified ends and counters of completed chunks only, a restored disk is
\* the new layout on an erased disk; and after a cancellation, or an error without
\* COMMIT, the disk is untouched.
ReportIsTrue == IF kind = "restore" THEN Restore!ReportIsTrue ELSE FastZero!ReportIsTrue

\* A medium that took the place of the disk before the last look at its identity gets
\* nothing, by the clean-up as little as by the erasure.
ReplacementIsSpared ==
  IF kind = "restore" THEN Restore!ReplacementIsSpared ELSE FastZero!ReplacementIsSpared

\* Nothing of a new layout becomes durable on a disk that still shows old data; and the
\* runner outlives a helper that was told to commit: run() does not return while root
\* may still write.
ErasureIsOrdered ==
  IF kind = "restore" THEN Restore!ErasedBeforeNew /\ Restore!ReturnsLast
  ELSE FastZero!ReturnsLast
=============================================================================
