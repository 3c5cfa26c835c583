---------------------------- MODULE Application_proofs ----------------------------
(***************************************************************************)
(* The main window, for any number of jobs and of selected images.         *)
(*                                                                         *)
(* The attributes of the window belong to one operation at a time, and at  *)
(* every moment exactly one thing has a claim to them: a worker that runs, *)
(* the queued signal of one that ended, or an open dialog.  A handler that *)
(* takes a signal or an answer takes the claim with it: it must pass it on *)
(* (to a worker or a dialog), or reset every attribute and close what the  *)
(* job holds.  A question that no attribute refers to keeps all others     *)
(* away by being open.                                                     *)
(*                                                                         *)
(* The parts of the invariant are about a state given by its components,   *)
(* since a handler runs between two of them: after its signal or dialog is *)
(* gone, and before it has done anything.                                  *)
(***************************************************************************)
EXTENDS Application, FiniteSetTheorems, SequenceTheorems, WellFoundedInduction, TLAPS

Fields == OperationFields \cup WorkspaceFields \cup {"pending_iso_write", "zip_overlay_preparer"}

\* The attributes of the operation; the planner of an overlay is none.
Live(refs) == DOMAIN refs \ {"zip_overlay_preparer"}

Owns(refs, s, fields) == Live(refs) = fields /\ \A f \in fields : refs[f] = s
Mine(refs, s) == \A f \in Live(refs) : refs[f] = s

\* The attributes of a job of this kind, while it is prepared and afterwards.
Holding(kind, early) ==
  CASE kind = "raw"         -> {"raw_workflow"}
    [] kind = "fast_zero"   -> {"fast_zero_workflow"}
    [] kind = "restore"     -> {"restore_workflow"}
    [] kind = "grub"        -> {"grub_rescue_workflow"}
    [] kind = "backup"      -> {"imager"}
    [] kind = "format"      -> {"formatter"}
    [] kind = "erase"       -> {"eraser"}
    [] kind = "optical"     -> {"optical_runner"}
    [] kind = "media"       -> {"media_runner"}
    [] kind = "extract"     -> {"extractor"}
    [] kind = "linux"       -> {"linux_downloader"}
    [] kind = "freedos"     -> {"freedos_downloader"}
    [] kind = "windows"     -> {"windows_downloader"}
    [] kind = "checksums"   -> {"checksum_preparer"}
    [] kind = "editions"    -> {"windows_wim_extractor"}
    [] kind = "iso"         -> {"iso_staging_preparer"}
    [] kind = "shell"       -> IF early THEN {"uefi_shell_preparer"}
                               ELSE {"uefi_shell_workspace", "constructed_writer"}
    [] kind = "uefi"        -> IF early THEN {"pending_iso_write", "uefi_preparer"}
                               ELSE {"iso_workspace", "iso_stager", "uefi_ntfs_writer"}
    [] kind = "casper"      -> IF early THEN {"pending_iso_write", "casper_preparer"}
                               ELSE {"iso_workspace", "iso_stager", "casper_stager",
                                     "casper_writer"}
    [] kind = "constructed" -> {"iso_workspace", "iso_stager", "constructed_writer"}
    [] kind = "syslinux"    -> {"pending_iso_write", "syslinux_workflow"}
    [] kind = "dual"        -> {"pending_iso_write", "iso_workspace", "windows_device_runner"}
                                 \cup IF early THEN {"iso_stager"} ELSE {}
    [] OTHER                -> {"none"}

\* The kinds that have something to close, those whose worker stages and writes, and all.
OpenKinds == {"raw", "fast_zero", "restore", "grub", "shell", "iso", "uefi", "casper",
              "constructed", "syslinux", "dual"}
LateKinds == IsoRoutes \cup {"shell"}
Kinds == OpenKinds \cup Simple \cup Downloads \cup OfImage \cup {"media", "none"}
Late == {"stage", "review", "write"}
Steps == {"none", "prepare", "confirm", "execute", "work"} \cup Late
JobRecord ==
  [kind : Kinds, image : Nat, overlay : BOOLEAN, step : Steps, cancelled : BOOLEAN,
   open : BOOLEAN, review : {"none", "asked", "accepted", "declined", "stale"}]

\* The questions of a job to which attributes refer, and of one to which none does.
RefQuestions == {"raw", "fast_zero", "restore", "grub", "syslinux", "dual"}
FreeQuestions == {"shell", "uefi_helper", "iso_write"}
Questions == RefQuestions \cup FreeQuestions
Boxes == {"notice", "image", "downloaded", "close", "close_inspecting"}
AskRecord ==
  [ask : Starters \cup Boxes, job : {0}, no : BOOLEAN]
    \cup [ask : Questions \cup {"dbx"}, job : Slots, no : BOOLEAN]

\* The signals with which a worker ends, and all.
Endings == {"prepared", "executed", "result", "finished", "media_finished"}
SignalRecord ==
  [to : Endings \cup {"dbx_requested"}, job : Slots, outcome : {"ok", "failed", "cancelled"}]
    \cup [to : {"inspection_finished", "inspection_worker_finished"}, job : {0}, outcome : Nat]

HeldIn(s, refs, as, sg) ==
  \/ \E f \in DOMAIN refs : refs[f] = s
  \/ \E i \in DOMAIN as : as[i].job = s
  \/ \E i \in DOMAIN sg : sg[i].job = s

Tidy(js, refs, as, sg) ==
  [s \in Slots |-> IF HeldIn(s, refs, as, sg) \/ js[s].step # "none" \/ js[s].open
                   THEN js[s] ELSE NoJob]

\* A cancelled checksum is forgotten while its worker runs, and a planner is no operation.
Exempt(job) == job.kind = "overlay" \/ (job.kind = "checksums" /\ job.cancelled)

Typed(js, refs, as, sg, by) ==
  /\ js \in [Slots -> JobRecord]
  /\ DOMAIN refs \subseteq Fields /\ \A f \in DOMAIN refs : refs[f] \in Slots
  /\ as \in Seq(AskRecord) /\ sg \in Seq(SignalRecord) /\ by \in BOOLEAN
  /\ \A s \in Slots : js[s].step \in Late => js[s].kind \in LateKinds
  /\ \A i \in DOMAIN sg :
       /\ sg[i].to = "finished" => js[sg[i].job].kind \in Simple \cup {"media"} \cup LateKinds
       /\ sg[i].to = "media_finished" => js[sg[i].job].kind = "media"

Attributes(refs, by) ==
  /\ Live(refs) # {} => Live(refs) \cap OperationFields # {} /\ by
  /\ "checksum_preparer" \in Live(refs) => Live(refs) = {"checksum_preparer"}

\* The three claims to the attributes.
Working(js, refs) ==
  \A s \in Slots : js[s].step # "none" /\ ~Exempt(js[s])
                     => Owns(refs, s, Holding(js[s].kind, js[s].step = "prepare"))

Awaited(js, refs, sg) ==
  \A i \in DOMAIN sg : sg[i].to \in Endings /\ ~Exempt(js[sg[i].job])
                         => Owns(refs, sg[i].job,
                                 Holding(js[sg[i].job].kind, sg[i].to = "prepared"))

Asked(js, refs, as) ==
  \A i \in DOMAIN as :
    /\ as[i].ask \in RefQuestions =>
         js[as[i].job].kind = as[i].ask /\ Owns(refs, as[i].job, Holding(as[i].ask, FALSE))
    /\ as[i].ask \in FreeQuestions => Live(refs) = {} /\ js[as[i].job].kind \in LateKinds
    /\ as[i].ask = "shell" => js[as[i].job].kind = "shell" /\ ~js[as[i].job].cancelled
    /\ as[i].ask \in {"uefi_helper", "iso_write"} => js[as[i].job].kind \in IsoRoutes

\* A job has one of them at most.
OneQuestion(as) ==
  \A i, j \in DOMAIN as : as[i].ask \in Questions /\ as[j].ask \in Questions => i = j
OneEnding(sg) ==
  \A i, j \in DOMAIN sg :
    sg[i].to \in Endings /\ sg[j].to \in Endings /\ sg[i].job = sg[j].job => i = j
Apart(as, sg) ==
  \A i \in DOMAIN sg : \A j \in DOMAIN as :
    sg[i].to \in Endings /\ as[j].ask \in Questions => sg[i].job # as[j].job
Resting(js, as, sg) ==
  /\ \A i \in DOMAIN sg : sg[i].to \in Endings => js[sg[i].job].step = "none"
  /\ \A j \in DOMAIN as : as[j].ask \in Questions => js[as[j].job].step = "none"

Once(js, as, sg) == OneQuestion(as) /\ OneEnding(sg) /\ Apart(as, sg) /\ Resting(js, as, sg)

\* While a starter asks, nothing else has begun, and there is room for its job.
Starting(js, refs, as, sg) ==
  \A i \in DOMAIN as : as[i].ask \in Starters =>
    /\ i = 1 /\ Live(refs) = {}
    /\ \E s \in Slots : js[s] = NoJob /\ ~HeldIn(s, refs, as, sg)
    /\ \A j \in DOMAIN as : as[j].ask \notin Questions

Overlays(js, refs) ==
  /\ "zip_overlay_preparer" \in DOMAIN refs => js[refs["zip_overlay_preparer"]].kind = "overlay"
  /\ \A s \in Slots : js[s].kind = "overlay" /\ js[s].step # "none" /\ ~js[s].cancelled
                        => Refers(refs, "zip_overlay_preparer", s)

\* What is open has a claim, but for the job whose claim a handler holds.
OpenExcept(js, as, sg, lost) ==
  \A s \in Slots : js[s].open =>
    /\ js[s].kind \in OpenKinds
    /\ s \notin lost => \/ js[s].step # "none"
                        \/ \E i \in DOMAIN sg : sg[i].to \in Endings /\ sg[i].job = s
                        \/ \E i \in DOMAIN as : as[i].ask \in Questions /\ as[i].job = s

Shut(js, win) == win = "closed" => \A s \in Slots : js[s].step # "none" => js[s].cancelled

Most(js, refs, as, sg, by, win) ==
  /\ Typed(js, refs, as, sg, by) /\ Attributes(refs, by) /\ Working(js, refs)
  /\ Awaited(js, refs, sg)
  /\ Asked(js, refs, as) /\ Once(js, as, sg) /\ Starting(js, refs, as, sg) /\ Overlays(js, refs)
  /\ Shut(js, win)

Safe(js, refs, as, sg, by, win) == Most(js, refs, as, sg, by, win) /\ OpenExcept(js, as, sg, {})

IInv == Safe(jobs, owner, asks, signals, busy, window)

\* The job has no claim.
Quiet(js, as, sg, s) ==
  /\ js[s].step = "none"
  /\ \A i \in DOMAIN sg : sg[i].to \in Endings => sg[i].job # s
  /\ \A i \in DOMAIN as : as[i].ask \in Questions => as[i].job # s

\* No question is open.
Clear(as) == \A i \in DOMAIN as : as[i].ask \notin Questions \cup Starters

\* A handler has taken the signal or the dialog of the job.
Handled(js, refs, as, sg, by, win, s) ==
  /\ Most(js, refs, as, sg, by, win) /\ OpenExcept(js, as, sg, {s})
  /\ Quiet(js, as, sg, s) /\ Clear(as) /\ Mine(refs, s) /\ s \in Slots
  /\ js[s].kind # "overlay"
-----------------------------------------------------------------------------
(* The data. *)

\* A free slot holds nothing and nobody works on it.
LEMMA NoJobTyped == NoJob \in JobRecord /\ NoJob.step = "none" /\ ~NoJob.open
BY DEF NoJob, JobRecord, Kinds, OpenKinds, Steps

\* No job has the number 0, which the dialogs and signals of no job bear.
LEMMA SlotsTyped == Slots \subseteq Nat /\ 0 \notin Slots /\ IsFiniteSet(Slots)
BY BoundsAssumption, FS_Interval DEF Slots

\* There is a first free slot.
LEMMA First ==
  ASSUME NEW F, F # {}, F \subseteq Nat
  PROVE  \E x \in F : \A y \in F : x <= y
<1> DEFINE R == {ss \in Nat \X Nat : ss[1] < ss[2]}
<1>1. OpToRel(<, Nat) = R
  BY DEF OpToRel
<1>2. IsWellFoundedOn(R, Nat)
  BY <1>1, NatLessThanWellFounded, Zenon
<1>3. PICK x \in F : \A y \in F : ~(<<y, x>> \in R)
  <2> HIDE DEF R
  <2>1. QED BY <1>2, WFMin
<1>4. ASSUME NEW y \in F PROVE x <= y
  <2>1. y \in Nat /\ x \in Nat /\ ~(<<y, x>> \in R)
    BY <1>3
  <2>2. y < x => <<y, x>> \in R
    BY <2>1
  <2>3. QED BY <2>1, <2>2
<1>5. QED BY <1>4

\* The slot that is chosen for a new job is one that nothing refers to.
LEMMA FreeSlotIsFree ==
  ASSUME FreeSlots # {}
  PROVE  FreeSlot \in Slots /\ jobs[FreeSlot] = NoJob /\ ~Held(FreeSlot)
<1>1. FreeSlots \subseteq Nat
  BY SlotsTyped DEF FreeSlots
<1>2. PICK x \in FreeSlots : \A y \in FreeSlots : x <= y
  BY <1>1, First
<1>3. QED BY <1>2 DEF FreeSlot, FreeSlots

\* What a queue holds is of its type.
LEMMA Elements ==
  ASSUME NEW S, NEW q \in Seq(S)
  PROVE  \A i \in DOMAIN q : q[i] \in S
OBVIOUS

Grows(q, p, e) ==
  /\ DOMAIN q \subseteq DOMAIN p /\ \A i \in DOMAIN q : p[i] = q[i]
  /\ \A i \in DOMAIN p : i \in DOMAIN q \/ (i = Len(q) + 1 /\ p[i] = e)
  /\ Len(q) + 1 \in DOMAIN p /\ p[Len(q) + 1] = e

\* A dialog that is opened, or a signal that is queued, comes last.
LEMMA Pushed ==
  ASSUME NEW S, NEW q \in Seq(S), NEW e \in S
  PROVE  Append(q, e) \in Seq(S) /\ Grows(q, Append(q, e), e)
BY DEF Grows

\* The innermost dialog is taken away; the others stay where they are.
LEMMA Popped ==
  ASSUME NEW S, NEW q \in Seq(S), q # <<>>
  PROVE  /\ Front(q) \in Seq(S) /\ Len(q) \in DOMAIN q /\ Last(q) = q[Len(q)] /\ Last(q) \in S
         /\ DOMAIN Front(q) = DOMAIN q \ {Len(q)}
         /\ \A i \in DOMAIN Front(q) : Front(q)[i] = q[i]
<1>1. Len(q) \in Nat \ {0}
  BY EmptySeq
<1>2. Front(q) = [i \in 1..(Len(q) - 1) |-> q[i]]
  BY <1>1 DEF Front
<1>3. Front(q) \in Seq(S) /\ DOMAIN Front(q) = 1..(Len(q) - 1)
  BY <1>1, <1>2
<1>4. QED BY <1>1, <1>2, <1>3 DEF Last

\* The first signal is taken; the others move up.
LEMMA Taken ==
  ASSUME NEW S, NEW q \in Seq(S), q # <<>>
  PROVE  /\ Tail(q) \in Seq(S) /\ 1 \in DOMAIN q /\ Head(q) = q[1] /\ Head(q) \in S
         /\ \A i \in DOMAIN Tail(q) : i + 1 \in DOMAIN q /\ i + 1 # 1 /\ Tail(q)[i] = q[i + 1]
         /\ \A i \in DOMAIN q : i # 1 => i - 1 \in DOMAIN Tail(q) /\ Tail(q)[i - 1] = q[i]
<1>1. Len(q) \in Nat \ {0}
  BY EmptySeq
<1>2. QED BY <1>1, HeadTailProperties

\* What a job holds are attributes of an operation; a checksum holds its own only; and
\* on_finished resets all that is held by another kind than a checksum or a download.
LEMMA HoldingFacts ==
  ASSUME NEW kind \in Kinds, NEW early \in BOOLEAN
  PROVE  /\ Holding(kind, early) # {}
         /\ kind \notin {"overlay", "none"} =>
              /\ Holding(kind, early) \subseteq Fields \ {"zip_overlay_preparer"}
              /\ Holding(kind, early) \cap OperationFields # {}
         /\ "checksum_preparer" \in Holding(kind, early) =>
              kind = "checksums" /\ Holding(kind, early) = {"checksum_preparer"}
         /\ kind \notin Downloads \cup {"checksums", "overlay", "none"} =>
              Holding(kind, early) \subseteq FinishedFields
<1> USE DEF Holding, Fields, OperationFields, WorkspaceFields, FinishedFields, Downloads
<1>1. CASE kind = "raw"
  BY <1>1
<1>2. CASE kind = "fast_zero"
  BY <1>2
<1>3. CASE kind = "restore"
  BY <1>3
<1>4. CASE kind = "grub"
  BY <1>4
<1>5. CASE kind = "backup"
  BY <1>5
<1>6. CASE kind = "format"
  BY <1>6
<1>7. CASE kind = "erase"
  BY <1>7
<1>8. CASE kind = "optical"
  BY <1>8
<1>9. CASE kind = "media"
  BY <1>9
<1>10. CASE kind = "extract"
  BY <1>10
<1>11. CASE kind = "linux"
  BY <1>11
<1>12. CASE kind = "freedos"
  BY <1>12
<1>13. CASE kind = "windows"
  BY <1>13
<1>14. CASE kind = "checksums"
  BY <1>14
<1>15. CASE kind = "editions"
  BY <1>15
<1>16. CASE kind = "iso"
  BY <1>16
<1>17. CASE kind = "shell"
  BY <1>17
<1>18. CASE kind = "uefi"
  BY <1>18
<1>19. CASE kind = "casper"
  BY <1>19
<1>20. CASE kind = "constructed"
  BY <1>20
<1>21. CASE kind = "syslinux"
  BY <1>21
<1>22. CASE kind = "dual"
  BY <1>22
<1>23. CASE kind = "overlay"
  BY <1>23
<1>24. CASE kind = "none"
  BY <1>24
<1>25. QED BY <1>1, <1>2, <1>3, <1>4, <1>5, <1>6, <1>7, <1>8, <1>9, <1>10, <1>11, <1>12, <1>13,
  <1>14, <1>15, <1>16, <1>17, <1>18, <1>19, <1>20, <1>21, <1>22, <1>23, <1>24
  DEF Kinds, OpenKinds, Simple, OfImage

-----------------------------------------------------------------------------
(* The dialogs and the signals. *)

\* Which entries of the two sequences are about a job.
LEMMA Entries ==
  ASSUME NEW as \in Seq(AskRecord), NEW sg \in Seq(SignalRecord)
  PROVE  /\ \A i \in DOMAIN as :
              /\ as[i] \in AskRecord
              /\ as[i].ask \in Questions \cup {"dbx"} => as[i].job \in Slots
              /\ as[i].ask \in Starters \cup Boxes => as[i].job = 0
         /\ \A i \in DOMAIN sg :
              /\ sg[i] \in SignalRecord
              /\ sg[i].to \in Endings \cup {"dbx_requested"} => sg[i].job \in Slots
<1>1. ASSUME NEW i \in DOMAIN as
      PROVE  /\ as[i] \in AskRecord
             /\ as[i].ask \in Questions \cup {"dbx"} => as[i].job \in Slots
             /\ as[i].ask \in Starters \cup Boxes => as[i].job = 0
  <2>1. as[i] \in AskRecord
    BY Elements
  <2>2. PICK a \in AskRecord : a = as[i]
    BY <2>1
  <2>3. (Questions \cup {"dbx"}) \cap (Starters \cup Boxes) = {}
    BY DEF Questions, RefQuestions, FreeQuestions, Starters, Boxes
  <2>4. \/ a.ask \in Starters \cup Boxes /\ a.job = 0
        \/ a.ask \in Questions \cup {"dbx"} /\ a.job \in Slots
    BY DEF AskRecord
  <2>5. QED BY <2>2, <2>3, <2>4
<1>2. ASSUME NEW i \in DOMAIN sg
      PROVE  sg[i] \in SignalRecord
               /\ (sg[i].to \in Endings \cup {"dbx_requested"} => sg[i].job \in Slots)
  <2>1. sg[i] \in SignalRecord
    BY Elements
  <2>2. PICK m \in SignalRecord : m = sg[i]
    BY <2>1
  <2>3. (Endings \cup {"dbx_requested"})
          \cap {"inspection_finished", "inspection_worker_finished"} = {}
    BY DEF Endings
  <2>4. \/ m.to \in Endings \cup {"dbx_requested"} /\ m.job \in Slots
        \/ m.to \in {"inspection_finished", "inspection_worker_finished"}
    BY DEF SignalRecord
  <2>5. QED BY <2>2, <2>3, <2>4
<1>3. QED BY <1>1, <1>2

\* A job to which nothing refers, and which holds nothing, can be forgotten.
LEMMA TidyIsSafe ==
  ASSUME NEW js, NEW refs, NEW as, NEW sg, NEW by, NEW win,
         Safe(js, refs, as, sg, by, win)
  PROVE  Safe(Tidy(js, refs, as, sg), refs, as, sg, by, win)
<1>1. /\ Typed(js, refs, as, sg, by) /\ Attributes(refs, by) /\ Working(js, refs)
      /\ Awaited(js, refs, sg)
      /\ Asked(js, refs, as) /\ Once(js, as, sg) /\ Starting(js, refs, as, sg) /\ Overlays(js, refs)
      /\ Shut(js, win) /\ OpenExcept(js, as, sg, {})
  BY DEF Safe, Most
<1>2. js \in [Slots -> JobRecord] /\ as \in Seq(AskRecord) /\ sg \in Seq(SignalRecord)
  BY <1>1 DEF Typed
<1>3. PICK ks : ks = Tidy(js, refs, as, sg)
  OBVIOUS
<1>4. /\ ks \in [Slots -> JobRecord]
      /\ \A s \in Slots : \/ ks[s] = js[s]
                          \/ ks[s] = NoJob /\ ~HeldIn(s, refs, as, sg) /\ js[s].step = "none"
                               /\ ~js[s].open
  BY <1>2, <1>3, NoJobTyped DEF Tidy
<1>5. \A i \in DOMAIN sg : sg[i].to \in Endings => sg[i].job \in Slots
        /\ ks[sg[i].job] = js[sg[i].job]
  BY <1>2, <1>4, Entries DEF HeldIn
<1>6. \A i \in DOMAIN as : as[i].ask \in Questions => as[i].job \in Slots
        /\ ks[as[i].job] = js[as[i].job]
  BY <1>2, <1>4, Entries DEF HeldIn
<1>7. \A f \in DOMAIN refs : refs[f] \in Slots /\ ks[refs[f]] = js[refs[f]]
  BY <1>1, <1>4 DEF HeldIn, Typed
<1>8. \A s \in Slots : ks[s].step # "none" \/ ks[s].open => ks[s] = js[s]
  BY <1>4, NoJobTyped
<1>9. Typed(ks, refs, as, sg, by)
  <2>1. \A s \in Slots : ks[s].step \in Late => ks[s].kind \in LateKinds
    BY <1>1, <1>8 DEF Typed, Late
  <2>2. "finished" \in Endings /\ "media_finished" \in Endings
    BY DEF Endings
  <2>3. QED BY <1>1, <1>4, <1>5, <2>1, <2>2 DEF Typed
<1>10. Working(ks, refs)
  BY <1>1, <1>8 DEF Working
<1>11. Awaited(ks, refs, sg)
  BY <1>1, <1>5 DEF Awaited
<1>12. Asked(ks, refs, as)
  BY <1>1, <1>6 DEF Asked, Questions, FreeQuestions
<1>13. Once(ks, as, sg)
  BY <1>1, <1>5, <1>6 DEF Once, Resting
<1>14. Starting(ks, refs, as, sg)
  <2>1. \A s \in Slots : js[s] = NoJob => ks[s] = NoJob
    BY <1>4
  <2>2. QED BY <1>1, <2>1 DEF Starting
<1>15. Overlays(ks, refs)
  BY <1>1, <1>7, <1>8 DEF Overlays
<1>16. Shut(ks, win)
  BY <1>1, <1>8 DEF Shut
<1>17. OpenExcept(ks, as, sg, {})
  BY <1>1, <1>8 DEF OpenExcept
<1>18. QED BY <1>1, <1>3, <1>9, <1>10, <1>11, <1>12, <1>13, <1>14, <1>15, <1>16, <1>17
  DEF Safe, Most

\* A box or the dialog of a review is opened.
LEMMA BoxIsSafe ==
  ASSUME NEW js, NEW refs, NEW as, NEW sg, NEW by, NEW win, NEW a \in AskRecord,
         Safe(js, refs, as, sg, by, win), a.ask \in Boxes \cup {"dbx"},
         a.job \in Slots => js[a.job] # NoJob
  PROVE  Safe(js, refs, Append(as, a), sg, by, win)
<1>1. /\ Typed(js, refs, as, sg, by) /\ Attributes(refs, by) /\ Working(js, refs)
      /\ Awaited(js, refs, sg)
      /\ Asked(js, refs, as) /\ Once(js, as, sg) /\ Starting(js, refs, as, sg) /\ Overlays(js, refs)
      /\ Shut(js, win) /\ OpenExcept(js, as, sg, {})
  BY DEF Safe, Most
<1>2. as \in Seq(AskRecord) /\ sg \in Seq(SignalRecord)
  BY <1>1 DEF Typed
<1>3. PICK bs : bs = Append(as, a)
  OBVIOUS
<1>4. bs \in Seq(AskRecord) /\ Grows(as, bs, a)
  BY <1>2, <1>3, Pushed
<1>5. /\ DOMAIN as \subseteq DOMAIN bs /\ \A i \in DOMAIN as : bs[i] = as[i]
      /\ \A i \in DOMAIN bs : i \in DOMAIN as \/ bs[i] = a
  BY <1>4 DEF Grows
<1>6. a.ask \notin Questions \cup Starters
  BY DEF Boxes, Questions, RefQuestions, FreeQuestions, Starters
<1>7. \A i \in DOMAIN bs : bs[i].ask \in Questions \cup Starters => i \in DOMAIN as /\ bs[i] = as[i]
  BY <1>5, <1>6
<1>8. Typed(js, refs, bs, sg, by)
  BY <1>1, <1>4 DEF Typed
<1>9. Asked(js, refs, bs)
  <2>1. RefQuestions \subseteq Questions /\ FreeQuestions \subseteq Questions
          /\ {"shell", "uefi_helper", "iso_write"} \subseteq Questions
    BY DEF Questions, FreeQuestions
  <2>2. QED BY <1>1, <1>7, <2>1 DEF Asked
<1>10. Once(js, bs, sg)
  <2>1. OneQuestion(bs)
    BY <1>1, <1>7 DEF Once, OneQuestion
  <2>2. Apart(bs, sg)
    BY <1>1, <1>7 DEF Once, Apart
  <2>3. Resting(js, bs, sg)
    BY <1>1, <1>7 DEF Once, Resting
  <2>4. QED BY <1>1, <2>1, <2>2, <2>3 DEF Once
<1>11. Starting(js, refs, bs, sg)
  <2>1. ASSUME NEW i \in DOMAIN bs, bs[i].ask \in Starters
        PROVE  /\ i = 1 /\ Live(refs) = {}
               /\ \E s \in Slots : js[s] = NoJob /\ ~HeldIn(s, refs, bs, sg)
               /\ \A j \in DOMAIN bs : bs[j].ask \notin Questions
    <3>1. i \in DOMAIN as /\ as[i].ask \in Starters
      BY <1>7, <2>1
    <3>2. /\ i = 1 /\ Live(refs) = {} /\ \A j \in DOMAIN as : as[j].ask \notin Questions
      BY <1>1, <3>1 DEF Starting
    <3>3. PICK s \in Slots : js[s] = NoJob /\ ~HeldIn(s, refs, as, sg)
      BY <1>1, <3>1 DEF Starting
    <3>4. ~HeldIn(s, refs, bs, sg)
      BY <1>5, <3>3 DEF HeldIn
    <3>5. QED BY <1>7, <3>2, <3>3, <3>4
  <2>2. QED BY <2>1 DEF Starting
<1>12. OpenExcept(js, bs, sg, {})
  <2>1. \A s \in Slots : (\E i \in DOMAIN as : as[i].ask \in Questions /\ as[i].job = s)
          => \E i \in DOMAIN bs : bs[i].ask \in Questions /\ bs[i].job = s
    BY <1>5
  <2>2. QED BY <1>1, <2>1 DEF OpenExcept
<1>13. QED BY <1>1, <1>3, <1>8, <1>9, <1>10, <1>11, <1>12 DEF Safe, Most

\* A dialog that is no question of a job, or a signal that ends no worker, takes no claim.
LEMMA FrontIsMost ==
  ASSUME NEW js, NEW refs, NEW as, NEW sg, NEW by, NEW win,
         Most(js, refs, as, sg, by, win), as # <<>>
  PROVE  Most(js, refs, Front(as), sg, by, win)
<1>1. /\ Typed(js, refs, as, sg, by) /\ Attributes(refs, by) /\ Working(js, refs)
      /\ Awaited(js, refs, sg)
      /\ Asked(js, refs, as) /\ Once(js, as, sg) /\ Starting(js, refs, as, sg) /\ Overlays(js, refs)
      /\ Shut(js, win)
  BY DEF Most
<1>2. as \in Seq(AskRecord) /\ sg \in Seq(SignalRecord)
  BY <1>1 DEF Typed
<1>3. PICK bs \in Seq(AskRecord) : bs = Front(as)
  BY <1>2, Popped
<1>4. DOMAIN bs \subseteq DOMAIN as /\ \A i \in DOMAIN bs : bs[i] = as[i]
  BY <1>2, <1>3, Popped
<1>5. Typed(js, refs, bs, sg, by)
  BY <1>1, <1>3 DEF Typed
<1>6. Asked(js, refs, bs)
  BY <1>1, <1>4 DEF Asked
<1>7. Once(js, bs, sg)
  <2>1. OneQuestion(bs)
    BY <1>1, <1>4 DEF Once, OneQuestion
  <2>2. Apart(bs, sg)
    BY <1>1, <1>4 DEF Once, Apart
  <2>3. Resting(js, bs, sg)
    BY <1>1, <1>4 DEF Once, Resting
  <2>4. QED BY <1>1, <2>1, <2>2, <2>3 DEF Once
<1>8. Starting(js, refs, bs, sg)
  <2>1. \A s \in Slots : HeldIn(s, refs, bs, sg) => HeldIn(s, refs, as, sg)
    BY <1>4 DEF HeldIn
  <2>2. QED BY <1>1, <1>4, <2>1 DEF Starting
<1>9. QED BY <1>1, <1>3, <1>5, <1>6, <1>7, <1>8 DEF Most

\* A signal is taken; what it claimed is left to its handler.
LEMMA TailIsMost ==
  ASSUME NEW js, NEW refs, NEW as, NEW sg, NEW by, NEW win,
         Most(js, refs, as, sg, by, win), sg # <<>>
  PROVE  Most(js, refs, as, Tail(sg), by, win)
<1>1. /\ Typed(js, refs, as, sg, by) /\ Attributes(refs, by) /\ Working(js, refs)
      /\ Awaited(js, refs, sg)
      /\ Asked(js, refs, as) /\ Once(js, as, sg) /\ Starting(js, refs, as, sg) /\ Overlays(js, refs)
      /\ Shut(js, win)
  BY DEF Most
<1>2. as \in Seq(AskRecord) /\ sg \in Seq(SignalRecord)
  BY <1>1 DEF Typed
<1>3. PICK tl \in Seq(SignalRecord) : tl = Tail(sg)
  BY <1>2, Taken
<1>4. \A i \in DOMAIN tl : i + 1 \in DOMAIN sg /\ tl[i] = sg[i + 1]
  BY <1>2, <1>3, Taken
<1>5. Typed(js, refs, as, tl, by)
  BY <1>1, <1>3, <1>4 DEF Typed
<1>6. Awaited(js, refs, tl)
  BY <1>1, <1>4 DEF Awaited
<1>7. Once(js, as, tl)
  <2>1. OneEnding(tl)
    <3>1. ASSUME NEW i \in DOMAIN tl, NEW j \in DOMAIN tl, tl[i].to \in Endings,
                   tl[j].to \in Endings,
                 tl[i].job = tl[j].job
          PROVE  i = j
      <4>1. i + 1 = j + 1
        BY <1>1, <1>4, <3>1 DEF Once, OneEnding
      <4>2. i \in Nat /\ j \in Nat
        OBVIOUS
      <4>3. QED BY <4>1, <4>2
    <3>2. QED BY <3>1 DEF OneEnding
  <2>2. Apart(as, tl)
    BY <1>1, <1>4 DEF Once, Apart
  <2>3. Resting(js, as, tl)
    BY <1>1, <1>4 DEF Once, Resting
  <2>4. QED BY <1>1, <2>1, <2>2, <2>3 DEF Once
<1>8. Starting(js, refs, as, tl)
  <2>1. \A s \in Slots : HeldIn(s, refs, as, tl) => HeldIn(s, refs, as, sg)
    BY <1>4 DEF HeldIn
  <2>2. QED BY <1>1, <2>1 DEF Starting
<1>9. QED BY <1>1, <1>3, <1>5, <1>6, <1>7, <1>8 DEF Most

\* A dialog is answered that is the question of no job: nothing is claimed by it.
LEMMA BoxTaken ==
  ASSUME NEW js, NEW refs, NEW as, NEW sg, NEW by, NEW win,
         Safe(js, refs, as, sg, by, win), as # <<>>, Last(as).ask \notin Questions
  PROVE  Safe(js, refs, Front(as), sg, by, win)
<1>1. Most(js, refs, as, sg, by, win) /\ OpenExcept(js, as, sg, {})
  BY DEF Safe
<1>2. as \in Seq(AskRecord)
  BY <1>1 DEF Most, Typed
<1>3. PICK bs : bs = Front(as)
  OBVIOUS
<1>4. \A i \in DOMAIN as : as[i].ask \in Questions => i \in DOMAIN bs /\ bs[i] = as[i]
  BY <1>2, <1>3, Popped
<1>5. \A s \in Slots : (\E i \in DOMAIN as : as[i].ask \in Questions /\ as[i].job = s)
        => \E i \in DOMAIN bs : bs[i].ask \in Questions /\ bs[i].job = s
  BY <1>4
<1>6. OpenExcept(js, bs, sg, {})
  BY <1>1, <1>5 DEF OpenExcept
<1>7. QED BY <1>1, <1>3, <1>6, FrontIsMost DEF Safe

\* A signal is taken that ends no worker, or the worker of a job that holds nothing.
LEMMA MessageTaken ==
  ASSUME NEW js, NEW refs, NEW as, NEW sg, NEW by, NEW win,
         Safe(js, refs, as, sg, by, win), sg # <<>>,
         Head(sg).to \notin Endings \/ ~js[Head(sg).job].open
  PROVE  Safe(js, refs, as, Tail(sg), by, win)
<1>1. Most(js, refs, as, sg, by, win) /\ OpenExcept(js, as, sg, {})
  BY DEF Safe
<1>2. sg \in Seq(SignalRecord)
  BY <1>1 DEF Most, Typed
<1>3. PICK tl : tl = Tail(sg)
  OBVIOUS
<1>4. Head(sg) = sg[1] /\ \A i \in DOMAIN sg : i # 1 => i - 1 \in DOMAIN tl /\ tl[i - 1] = sg[i]
  BY <1>2, <1>3, Taken
<1>5. \A s \in Slots : js[s].open /\ (\E i \in DOMAIN sg : sg[i].to \in Endings /\ sg[i].job = s)
        => \E i \in DOMAIN tl : tl[i].to \in Endings /\ tl[i].job = s
  BY <1>4
<1>6. OpenExcept(js, as, tl, {})
  BY <1>1, <1>5 DEF OpenExcept
<1>7. QED BY <1>1, <1>3, <1>6, TailIsMost DEF Safe

\* The question of a job takes its claim, and so does the signal of its worker.
LEMMA QuestionTaken ==
  ASSUME NEW js, NEW refs, NEW as, NEW sg, NEW by, NEW win,
         Safe(js, refs, as, sg, by, win), as # <<>>, Last(as).ask \in Questions
  PROVE  Handled(js, refs, Front(as), sg, by, win, Last(as).job)
<1>1. /\ Typed(js, refs, as, sg, by) /\ Attributes(refs, by) /\ Working(js, refs)
      /\ Awaited(js, refs, sg)
      /\ Asked(js, refs, as) /\ Once(js, as, sg) /\ Starting(js, refs, as, sg) /\ Overlays(js, refs)
      /\ Shut(js, win) /\ OpenExcept(js, as, sg, {}) /\ Most(js, refs, as, sg, by, win)
  BY DEF Safe, Most
<1>2. as \in Seq(AskRecord) /\ sg \in Seq(SignalRecord)
  BY <1>1 DEF Typed
<1>3. PICK bs : bs = Front(as)
  OBVIOUS
<1>4. PICK n \in DOMAIN as : n = Len(as) /\ as[n] = Last(as)
  BY <1>2, Popped
<1>5. DOMAIN bs = DOMAIN as \ {n} /\ \A i \in DOMAIN bs : bs[i] = as[i]
  BY <1>2, <1>3, <1>4, Popped
<1>6. PICK s : s = as[n].job
  OBVIOUS
<1>7. as[n].ask \in Questions /\ s \in Slots
  BY <1>2, <1>4, <1>6, Entries
<1>8. \A i \in DOMAIN bs : bs[i].ask \notin Questions
  BY <1>1, <1>5, <1>7 DEF Once, OneQuestion
<1>9. \A i \in DOMAIN bs : bs[i].ask \notin Starters
  BY <1>1, <1>5, <1>7 DEF Starting
<1>10. Clear(bs)
  BY <1>8, <1>9 DEF Clear
<1>11. Quiet(js, bs, sg, s)
  <2>1. js[s].step = "none"
    BY <1>1, <1>6, <1>7 DEF Once, Resting
  <2>2. \A i \in DOMAIN sg : sg[i].to \in Endings => sg[i].job # s
    BY <1>1, <1>6, <1>7 DEF Once, Apart
  <2>3. QED BY <1>8, <2>1, <2>2 DEF Quiet
<1>12. OpenExcept(js, bs, sg, {s})
  <2>1. \A t \in Slots : t # s /\ (\E i \in DOMAIN as : as[i].ask \in Questions /\ as[i].job = t)
          => \E i \in DOMAIN bs : bs[i].ask \in Questions /\ bs[i].job = t
    BY <1>5, <1>6
  <2>2. QED BY <1>1, <2>1 DEF OpenExcept
<1>13. Mine(refs, s) /\ js[s].kind # "overlay"
  <2>1. CASE as[n].ask \in RefQuestions
    <3>1. js[s].kind = as[n].ask /\ Owns(refs, s, Holding(as[n].ask, FALSE))
      BY <1>1, <1>6, <2>1 DEF Asked
    <3>2. QED BY <2>1, <3>1 DEF Owns, Mine, RefQuestions
  <2>2. CASE as[n].ask \in FreeQuestions
    <3>1. Live(refs) = {} /\ js[s].kind \in LateKinds
      BY <1>1, <1>6, <2>2 DEF Asked
    <3>2. QED BY <3>1 DEF Mine, LateKinds, IsoRoutes
  <2>3. QED BY <1>7, <2>1, <2>2 DEF Questions
<1>14. Most(js, refs, bs, sg, by, win)
  BY <1>1, <1>3, FrontIsMost
<1>15. Handled(js, refs, bs, sg, by, win, s)
  BY <1>7, <1>10, <1>11, <1>12, <1>13, <1>14 DEF Handled
<1>16. QED BY <1>3, <1>4, <1>6, <1>15

\* The signal of a worker that ended is taken: its handler has the claim to all attributes.
LEMMA EndingTaken ==
  ASSUME NEW js, NEW refs, NEW as, NEW sg, NEW by, NEW win,
         Safe(js, refs, as, sg, by, win), sg # <<>>, Head(sg).to \in Endings,
         ~Exempt(js[Head(sg).job])
  PROVE  /\ Handled(js, refs, as, Tail(sg), by, win, Head(sg).job)
         /\ Owns(refs, Head(sg).job, Holding(js[Head(sg).job].kind, Head(sg).to = "prepared"))
<1>1. /\ Typed(js, refs, as, sg, by) /\ Attributes(refs, by) /\ Working(js, refs)
      /\ Awaited(js, refs, sg)
      /\ Asked(js, refs, as) /\ Once(js, as, sg) /\ Starting(js, refs, as, sg) /\ Overlays(js, refs)
      /\ Shut(js, win) /\ OpenExcept(js, as, sg, {}) /\ Most(js, refs, as, sg, by, win)
  BY DEF Safe, Most
<1>2. as \in Seq(AskRecord) /\ sg \in Seq(SignalRecord) /\ js \in [Slots -> JobRecord]
  BY <1>1 DEF Typed
<1>3. PICK tl : tl = Tail(sg)
  OBVIOUS
<1>4. /\ 1 \in DOMAIN sg /\ Head(sg) = sg[1]
      /\ \A i \in DOMAIN tl : i + 1 \in DOMAIN sg /\ i + 1 # 1 /\ tl[i] = sg[i + 1]
      /\ \A i \in DOMAIN sg : i # 1 => i - 1 \in DOMAIN tl /\ tl[i - 1] = sg[i]
  BY <1>2, <1>3, Taken
<1>5. PICK s : s = sg[1].job
  OBVIOUS
<1>6. s \in Slots /\ sg[1].to \in Endings /\ ~Exempt(js[s])
  BY <1>2, <1>4, <1>5, Entries
<1>7. PICK fields : fields = Holding(js[s].kind, sg[1].to = "prepared")
  OBVIOUS
<1>8. Owns(refs, s, fields)
  BY <1>1, <1>4, <1>5, <1>6, <1>7 DEF Awaited
<1>9. fields # {}
  <2>1. js[s].kind \in Kinds
    BY <1>2, <1>6 DEF JobRecord
  <2>2. QED BY <1>7, <2>1, HoldingFacts
<1>10. \A i \in DOMAIN as : as[i].ask \in Questions => as[i].job # s
  BY <1>1, <1>4, <1>5, <1>6 DEF Once, Apart
<1>11. Clear(as)
  <2>1. ASSUME NEW i \in DOMAIN as, as[i].ask \in RefQuestions PROVE FALSE
    <3>1. Owns(refs, as[i].job, Holding(as[i].ask, FALSE))
      BY <1>1, <2>1 DEF Asked
    <3>2. PICK f \in fields : refs[f] = s
      BY <1>8, <1>9 DEF Owns
    <3>3. refs[f] = as[i].job
      BY <1>8, <3>1, <3>2 DEF Owns
    <3>4. QED BY <1>10, <2>1, <3>2, <3>3 DEF Questions
  <2>2. ASSUME NEW i \in DOMAIN as, as[i].ask \in FreeQuestions \cup Starters PROVE FALSE
    <3>1. Live(refs) = {}
      BY <1>1, <2>2 DEF Asked, Starting
    <3>2. QED BY <1>8, <1>9, <3>1 DEF Owns
  <2>3. QED BY <2>1, <2>2 DEF Clear, Questions
<1>12. Quiet(js, as, tl, s)
  <2>1. js[s].step = "none"
    BY <1>1, <1>4, <1>5, <1>6 DEF Once, Resting
  <2>2. \A i \in DOMAIN tl : tl[i].to \in Endings => tl[i].job # s
    BY <1>1, <1>4, <1>5, <1>6 DEF Once, OneEnding
  <2>3. QED BY <1>10, <2>1, <2>2 DEF Quiet
<1>13. OpenExcept(js, as, tl, {s})
  <2>1. \A t \in Slots : t # s /\ (\E i \in DOMAIN sg : sg[i].to \in Endings /\ sg[i].job = t)
          => \E i \in DOMAIN tl : tl[i].to \in Endings /\ tl[i].job = t
    BY <1>4, <1>5
  <2>2. QED BY <1>1, <2>1 DEF OpenExcept
<1>14. Mine(refs, s) /\ js[s].kind # "overlay"
  BY <1>6, <1>8 DEF Mine, Owns, Exempt
<1>15. Most(js, refs, as, tl, by, win)
  BY <1>1, <1>3, TailIsMost
<1>16. Handled(js, refs, as, tl, by, win, s)
  BY <1>6, <1>11, <1>12, <1>13, <1>14, <1>15 DEF Handled
<1>17. QED BY <1>3, <1>4, <1>5, <1>7, <1>8, <1>16

-----------------------------------------------------------------------------
(* What a handler may do with the claim of its job. *)

\* Only the job of the handler can have a claim to the attributes.
LEMMA NobodyElse ==
  ASSUME NEW js, NEW refs, NEW as, NEW sg, NEW by, NEW win, NEW s,
         Handled(js, refs, as, sg, by, win, s)
  PROVE  /\ \A t \in Slots : js[t].step # "none" => Exempt(js[t])
         /\ \A i \in DOMAIN sg : sg[i].to \in Endings => Exempt(js[sg[i].job])
<1>1. /\ Typed(js, refs, as, sg, by) /\ Working(js, refs) /\ Awaited(js, refs, sg)
      /\ Quiet(js, as, sg, s) /\ Mine(refs, s)
  BY DEF Handled, Most
<1>2. js \in [Slots -> JobRecord] /\ as \in Seq(AskRecord) /\ sg \in Seq(SignalRecord)
  BY <1>1 DEF Typed
<1>3. ASSUME NEW t \in Slots, NEW early \in BOOLEAN, Owns(refs, t, Holding(js[t].kind, early))
      PROVE  t = s
  <2>1. js[t] \in JobRecord
    BY <1>2
  <2>2. js[t].kind \in Kinds
    BY <2>1 DEF JobRecord
  <2>3. PICK f \in Holding(js[t].kind, early) : TRUE
    BY <2>2, HoldingFacts
  <2>4. f \in Live(refs) /\ refs[f] = t
    BY <1>3 DEF Owns
  <2>5. QED BY <1>1, <2>4 DEF Mine
<1>4. ASSUME NEW t \in Slots, js[t].step # "none" PROVE Exempt(js[t])
  <2>1. t # s
    BY <1>1, <1>4 DEF Quiet
  <2>2. ~Exempt(js[t]) => Owns(refs, t, Holding(js[t].kind, js[t].step = "prepare"))
    BY <1>1, <1>4 DEF Working
  <2>3. (js[t].step = "prepare") \in BOOLEAN
    OBVIOUS
  <2>4. QED BY <1>3, <2>1, <2>2, <2>3
<1>5. ASSUME NEW i \in DOMAIN sg, sg[i].to \in Endings PROVE Exempt(js[sg[i].job])
  <2>1. sg[i].job # s
    BY <1>1, <1>5 DEF Quiet
  <2>2. ~Exempt(js[sg[i].job]) =>
          Owns(refs, sg[i].job, Holding(js[sg[i].job].kind, sg[i].to = "prepared"))
    BY <1>1, <1>5 DEF Awaited
  <2>3. (sg[i].to = "prepared") \in BOOLEAN /\ sg[i].job \in Slots
    BY <1>2, <1>5, Entries
  <2>4. QED BY <1>3, <2>1, <2>2, <2>3
<1>6. QED BY <1>4, <1>5

\* Two sets of attributes with the same planner.
SamePlanner(refs, after) ==
  /\ "zip_overlay_preparer" \in DOMAIN after <=> "zip_overlay_preparer" \in DOMAIN refs
  /\ "zip_overlay_preparer" \in DOMAIN refs =>
       after["zip_overlay_preparer"] = refs["zip_overlay_preparer"]

\* For the other jobs nothing changes that a claim depends on.
Elsewhere(js, ks, s) ==
  \A t \in Slots \ {s} :
    ks[t].kind = js[t].kind /\ ks[t].step = js[t].step /\ ks[t].cancelled = js[t].cancelled

Proper(after, with) ==
  /\ DOMAIN after \subseteq Fields /\ \A f \in DOMAIN after : after[f] \in Slots
  /\ Attributes(after, with)

\* Everything but what is open: the claim goes on with a worker, with attributes that refer
\* to the job, or with none.
LEMMA HandoverIsMost ==
  ASSUME NEW js, NEW refs, NEW as, NEW sg, NEW by, NEW win, NEW s,
         Handled(js, refs, as, sg, by, win, s),
         NEW ks \in [Slots -> JobRecord], NEW after, NEW with \in BOOLEAN,
         Elsewhere(js, ks, s), ks[s].kind # "overlay", ks[s].step \in Late
           => ks[s].kind \in LateKinds,
         Proper(after, with), SamePlanner(refs, after),
         ks[s].step # "none" =>
           win # "closed" /\ Owns(after, s, Holding(ks[s].kind, ks[s].step = "prepare"))
  PROVE  Most(ks, after, as, sg, with, win)
<1>1. /\ /\ Typed(js, refs, as, sg, by) /\ Attributes(refs, by) /\ Working(js, refs)
              /\ Awaited(js, refs, sg)
      /\ Asked(js, refs, as) /\ Once(js, as, sg) /\ Starting(js, refs, as, sg) /\ Overlays(js, refs)
      /\ Shut(js, win)
      /\ Quiet(js, as, sg, s) /\ Clear(as) /\ s \in Slots /\ js[s].kind # "overlay"
  BY DEF Handled, Most
<1>2. js \in [Slots -> JobRecord] /\ as \in Seq(AskRecord) /\ sg \in Seq(SignalRecord)
  BY <1>1 DEF Typed
<1>3. /\ \A t \in Slots : js[t].step # "none" => Exempt(js[t])
      /\ \A i \in DOMAIN sg : sg[i].to \in Endings => Exempt(js[sg[i].job])
  BY NobodyElse
<1>4. \A t \in Slots : t # s => /\ ks[t].kind = js[t].kind /\ ks[t].step = js[t].step
                                /\ ks[t].cancelled = js[t].cancelled
  BY DEF Elsewhere
<1>5. \A i \in DOMAIN sg : sg[i].to \in Endings => sg[i].job \in Slots /\ sg[i].job # s
  BY <1>1, <1>2, Entries DEF Quiet
<1>6. \A i \in DOMAIN as : as[i].ask \notin Questions /\ as[i].ask \notin Starters
  BY <1>1 DEF Clear
<1>7. Typed(ks, after, as, sg, with)
  <2>1. \A t \in Slots : ks[t].step \in Late => ks[t].kind \in LateKinds
    BY <1>1, <1>4 DEF Typed
  <2>2. "finished" \in Endings /\ "media_finished" \in Endings
    BY DEF Endings
  <2>3. \A i \in DOMAIN sg :
          /\ sg[i].to = "finished" => ks[sg[i].job].kind \in Simple \cup {"media"} \cup LateKinds
          /\ sg[i].to = "media_finished" => ks[sg[i].job].kind = "media"
    BY <1>1, <1>4, <1>5, <2>2 DEF Typed
  <2>4. QED BY <1>2, <2>1, <2>3 DEF Typed, Proper
<1>8. Attributes(after, with)
  BY DEF Proper
<1>9. Working(ks, after)
  <2>1. \A t \in Slots : t # s /\ ks[t].step # "none" => Exempt(ks[t])
    BY <1>3, <1>4 DEF Exempt
  <2>2. QED BY <2>1 DEF Working
<1>10. Awaited(ks, after, sg)
  <2>1. \A i \in DOMAIN sg : sg[i].to \in Endings => Exempt(ks[sg[i].job])
    BY <1>3, <1>4, <1>5 DEF Exempt
  <2>2. QED BY <2>1 DEF Awaited
<1>11. Asked(ks, after, as)
  BY <1>6 DEF Asked, Questions, FreeQuestions
<1>12. Once(ks, as, sg)
  <2>1. Resting(ks, as, sg)
    BY <1>1, <1>4, <1>5, <1>6 DEF Once, Resting
  <2>2. QED BY <1>1, <2>1 DEF Once
<1>13. Starting(ks, after, as, sg)
  BY <1>6 DEF Starting
<1>14. Overlays(ks, after)
  <2>1. "zip_overlay_preparer" \in DOMAIN after => ks[after["zip_overlay_preparer"]].kind = "overlay"
    <3>1. SUFFICES ASSUME "zip_overlay_preparer" \in DOMAIN after
                   PROVE  ks[after["zip_overlay_preparer"]].kind = "overlay"
      OBVIOUS
    <3>2. PICK t : t = refs["zip_overlay_preparer"]
      OBVIOUS
    <3>3. "zip_overlay_preparer" \in DOMAIN refs /\ after["zip_overlay_preparer"] = t
      BY <3>1, <3>2 DEF SamePlanner
    <3>4. t \in Slots /\ js[t].kind = "overlay"
      BY <1>1, <3>2, <3>3 DEF Overlays, Typed
    <3>5. t # s
      BY <1>1, <3>4
    <3>6. QED BY <1>4, <3>3, <3>4, <3>5
  <2>2. ASSUME NEW t \in Slots, ks[t].kind = "overlay", ks[t].step # "none", ~ks[t].cancelled
        PROVE  Refers(after, "zip_overlay_preparer", t)
    <3>1. t # s /\ js[t].kind = "overlay" /\ js[t].step # "none" /\ ~js[t].cancelled
      BY <1>4, <2>2
    <3>2. Refers(refs, "zip_overlay_preparer", t)
      BY <1>1, <3>1 DEF Overlays
    <3>3. QED BY <3>2 DEF Refers, SamePlanner
  <2>3. QED BY <2>1, <2>2 DEF Overlays
<1>15. Shut(ks, win)
  <2>1. ASSUME win = "closed", NEW t \in Slots, ks[t].step # "none" PROVE ks[t].cancelled
    <3>1. t # s
      BY <2>1
    <3>2. js[t].step # "none" /\ ks[t].cancelled = js[t].cancelled
      BY <1>4, <2>1, <3>1
    <3>3. QED BY <1>1, <2>1, <3>2 DEF Shut
  <2>2. QED BY <2>1 DEF Shut
<1>16. QED BY <1>7, <1>8, <1>9, <1>10, <1>11, <1>12, <1>13, <1>14, <1>15 DEF Most

\* Nothing but the planner is left.
LEMMA ResetAttributes ==
  ASSUME NEW js, NEW refs, NEW as, NEW sg, NEW by, Typed(js, refs, as, sg, by),
         NEW after, NEW with, Live(after) = {}, SamePlanner(refs, after)
  PROVE  Proper(after, with)
<1>1. DOMAIN after \subseteq {"zip_overlay_preparer"}
  BY DEF Live
<1>2. \A f \in DOMAIN after : after[f] \in Slots
  BY <1>1 DEF SamePlanner, Typed
<1>3. Attributes(after, with)
  BY DEF Attributes
<1>4. QED BY <1>1, <1>2, <1>3 DEF Proper, Fields

\* The attributes of one job, and the planner.
LEMMA OwnAttributes ==
  ASSUME NEW js, NEW refs, NEW as, NEW sg, NEW by, Typed(js, refs, as, sg, by),
         NEW after, NEW s \in Slots, NEW kind \in Kinds \ {"overlay", "none"},
         NEW early \in BOOLEAN,
         Owns(after, s, Holding(kind, early)), SamePlanner(refs, after)
  PROVE  Proper(after, TRUE)
<1>1. PICK fields : fields = Holding(kind, early)
  OBVIOUS
<1>2. /\ fields \subseteq Fields \ {"zip_overlay_preparer"} /\ fields \cap OperationFields # {}
      /\ "checksum_preparer" \in fields => fields = {"checksum_preparer"}
  BY <1>1, HoldingFacts
<1>3. Live(after) = fields /\ \A f \in fields : after[f] = s
  BY <1>1 DEF Owns
<1>4. DOMAIN after \subseteq fields \cup {"zip_overlay_preparer"}
  BY <1>3 DEF Live
<1>5. \A f \in DOMAIN after : after[f] \in Slots
  BY <1>3, <1>4 DEF SamePlanner, Typed
<1>6. Attributes(after, TRUE)
  BY <1>2, <1>3 DEF Attributes
<1>7. QED BY <1>2, <1>4, <1>5, <1>6 DEF Proper, Fields

\* A workflow is closed: nothing else about it changes.
LEMMA ClosedJob ==
  ASSUME NEW job \in JobRecord
  PROVE  LET c == [job EXCEPT !.open = FALSE] IN
         c \in JobRecord /\ c.kind = job.kind /\ c.step = job.step /\ c.cancelled = job.cancelled
           /\ ~c.open
BY DEF JobRecord

\* The same, for the jobs of some slots.
LEMMA ClosedJobs ==
  ASSUME NEW js \in [Slots -> JobRecord], NEW slots
  PROVE  /\ Closed(js, slots) \in [Slots -> JobRecord]
         /\ \A t \in Slots : /\ Closed(js, slots)[t].kind = js[t].kind /\ Closed(js, slots)[t].step = js[t].step
                             /\ Closed(js, slots)[t].cancelled = js[t].cancelled
                             /\ Closed(js, slots)[t].open => js[t].open /\ t \notin slots
<1>1. PICK ks : ks = Closed(js, slots)
  OBVIOUS
<1>2. ks = [t \in Slots |-> IF t \in slots THEN [js[t] EXCEPT !.open = FALSE] ELSE js[t]]
  BY <1>1 DEF Closed, Changed
<1>3. ASSUME NEW t \in Slots
      PROVE  /\ ks[t] \in JobRecord /\ ks[t].kind = js[t].kind /\ ks[t].step = js[t].step
             /\ ks[t].cancelled = js[t].cancelled /\ (ks[t].open => js[t].open /\ t \notin slots)
  <2>1. PICK job \in JobRecord : job = js[t]
    OBVIOUS
  <2>2. CASE t \in slots
    <3>1. ks[t] = [job EXCEPT !.open = FALSE]
      BY <1>2, <2>1, <2>2
    <3>2. PICK c : c = [job EXCEPT !.open = FALSE]
      OBVIOUS
    <3>3. c \in JobRecord /\ c.kind = job.kind /\ c.step = job.step /\ c.cancelled = job.cancelled
            /\ ~c.open
      BY <3>2, ClosedJob
    <3>4. QED BY <2>1, <3>1, <3>2, <3>3
  <2>3. CASE t \notin slots
    BY <1>2, <2>1, <2>3
  <2>4. QED BY <2>2, <2>3
<1>4. ks \in [Slots -> JobRecord]
  BY <1>2, <1>3
<1>5. QED BY <1>1, <1>3, <1>4

\* The attributes are reset, and what the job holds is closed.
LEMMA ResetIsSafe ==
  ASSUME NEW js, NEW refs, NEW as, NEW sg, NEW by, NEW win, NEW s,
         Handled(js, refs, as, sg, by, win, s),
         NEW slots, js[s].open => s \in slots,
         NEW after, NEW with \in BOOLEAN, Live(after) = {}, SamePlanner(refs, after)
  PROVE  Safe(Closed(js, slots), after, as, sg, with, win)
<1>1. /\ Typed(js, refs, as, sg, by) /\ OpenExcept(js, as, sg, {s})
      /\ Quiet(js, as, sg, s) /\ s \in Slots /\ js[s].kind # "overlay"
  BY DEF Handled, Most
<1>2. js \in [Slots -> JobRecord]
  BY <1>1 DEF Typed
<1>3. PICK ks : ks = Closed(js, slots)
  OBVIOUS
<1>4. /\ ks \in [Slots -> JobRecord]
      /\ \A t \in Slots : /\ ks[t].kind = js[t].kind /\ ks[t].step = js[t].step
                          /\ ks[t].cancelled = js[t].cancelled
                          /\ ks[t].open => js[t].open /\ t \notin slots
  BY <1>2, <1>3, ClosedJobs
<1>5. Elsewhere(js, ks, s)
  BY <1>4 DEF Elsewhere
<1>6. Proper(after, with)
  BY <1>1, ResetAttributes
<1>7. ks[s].kind # "overlay" /\ ks[s].step = "none" /\ ks[s].step \notin Late
  BY <1>1, <1>4 DEF Quiet, Late
<1>8. Most(ks, after, as, sg, with, win)
  BY <1>4, <1>5, <1>6, <1>7, HandoverIsMost, ZenonT(60)
<1>9. OpenExcept(ks, as, sg, {})
  <2>1. ASSUME NEW t \in Slots, ks[t].open
        PROVE  /\ ks[t].kind \in OpenKinds
               /\ \/ ks[t].step # "none"
                  \/ \E i \in DOMAIN sg : sg[i].to \in Endings /\ sg[i].job = t
                  \/ \E i \in DOMAIN as : as[i].ask \in Questions /\ as[i].job = t
    <3>1. js[t].open /\ t # s
      BY <1>4, <2>1
    <3>2. QED BY <1>1, <1>4, <3>1 DEF OpenExcept
  <2>2. QED BY <2>1 DEF OpenExcept
<1>10. QED BY <1>3, <1>8, <1>9 DEF Safe

\* A question of the job is opened.
LEMMA QuestionIsSafe ==
  ASSUME NEW ks, NEW after, NEW as, NEW sg, NEW with, NEW win, NEW s \in Slots,
         Most(ks, after, as, sg, with, win), OpenExcept(ks, as, sg, {s}), Quiet(ks, as, sg, s),
           Clear(as),
         NEW name \in Questions,
         name \in RefQuestions => ks[s].kind = name /\ Owns(after, s, Holding(name, FALSE)),
         name \in FreeQuestions => Live(after) = {} /\ ks[s].kind \in LateKinds,
         name = "shell" => ks[s].kind = "shell" /\ ~ks[s].cancelled,
         name \in {"uefi_helper", "iso_write"} => ks[s].kind \in IsoRoutes
  PROVE  Safe(ks, after, Opened(as, name, s), sg, with, win)
<1>1. /\ Typed(ks, after, as, sg, with) /\ Attributes(after, with) /\ Working(ks, after)
      /\ Awaited(ks, after, sg) /\ Asked(ks, after, as) /\ Once(ks, as, sg) /\ Overlays(ks, after)
      /\ Shut(ks, win)
  BY DEF Most
<1>2. as \in Seq(AskRecord) /\ sg \in Seq(SignalRecord)
  BY <1>1 DEF Typed
<1>3. PICK a : a = Ask(name, s)
  OBVIOUS
<1>4. a \in AskRecord /\ a.ask = name /\ a.job = s
  BY <1>3 DEF Ask, AskRecord
<1>5. PICK bs : bs = Append(as, a)
  OBVIOUS
<1>6. bs \in Seq(AskRecord) /\ Grows(as, bs, a)
  BY <1>2, <1>4, <1>5, Pushed
<1>7. \A i \in DOMAIN bs : i \in DOMAIN as \/ (i = Len(as) + 1 /\ bs[i] = a)
  BY <1>6 DEF Grows
<1>8. DOMAIN as \subseteq DOMAIN bs /\ (\A i \in DOMAIN as : bs[i] = as[i])
        /\ Len(as) + 1 \in DOMAIN bs /\ bs[Len(as) + 1] = a
  BY <1>6 DEF Grows
<1>9. \A i \in DOMAIN as : as[i].ask \notin Questions /\ as[i].ask \notin Starters
  BY DEF Clear
<1>10. name \notin Starters
  BY DEF Questions, RefQuestions, FreeQuestions, Starters
<1>11. Typed(ks, after, bs, sg, with)
  BY <1>1, <1>6 DEF Typed
<1>12. Asked(ks, after, bs)
  <2>1. ASSUME NEW i \in DOMAIN bs
        PROVE  /\ bs[i].ask \in RefQuestions =>
                    ks[bs[i].job].kind = bs[i].ask
                      /\ Owns(after, bs[i].job, Holding(bs[i].ask, FALSE))
               /\ bs[i].ask \in FreeQuestions => Live(after) = {}
                    /\ ks[bs[i].job].kind \in LateKinds
               /\ bs[i].ask = "shell" => ks[bs[i].job].kind = "shell" /\ ~ks[bs[i].job].cancelled
               /\ bs[i].ask \in {"uefi_helper", "iso_write"} => ks[bs[i].job].kind \in IsoRoutes
    <3>1. CASE i \in DOMAIN as
      BY <1>1, <1>8, <3>1 DEF Asked
    <3>2. CASE bs[i] = a
      BY <1>4, <3>2
    <3>3. QED BY <1>7, <3>1, <3>2
  <2>2. QED BY <2>1 DEF Asked
<1>13. Once(ks, bs, sg)
  <2>1. OneQuestion(bs)
    <3>1. \A i \in DOMAIN bs : bs[i].ask \in Questions => i = Len(as) + 1
      BY <1>7, <1>8, <1>9
    <3>2. QED BY <3>1 DEF OneQuestion
  <2>2. Apart(bs, sg)
    <3>1. \A i \in DOMAIN bs : bs[i].ask \in Questions => bs[i].job = s
      BY <1>4, <1>7, <1>8, <1>9
    <3>2. QED BY <3>1 DEF Apart, Quiet
  <2>3. Resting(ks, bs, sg)
    <3>1. \A i \in DOMAIN bs : bs[i].ask \in Questions => bs[i].job = s
      BY <1>4, <1>7, <1>8, <1>9
    <3>2. QED BY <1>1, <3>1 DEF Once, Resting, Quiet
  <2>4. QED BY <1>1, <2>1, <2>2, <2>3 DEF Once
<1>14. Starting(ks, after, bs, sg)
  <2>1. \A i \in DOMAIN bs : bs[i].ask \notin Starters
    BY <1>4, <1>7, <1>8, <1>9, <1>10
  <2>2. QED BY <2>1 DEF Starting
<1>15. OpenExcept(ks, bs, sg, {})
  <2>1. \E i \in DOMAIN bs : bs[i].ask \in Questions /\ bs[i].job = s
    BY <1>4, <1>8
  <2>2. \A t \in Slots : (\E i \in DOMAIN as : as[i].ask \in Questions /\ as[i].job = t)
          => \E i \in DOMAIN bs : bs[i].ask \in Questions /\ bs[i].job = t
    BY <1>8
  <2>3. QED BY <2>1, <2>2 DEF OpenExcept
<1>16. Safe(ks, after, bs, sg, with, win)
  BY <1>1, <1>11, <1>12, <1>13, <1>14, <1>15 DEF Safe, Most
<1>17. QED BY <1>3, <1>5, <1>16 DEF Opened

\* The attributes are reset before the question is opened, which keeps all others away.
LEMMA FreeQuestionIsSafe ==
  ASSUME NEW js, NEW refs, NEW as, NEW sg, NEW by, NEW win, NEW s,
         Handled(js, refs, as, sg, by, win, s),
         NEW ks \in [Slots -> JobRecord], \A t \in Slots \ {s} : ks[t] = js[t],
         ks[s].step = "none", ks[s].open => ks[s].kind \in OpenKinds,
         NEW after, NEW with \in BOOLEAN, Live(after) = {}, SamePlanner(refs, after),
         NEW name \in FreeQuestions,
         IF name = "shell" THEN ks[s].kind = "shell" /\ ~ks[s].cancelled
           ELSE ks[s].kind \in IsoRoutes
  PROVE  Safe(ks, after, Opened(as, name, s), sg, with, win)
<1>1. /\ Typed(js, refs, as, sg, by) /\ OpenExcept(js, as, sg, {s})
      /\ Quiet(js, as, sg, s) /\ s \in Slots /\ Clear(as)
  BY DEF Handled, Most
<1>2. Elsewhere(js, ks, s)
  BY DEF Elsewhere
<1>3. Proper(after, with)
  BY <1>1, ResetAttributes
<1>4. ks[s].kind \in LateKinds /\ ks[s].kind # "overlay" /\ ks[s].step \notin Late
  BY DEF LateKinds, IsoRoutes, Late
<1>5. Most(ks, after, as, sg, with, win)
  BY <1>2, <1>3, <1>4, HandoverIsMost
<1>6. OpenExcept(ks, as, sg, {s})
  <2>1. \A t \in Slots : t # s => ks[t] = js[t]
    OBVIOUS
  <2>2. QED BY <1>1, <2>1 DEF OpenExcept
<1>7. Quiet(ks, as, sg, s)
  BY <1>1 DEF Quiet
<1>8. name \in Questions /\ name \notin RefQuestions
  BY DEF Questions, FreeQuestions, RefQuestions
<1>9. /\ name = "shell" => ks[s].kind = "shell" /\ ~ks[s].cancelled
      /\ name \in {"uefi_helper", "iso_write"} => ks[s].kind \in IsoRoutes
  OBVIOUS
<1>10. QED BY <1>1, <1>4, <1>5, <1>6, <1>7, <1>8, <1>9, QuestionIsSafe

\* A question is opened, and attributes go on to refer to its job.
LEMMA RefQuestionIsSafe ==
  ASSUME NEW js, NEW refs, NEW as, NEW sg, NEW by, NEW win, NEW s,
         Handled(js, refs, as, sg, by, win, s), NEW name \in RefQuestions, js[s].kind = name,
         NEW after, Owns(after, s, Holding(name, FALSE)), SamePlanner(refs, after)
  PROVE  Safe(js, after, Opened(as, name, s), sg, TRUE, win)
<1>1. /\ Typed(js, refs, as, sg, by) /\ OpenExcept(js, as, sg, {s})
      /\ Quiet(js, as, sg, s) /\ s \in Slots /\ Clear(as)
  BY DEF Handled, Most
<1>2. js \in [Slots -> JobRecord]
  BY <1>1 DEF Typed
<1>3. Elsewhere(js, js, s)
  BY DEF Elsewhere
<1>4. name \in Kinds \ {"overlay", "none"}
  BY DEF RefQuestions, Kinds, OpenKinds
<1>5. Proper(after, TRUE)
  BY <1>1, <1>4, OwnAttributes
<1>6. js[s].kind # "overlay" /\ js[s].step = "none" /\ js[s].step \notin Late
  BY <1>1, <1>4 DEF Quiet, Late
<1>7. TRUE \in BOOLEAN
  OBVIOUS
<1>8. Most(js, after, as, sg, TRUE, win)
  BY <1>2, <1>3, <1>5, <1>6, <1>7, HandoverIsMost
<1>9. name \in Questions /\ name \notin FreeQuestions /\ name # "shell"
        /\ name \notin {"uefi_helper", "iso_write"}
  BY DEF Questions, FreeQuestions, RefQuestions
<1>10. QED BY <1>1, <1>8, <1>9, QuestionIsSafe

\* A worker is started for the job.
LEMMA MoveIsSafe ==
  ASSUME NEW js, NEW refs, NEW as, NEW sg, NEW by, NEW win, NEW s,
         Handled(js, refs, as, sg, by, win, s), win # "closed",
         NEW ks \in [Slots -> JobRecord], \A t \in Slots \ {s} : ks[t] = js[t],
         ks[s].step # "none", ks[s].kind \notin {"overlay", "none"},
         ks[s].step \in Late => ks[s].kind \in LateKinds, ks[s].open => ks[s].kind \in OpenKinds,
         NEW after, Owns(after, s, Holding(ks[s].kind, ks[s].step = "prepare")),
         SamePlanner(refs, after)
  PROVE  Safe(ks, after, as, sg, TRUE, win)
<1>1. /\ Typed(js, refs, as, sg, by) /\ OpenExcept(js, as, sg, {s}) /\ s \in Slots
  BY DEF Handled, Most
<1>2. Elsewhere(js, ks, s)
  BY DEF Elsewhere
<1>3. ks[s] \in JobRecord
  BY <1>1
<1>4. PICK kind \in Kinds \ {"overlay", "none"} : kind = ks[s].kind
  BY <1>3 DEF JobRecord
<1>5. PICK early \in BOOLEAN : early = (ks[s].step = "prepare")
  OBVIOUS
<1>6. Owns(after, s, Holding(kind, early))
  BY <1>4, <1>5
<1>7. Proper(after, TRUE)
  BY <1>1, <1>6, OwnAttributes
<1>8. TRUE \in BOOLEAN
  OBVIOUS
<1>9. Most(ks, after, as, sg, TRUE, win)
  BY <1>2, <1>7, <1>8, HandoverIsMost
<1>10. OpenExcept(ks, as, sg, {})
  <2>1. \A t \in Slots : t # s => ks[t] = js[t]
    OBVIOUS
  <2>2. QED BY <1>1, <2>1 DEF OpenExcept
<1>11. QED BY <1>9, <1>10 DEF Safe

-----------------------------------------------------------------------------
(* Cancellation. *)

\* The jobs in `slots` are cancelled.
Marks(js, ks, slots) ==
  /\ ks \in [Slots -> JobRecord]
  /\ \A t \in Slots :
       /\ ks[t].kind = js[t].kind /\ ks[t].step = js[t].step /\ ks[t].open = js[t].open
       /\ js[t].cancelled \/ t \in slots => ks[t].cancelled
       /\ t \notin slots => ks[t] = js[t]

\* A job is cancelled: nothing else about it changes.
LEMMA CancelledJob ==
  ASSUME NEW job \in JobRecord
  PROVE  LET c == [job EXCEPT !.cancelled = TRUE] IN
         c \in JobRecord /\ c.kind = job.kind /\ c.step = job.step /\ c.open = job.open
           /\ c.cancelled
BY DEF JobRecord

\* The same, for the jobs of some slots.
LEMMA CancelledMarks ==
  ASSUME NEW js \in [Slots -> JobRecord], NEW slots
  PROVE  Marks(js, Cancelled(js, slots), slots)
<1>1. PICK ks : ks = Cancelled(js, slots)
  OBVIOUS
<1>2. ks = [t \in Slots |-> IF t \in slots THEN [js[t] EXCEPT !.cancelled = TRUE] ELSE js[t]]
  BY <1>1 DEF Cancelled, Changed
<1>3. ASSUME NEW t \in Slots
      PROVE  /\ ks[t] \in JobRecord /\ ks[t].kind = js[t].kind /\ ks[t].step = js[t].step
             /\ ks[t].open = js[t].open /\ (js[t].cancelled \/ t \in slots => ks[t].cancelled)
             /\ (t \notin slots => ks[t] = js[t])
  <2>1. PICK job \in JobRecord : job = js[t]
    OBVIOUS
  <2>2. CASE t \in slots
    <3>1. ks[t] = [job EXCEPT !.cancelled = TRUE]
      BY <1>2, <2>1, <2>2
    <3>2. PICK c : c = [job EXCEPT !.cancelled = TRUE]
      OBVIOUS
    <3>3. c \in JobRecord /\ c.kind = job.kind /\ c.step = job.step /\ c.open = job.open
            /\ c.cancelled
      BY <3>2, CancelledJob
    <3>4. QED BY <2>1, <2>2, <3>1, <3>2, <3>3
  <2>3. CASE t \notin slots
    BY <1>2, <2>1, <2>3
  <2>4. QED BY <2>2, <2>3
<1>4. ks \in [Slots -> JobRecord]
  BY <1>2, <1>3
<1>5. Marks(js, ks, slots)
  BY <1>3, <1>4 DEF Marks
<1>6. QED BY <1>1, <1>5

\* Nothing is cancelled.
LEMMA NothingMarks ==
  ASSUME NEW js \in [Slots -> JobRecord]
  PROVE  Marks(js, js, {})
BY DEF Marks

\* The dialogs are the same; some may be rejected.
SameDialogs(as, bs) ==
  /\ bs \in Seq(AskRecord) /\ DOMAIN bs = DOMAIN as
  /\ \A i \in DOMAIN as : bs[i].ask = as[i].ask /\ bs[i].job = as[i].job

\* No dialog is rejected.
LEMMA UnchangedDialogs ==
  ASSUME NEW as \in Seq(AskRecord)
  PROVE  SameDialogs(as, as)
BY DEF SameDialogs

\* Some attributes are reset, the others stay.
Keeps(refs, fields, after) ==
  DOMAIN after = DOMAIN refs \ fields /\ \A f \in DOMAIN after : after[f] = refs[f]

\* Jobs to which attributes refer are cancelled; a planner and a checksum may be forgotten,
\* if they are cancelled or have ended.
LEMMA CancelIsSafe ==
  ASSUME NEW js, NEW refs, NEW as, NEW sg, NEW by, NEW win, Safe(js, refs, as, sg, by, win),
         NEW ks, NEW slots, Marks(js, ks, slots), slots \subseteq {refs[f] : f \in DOMAIN refs},
         NEW forgotten \in SUBSET {"zip_overlay_preparer", "checksum_preparer"},
         \A f \in forgotten \cap DOMAIN refs :
           refs[f] \in slots \/ (f = "zip_overlay_preparer" /\ js[refs[f]].step = "none"),
         NEW after, Keeps(refs, forgotten, after), NEW bs, SameDialogs(as, bs),
         NEW with \in BOOLEAN, Live(after) # {} => with
  PROVE  Safe(ks, after, bs, sg, with, win)
<1>1. /\ Typed(js, refs, as, sg, by) /\ Attributes(refs, by) /\ Working(js, refs)
      /\ Awaited(js, refs, sg)
      /\ Asked(js, refs, as) /\ Once(js, as, sg) /\ Starting(js, refs, as, sg) /\ Overlays(js, refs)
      /\ Shut(js, win) /\ OpenExcept(js, as, sg, {})
  BY DEF Safe, Most
<1>2. js \in [Slots -> JobRecord] /\ as \in Seq(AskRecord) /\ sg \in Seq(SignalRecord)
  BY <1>1 DEF Typed
<1>3. /\ ks \in [Slots -> JobRecord]
      /\ \A t \in Slots :
           /\ ks[t].kind = js[t].kind /\ ks[t].step = js[t].step /\ ks[t].open = js[t].open
           /\ js[t].cancelled \/ t \in slots => ks[t].cancelled
           /\ t \notin slots => ks[t] = js[t]
  BY DEF Marks
<1>4. DOMAIN after = DOMAIN refs \ forgotten /\ \A f \in DOMAIN after : after[f] = refs[f]
  BY DEF Keeps
<1>5. /\ bs \in Seq(AskRecord) /\ DOMAIN bs = DOMAIN as
      /\ \A i \in DOMAIN as : bs[i].ask = as[i].ask /\ bs[i].job = as[i].job
  BY DEF SameDialogs
<1>6. \A i \in DOMAIN sg : sg[i].to \in Endings => sg[i].job \in Slots
  BY <1>2, Entries
<1>7. \A i \in DOMAIN as : as[i].ask \in Questions => as[i].job \in Slots
  BY <1>2, Entries
<1>8. \/ Live(after) = Live(refs) /\ \A f \in Live(refs) : after[f] = refs[f]
      \/ /\ Live(refs) = {"checksum_preparer"} /\ Live(after) = {}
         /\ refs["checksum_preparer"] \in slots
  <2>1. CASE "checksum_preparer" \in Live(refs) /\ "checksum_preparer" \in forgotten
    <3>1. Live(refs) = {"checksum_preparer"}
      BY <1>1, <2>1 DEF Attributes
    <3>2. Live(after) = {}
      BY <1>4, <2>1, <3>1 DEF Live
    <3>3. refs["checksum_preparer"] \in slots
      BY <2>1 DEF Live
    <3>4. QED BY <3>1, <3>2, <3>3
  <2>2. CASE ~("checksum_preparer" \in Live(refs) /\ "checksum_preparer" \in forgotten)
    <3>1. Live(after) = Live(refs)
      BY <1>4, <2>2 DEF Live
    <3>2. \A f \in Live(refs) : after[f] = refs[f]
      BY <1>4, <3>1 DEF Live
    <3>3. QED BY <3>1, <3>2
  <2>3. QED BY <2>1, <2>2
<1>9. Live(refs) = {} => Live(after) = {}
  BY <1>8
<1>10. ASSUME NEW t \in Slots, NEW kind \in Kinds, NEW early \in BOOLEAN,
                Owns(refs, t, Holding(kind, early))
       PROVE  Owns(after, t, Holding(kind, early)) \/ (kind = "checksums" /\ t \in slots)
  <2>1. CASE Live(after) = Live(refs) /\ \A f \in Live(refs) : after[f] = refs[f]
    BY <1>10, <2>1 DEF Owns
  <2>2. CASE Live(refs) = {"checksum_preparer"} /\ refs["checksum_preparer"] \in slots
    <3>1. "checksum_preparer" \in Holding(kind, early)
      BY <1>10, <2>2 DEF Owns
    <3>2. kind = "checksums"
      BY <3>1, HoldingFacts
    <3>3. refs["checksum_preparer"] = t
      BY <1>10, <3>1 DEF Owns
    <3>4. QED BY <2>2, <3>2, <3>3
  <2>3. QED BY <1>8, <2>1, <2>2
<1>11. \A t \in Slots : js[t].kind \in Kinds
  BY <1>2 DEF JobRecord
<1>12. Typed(ks, after, bs, sg, with)
  <2>1. DOMAIN after \subseteq Fields /\ \A f \in DOMAIN after : after[f] \in Slots
    BY <1>1, <1>4 DEF Typed
  <2>2. \A t \in Slots : ks[t].step \in Late => ks[t].kind \in LateKinds
    BY <1>1, <1>3 DEF Typed
  <2>3. "finished" \in Endings /\ "media_finished" \in Endings
    BY DEF Endings
  <2>4. \A i \in DOMAIN sg :
          /\ sg[i].to = "finished" => ks[sg[i].job].kind \in Simple \cup {"media"} \cup LateKinds
          /\ sg[i].to = "media_finished" => ks[sg[i].job].kind = "media"
    BY <1>1, <1>3, <1>6, <2>3 DEF Typed
  <2>5. QED BY <1>2, <1>3, <1>5, <2>1, <2>2, <2>4 DEF Typed
<1>13. Attributes(after, with)
  <2>1. Live(after) # {} => Live(after) = Live(refs)
    BY <1>8
  <2>2. QED BY <1>1, <2>1 DEF Attributes
<1>14. Working(ks, after)
  <2>1. ASSUME NEW t \in Slots, ks[t].step # "none", ~Exempt(ks[t])
        PROVE  Owns(after, t, Holding(ks[t].kind, ks[t].step = "prepare"))
    <3>1. js[t].step # "none" /\ ~Exempt(js[t]) /\ ~(js[t].kind = "checksums" /\ t \in slots)
      BY <1>3, <2>1 DEF Exempt
    <3>2. PICK early \in BOOLEAN : early = (js[t].step = "prepare")
      OBVIOUS
    <3>3. Owns(refs, t, Holding(js[t].kind, early))
      BY <1>1, <3>1, <3>2 DEF Working
    <3>4. Owns(after, t, Holding(js[t].kind, early))
      BY <1>10, <1>11, <3>1, <3>3
    <3>5. QED BY <1>3, <3>2, <3>4
  <2>2. QED BY <2>1 DEF Working
<1>15. Awaited(ks, after, sg)
  <2>1. ASSUME NEW i \in DOMAIN sg, sg[i].to \in Endings, ~Exempt(ks[sg[i].job])
        PROVE  Owns(after, sg[i].job, Holding(ks[sg[i].job].kind, sg[i].to = "prepared"))
    <3>1. PICK t \in Slots : t = sg[i].job
      BY <1>6, <2>1
    <3>2. ~Exempt(js[t]) /\ ~(js[t].kind = "checksums" /\ t \in slots)
      BY <1>3, <2>1, <3>1 DEF Exempt
    <3>3. PICK early \in BOOLEAN : early = (sg[i].to = "prepared")
      OBVIOUS
    <3>4. Owns(refs, t, Holding(js[t].kind, early))
      BY <1>1, <2>1, <3>1, <3>2, <3>3 DEF Awaited
    <3>5. Owns(after, t, Holding(js[t].kind, early))
      BY <1>10, <1>11, <3>2, <3>4
    <3>6. QED BY <1>3, <3>1, <3>3, <3>5
  <2>2. QED BY <2>1 DEF Awaited
<1>16. Asked(ks, after, bs)
  <2>1. ASSUME NEW i \in DOMAIN as
        PROVE  /\ as[i].ask \in RefQuestions =>
                    ks[as[i].job].kind = as[i].ask
                      /\ Owns(after, as[i].job, Holding(as[i].ask, FALSE))
               /\ as[i].ask \in FreeQuestions => Live(after) = {}
                    /\ ks[as[i].job].kind \in LateKinds
               /\ as[i].ask = "shell" => ks[as[i].job].kind = "shell" /\ ~ks[as[i].job].cancelled
               /\ as[i].ask \in {"uefi_helper", "iso_write"} => ks[as[i].job].kind \in IsoRoutes
    <3>1. PICK t : t = as[i].job
      OBVIOUS
    <3>2. CASE as[i].ask \in RefQuestions
      <4>1. t \in Slots /\ as[i].ask \in Kinds /\ as[i].ask # "checksums"
              /\ as[i].ask \notin FreeQuestions
        BY <1>7, <3>1, <3>2 DEF Questions, RefQuestions, FreeQuestions, Kinds, OpenKinds
      <4>2. js[t].kind = as[i].ask /\ Owns(refs, t, Holding(as[i].ask, FALSE))
        BY <1>1, <3>1, <3>2 DEF Asked
      <4>3. Owns(after, t, Holding(as[i].ask, FALSE))
        BY <1>10, <4>1, <4>2
      <4>4. QED BY <1>3, <3>1, <4>1, <4>2, <4>3 DEF FreeQuestions
    <3>3. CASE as[i].ask \in FreeQuestions
      <4>1. t \in Slots /\ as[i].ask \notin RefQuestions
        BY <1>7, <3>1, <3>3 DEF Questions, RefQuestions, FreeQuestions
      <4>2. Live(refs) = {} /\ js[t].kind \in LateKinds
        BY <1>1, <3>1, <3>3 DEF Asked
      <4>3. as[i].ask = "shell" => ks[t].kind = "shell" /\ ~ks[t].cancelled
        <5>1. SUFFICES ASSUME as[i].ask = "shell" PROVE ks[t].kind = "shell" /\ ~ks[t].cancelled
          OBVIOUS
        <5>2. js[t].kind = "shell" /\ ~js[t].cancelled
          BY <1>1, <3>1, <5>1 DEF Asked
        <5>3. t \notin slots
          <6>1. SUFFICES ASSUME t \in slots PROVE FALSE
            OBVIOUS
          <6>2. PICK f \in DOMAIN refs : refs[f] = t
            BY <6>1
          <6>3. f = "zip_overlay_preparer"
            BY <4>2, <6>2 DEF Live
          <6>4. js[t].kind = "overlay"
            BY <1>1, <6>2, <6>3 DEF Overlays
          <6>5. QED BY <5>2, <6>4
        <5>4. QED BY <1>3, <4>1, <5>2, <5>3
      <4>4. as[i].ask \in {"uefi_helper", "iso_write"} => ks[t].kind \in IsoRoutes
        BY <1>1, <1>3, <3>1, <4>1 DEF Asked
      <4>5. QED BY <1>3, <1>9, <3>1, <4>1, <4>2, <4>3, <4>4
    <3>4. CASE as[i].ask \notin RefQuestions \cup FreeQuestions
      BY <3>4 DEF FreeQuestions
    <3>5. QED BY <3>2, <3>3, <3>4
  <2>2. \A i \in DOMAIN bs : i \in DOMAIN as /\ bs[i].ask = as[i].ask /\ bs[i].job = as[i].job
    BY <1>5
  <2>3. QED BY <2>1, <2>2 DEF Asked
<1>17. Once(ks, bs, sg)
  <2>1. OneQuestion(bs)
    BY <1>1, <1>5 DEF Once, OneQuestion
  <2>2. Apart(bs, sg)
    <3>1. Apart(as, sg)
      BY <1>1 DEF Once
    <3>2. ASSUME NEW i \in DOMAIN sg, NEW j \in DOMAIN bs, sg[i].to \in Endings,
                   bs[j].ask \in Questions
          PROVE  sg[i].job # bs[j].job
      <4>1. j \in DOMAIN as /\ as[j].ask \in Questions /\ bs[j].job = as[j].job
        BY <1>5, <3>2
      <4>2. sg[i].job # as[j].job
        BY <3>1, <3>2, <4>1 DEF Apart
      <4>3. QED BY <4>1, <4>2
    <3>3. QED BY <3>2 DEF Apart
  <2>3. Resting(ks, bs, sg)
    <3>1. Resting(js, as, sg)
      BY <1>1 DEF Once
    <3>2. \A i \in DOMAIN sg : sg[i].to \in Endings => ks[sg[i].job].step = "none"
      BY <1>3, <1>6, <3>1 DEF Resting
    <3>3. ASSUME NEW j \in DOMAIN bs, bs[j].ask \in Questions PROVE ks[bs[j].job].step = "none"
      <4>1. j \in DOMAIN as /\ as[j].ask \in Questions /\ bs[j].job = as[j].job
        BY <1>5, <3>3
      <4>2. PICK t \in Slots : t = as[j].job
        BY <1>7, <4>1
      <4>3. js[t].step = "none"
        BY <3>1, <4>1, <4>2 DEF Resting
      <4>4. ks[t].step = "none"
        BY <1>3, <4>3
      <4>5. QED BY <4>1, <4>2, <4>4
    <3>4. QED BY <3>2, <3>3 DEF Resting
  <2>4. QED BY <1>1, <2>1, <2>2, <2>3 DEF Once
<1>18. Starting(ks, after, bs, sg)
  <2>1. ASSUME NEW i \in DOMAIN bs, bs[i].ask \in Starters
        PROVE  /\ i = 1 /\ Live(after) = {}
               /\ \E s \in Slots : ks[s] = NoJob /\ ~HeldIn(s, after, bs, sg)
               /\ \A j \in DOMAIN bs : bs[j].ask \notin Questions
    <3>1. i \in DOMAIN as /\ as[i].ask \in Starters
      BY <1>5, <2>1
    <3>2. i = 1 /\ Live(refs) = {} /\ \A j \in DOMAIN as : as[j].ask \notin Questions
      BY <1>1, <3>1 DEF Starting
    <3>3. PICK s \in Slots : js[s] = NoJob /\ ~HeldIn(s, refs, as, sg)
      BY <1>1, <3>1 DEF Starting
    <3>4. s \notin slots
      BY <3>3 DEF HeldIn
    <3>5. ks[s] = NoJob
      BY <1>3, <3>3, <3>4
    <3>6. ~HeldIn(s, after, bs, sg)
      BY <1>4, <1>5, <3>3 DEF HeldIn
    <3>7. QED BY <1>5, <1>9, <3>2, <3>5, <3>6
  <2>2. QED BY <2>1 DEF Starting
<1>19. Overlays(ks, after)
  <2>1. "zip_overlay_preparer" \in DOMAIN after => ks[after["zip_overlay_preparer"]].kind = "overlay"
    BY <1>1, <1>3, <1>4 DEF Overlays, Typed
  <2>2. ASSUME NEW t \in Slots, ks[t].kind = "overlay", ks[t].step # "none", ~ks[t].cancelled
        PROVE  Refers(after, "zip_overlay_preparer", t)
    <3>1. js[t].kind = "overlay" /\ js[t].step # "none" /\ ~js[t].cancelled /\ t \notin slots
      BY <1>3, <2>2
    <3>2. "zip_overlay_preparer" \in DOMAIN refs /\ refs["zip_overlay_preparer"] = t
      BY <1>1, <3>1 DEF Overlays, Refers
    <3>3. "zip_overlay_preparer" \notin forgotten
      BY <3>1, <3>2
    <3>4. QED BY <1>4, <3>2, <3>3 DEF Refers
  <2>3. QED BY <2>1, <2>2 DEF Overlays
<1>20. Shut(ks, win)
  BY <1>1, <1>3 DEF Shut
<1>21. OpenExcept(ks, bs, sg, {})
  <2>1. \A t \in Slots : (\E i \in DOMAIN as : as[i].ask \in Questions /\ as[i].job = t)
          => \E i \in DOMAIN bs : bs[i].ask \in Questions /\ bs[i].job = t
    BY <1>5
  <2>2. QED BY <1>1, <1>3, <2>1 DEF OpenExcept
<1>22. QED BY <1>12, <1>13, <1>14, <1>15, <1>16, <1>17, <1>18, <1>19, <1>20, <1>21 DEF Safe, Most

\* Without an operation nothing runs but a planner and what was cancelled.
LEMMA IdleIsShut ==
  ASSUME NEW js, NEW refs, NEW as, NEW sg, NEW by, NEW win, Safe(js, refs, as, sg, by, win),
         Live(refs) = {}, NEW ks, Marks(js, ks, ReferredBy(refs, {"zip_overlay_preparer"}))
  PROVE  \A s \in Slots : ks[s].step # "none" => ks[s].cancelled
<1>1. js \in [Slots -> JobRecord] /\ Working(js, refs) /\ Overlays(js, refs)
  BY DEF Safe, Most, Typed
<1>2. ASSUME NEW s \in Slots, ks[s].step # "none" PROVE ks[s].cancelled
  <2>1. js[s].step # "none" /\ (js[s].cancelled => ks[s].cancelled)
    BY <1>2 DEF Marks
  <2>2. js[s] \in JobRecord
    BY <1>1
  <2>3. js[s].kind \in Kinds
    BY <2>2 DEF JobRecord
  <2>4. PICK early \in BOOLEAN : early = (js[s].step = "prepare")
    OBVIOUS
  <2>5. Holding(js[s].kind, early) # {}
    BY <2>3, HoldingFacts
  <2>6. Exempt(js[s])
    BY <1>1, <2>1, <2>4, <2>5 DEF Working, Owns
  <2>7. CASE js[s].cancelled
    BY <2>1, <2>7
  <2>8. CASE ~js[s].cancelled
    <3>1. Refers(refs, "zip_overlay_preparer", s)
      BY <1>1, <2>1, <2>6, <2>8 DEF Exempt, Overlays
    <3>2. s \in ReferredBy(refs, {"zip_overlay_preparer"})
      BY <3>1 DEF Refers, ReferredBy
    <3>3. QED BY <3>2 DEF Marks
  <2>9. QED BY <2>7, <2>8
<1>3. QED BY <1>2

\* The window takes another state, with every worker cancelled if it is closed.
LEMMA ShutIsSafe ==
  ASSUME NEW js, NEW refs, NEW as, NEW sg, NEW by, NEW win, Safe(js, refs, as, sg, by, win),
         NEW now, now # "closed" \/ \A s \in Slots : js[s].step # "none" => js[s].cancelled
  PROVE  Safe(js, refs, as, sg, by, now)
<1>1. Shut(js, now)
  BY DEF Shut
<1>2. QED BY <1>1 DEF Safe, Most

-----------------------------------------------------------------------------
(* Starters, planners and workers. *)

\* A slot that nothing refers to is as good as the claim of a handler.
LEMMA FreeIsHandled ==
  ASSUME NEW js, NEW refs, NEW as, NEW sg, NEW by, NEW win, Safe(js, refs, as, sg, by, win),
         Live(refs) = {}, Clear(as), NEW s \in Slots, js[s] = NoJob, ~HeldIn(s, refs, as, sg)
  PROVE  Handled(js, refs, as, sg, by, win, s)
<1>1. Most(js, refs, as, sg, by, win) /\ OpenExcept(js, as, sg, {})
  BY DEF Safe
<1>2. OpenExcept(js, as, sg, {s})
  BY <1>1 DEF OpenExcept
<1>3. Quiet(js, as, sg, s)
  BY NoJobTyped DEF Quiet, HeldIn
<1>4. Mine(refs, s) /\ js[s].kind # "overlay"
  BY DEF Mine, NoJob
<1>5. QED BY <1>1, <1>2, <1>3, <1>4 DEF Handled

\* A starter asks.
LEMMA StarterIsSafe ==
  ASSUME NEW js, NEW refs, NEW sg, NEW by, NEW win, Safe(js, refs, <<>>, sg, by, win),
         Live(refs) = {}, NEW s \in Slots, js[s] = NoJob, ~HeldIn(s, refs, <<>>, sg),
         NEW name \in Starters
  PROVE  Safe(js, refs, Opened(<<>>, name, 0), sg, by, win)
<1>1. /\ Typed(js, refs, <<>>, sg, by) /\ Attributes(refs, by) /\ Working(js, refs)
      /\ Awaited(js, refs, sg)
      /\ Once(js, <<>>, sg) /\ Overlays(js, refs) /\ Shut(js, win) /\ OpenExcept(js, <<>>, sg, {})
  BY DEF Safe, Most
<1>2. PICK a : a = Ask(name, 0)
  OBVIOUS
<1>3. a \in AskRecord /\ a.ask = name /\ a.job = 0
  BY <1>2 DEF Ask, AskRecord
<1>4. PICK bs : bs = <<a>>
  OBVIOUS
<1>5. bs = Opened(<<>>, name, 0)
  BY <1>2, <1>4 DEF Opened
<1>6. bs \in Seq(AskRecord) /\ DOMAIN bs = {1} /\ bs[1] = a
  BY <1>3, <1>4
<1>7. name \notin Questions
  BY DEF Questions, RefQuestions, FreeQuestions, Starters
<1>8. \A i \in DOMAIN bs : i = 1 /\ bs[i].ask \notin Questions /\ bs[i].job = 0
  BY <1>3, <1>6, <1>7
<1>9. Typed(js, refs, bs, sg, by)
  BY <1>1, <1>6 DEF Typed
<1>10. Asked(js, refs, bs)
  BY <1>8 DEF Asked, Questions, FreeQuestions
<1>11. Once(js, bs, sg)
  BY <1>1, <1>8 DEF Once, OneQuestion, Apart, Resting
<1>12. Starting(js, refs, bs, sg)
  <2>1. ~HeldIn(s, refs, bs, sg)
    BY <1>8, SlotsTyped DEF HeldIn
  <2>2. QED BY <1>8, <2>1 DEF Starting
<1>13. OpenExcept(js, bs, sg, {})
  <2>1. ~ \E i \in DOMAIN <<>> : TRUE
    OBVIOUS
  <2>2. QED BY <1>1, <2>1 DEF OpenExcept
<1>14. Safe(js, refs, bs, sg, by, win)
  BY <1>1, <1>9, <1>10, <1>11, <1>12, <1>13 DEF Safe, Most
<1>15. QED BY <1>5, <1>14

\* The planner of an overlay begins, when there is no other.
LEMMA OverlayIsSafe ==
  ASSUME NEW js, NEW refs, NEW as, NEW sg, NEW by, NEW win, Safe(js, refs, as, sg, by, win),
         win # "closed", Live(refs) = {}, "zip_overlay_preparer" \notin DOMAIN refs, Clear(as),
         NEW s \in Slots, js[s] = NoJob, ~HeldIn(s, refs, as, sg),
         NEW after, after = With(refs, {"zip_overlay_preparer"}, s),
         NEW ks \in [Slots -> JobRecord], \A t \in Slots \ {s} : ks[t] = js[t],
         ks[s].kind = "overlay", ks[s].step = "work", ~ks[s].open
  PROVE  Safe(ks, after, as, sg, by, win)
<1>1. /\ Typed(js, refs, as, sg, by) /\ Attributes(refs, by) /\ Working(js, refs)
      /\ Awaited(js, refs, sg)
      /\ Asked(js, refs, as) /\ Once(js, as, sg) /\ Starting(js, refs, as, sg) /\ Overlays(js, refs)
      /\ Shut(js, win) /\ OpenExcept(js, as, sg, {})
  BY DEF Safe, Most
<1>2. js \in [Slots -> JobRecord] /\ as \in Seq(AskRecord) /\ sg \in Seq(SignalRecord)
  BY <1>1 DEF Typed
<1>3. DOMAIN refs = {}
  BY DEF Live
<1>4. DOMAIN after = {"zip_overlay_preparer"} /\ after["zip_overlay_preparer"] = s
        /\ Live(after) = {}
  BY <1>3 DEF With, Live
<1>5. \A t \in Slots : t # s => ks[t] = js[t]
  OBVIOUS
<1>6. \A i \in DOMAIN sg : sg[i].to \in Endings => sg[i].job \in Slots /\ sg[i].job # s
  BY <1>2, Entries DEF HeldIn
<1>7. \A i \in DOMAIN as : as[i].ask \notin Questions /\ as[i].ask \notin Starters
  BY DEF Clear
<1>8. \A t \in Slots : \A early \in BOOLEAN : Holding(js[t].kind, early) # {}
  BY <1>2, HoldingFacts DEF JobRecord
<1>9. Typed(ks, after, as, sg, by)
  <2>1. \A t \in Slots : ks[t].step \in Late => ks[t].kind \in LateKinds
    BY <1>1, <1>5 DEF Typed, Late
  <2>2. "finished" \in Endings /\ "media_finished" \in Endings
    BY DEF Endings
  <2>3. \A i \in DOMAIN sg :
          /\ sg[i].to = "finished" => ks[sg[i].job].kind \in Simple \cup {"media"} \cup LateKinds
          /\ sg[i].to = "media_finished" => ks[sg[i].job].kind = "media"
    BY <1>1, <1>5, <1>6, <2>2 DEF Typed
  <2>4. QED BY <1>1, <1>4, <2>1, <2>3 DEF Typed, Fields
<1>10. Attributes(after, by)
  BY <1>4 DEF Attributes
<1>11. Working(ks, after)
  <2>1. ASSUME NEW t \in Slots, ks[t].step # "none", ~Exempt(ks[t]) PROVE FALSE
    <3>1. t # s
      BY <2>1 DEF Exempt
    <3>2. PICK early \in BOOLEAN : early = (js[t].step = "prepare")
      OBVIOUS
    <3>3. Owns(refs, t, Holding(js[t].kind, early))
      BY <1>1, <1>5, <2>1, <3>1, <3>2 DEF Working
    <3>4. QED BY <1>8, <3>3 DEF Owns
  <2>2. QED BY <2>1 DEF Working
<1>12. Awaited(ks, after, sg)
  <2>1. ASSUME NEW i \in DOMAIN sg, sg[i].to \in Endings, ~Exempt(ks[sg[i].job]) PROVE FALSE
    <3>1. PICK t \in Slots \ {s} : t = sg[i].job
      BY <1>6, <2>1
    <3>2. PICK early \in BOOLEAN : early = (sg[i].to = "prepared")
      OBVIOUS
    <3>3. Owns(refs, t, Holding(js[t].kind, early))
      BY <1>1, <1>5, <2>1, <3>1, <3>2 DEF Awaited
    <3>4. QED BY <1>8, <3>3 DEF Owns
  <2>2. QED BY <2>1 DEF Awaited
<1>13. Asked(ks, after, as)
  BY <1>7 DEF Asked, Questions, FreeQuestions
<1>14. Once(ks, as, sg)
  <2>1. Resting(ks, as, sg)
    BY <1>1, <1>5, <1>6, <1>7 DEF Once, Resting
  <2>2. QED BY <1>1, <2>1 DEF Once
<1>15. Starting(ks, after, as, sg)
  BY <1>7 DEF Starting
<1>16. Overlays(ks, after)
  <2>1. ASSUME NEW t \in Slots, ks[t].kind = "overlay", ks[t].step # "none", ~ks[t].cancelled
        PROVE  t = s
    BY <1>1, <1>5, <2>1 DEF Overlays, Refers
  <2>2. QED BY <1>4, <2>1 DEF Overlays, Refers
<1>17. Shut(ks, win)
  BY DEF Shut
<1>18. OpenExcept(ks, as, sg, {})
  BY <1>1, <1>5 DEF OpenExcept
<1>19. QED BY <1>9, <1>10, <1>11, <1>12, <1>13, <1>14, <1>15, <1>16, <1>17, <1>18 DEF Safe, Most

\* A signal is queued that ends no worker.
LEMMA NewsIsSafe ==
  ASSUME NEW js, NEW refs, NEW as, NEW sg, NEW by, NEW win, Safe(js, refs, as, sg, by, win),
         NEW m \in SignalRecord, m.to \notin Endings, m.job \in Slots => js[m.job] # NoJob
  PROVE  Safe(js, refs, as, Append(sg, m), by, win)
<1>1. /\ Typed(js, refs, as, sg, by) /\ Attributes(refs, by) /\ Working(js, refs)
      /\ Awaited(js, refs, sg)
      /\ Asked(js, refs, as) /\ Once(js, as, sg) /\ Starting(js, refs, as, sg) /\ Overlays(js, refs)
      /\ Shut(js, win) /\ OpenExcept(js, as, sg, {})
  BY DEF Safe, Most
<1>2. sg \in Seq(SignalRecord)
  BY <1>1 DEF Typed
<1>3. PICK more : more = Append(sg, m)
  OBVIOUS
<1>4. more \in Seq(SignalRecord) /\ Grows(sg, more, m)
  BY <1>2, <1>3, Pushed
<1>5. /\ DOMAIN sg \subseteq DOMAIN more /\ \A i \in DOMAIN sg : more[i] = sg[i]
      /\ \A i \in DOMAIN more : i \in DOMAIN sg \/ more[i] = m
  BY <1>4 DEF Grows
<1>6. \A i \in DOMAIN more : more[i].to \in Endings => i \in DOMAIN sg /\ more[i] = sg[i]
  BY <1>5
<1>7. Typed(js, refs, as, more, by)
  <2>1. "finished" \in Endings /\ "media_finished" \in Endings
    BY DEF Endings
  <2>2. QED BY <1>1, <1>4, <1>6, <2>1 DEF Typed
<1>8. Awaited(js, refs, more)
  BY <1>1, <1>6 DEF Awaited
<1>9. Once(js, as, more)
  <2>1. OneEnding(more)
    BY <1>1, <1>6 DEF Once, OneEnding
  <2>2. Apart(as, more)
    BY <1>1, <1>6 DEF Once, Apart
  <2>3. Resting(js, as, more)
    BY <1>1, <1>6 DEF Once, Resting
  <2>4. QED BY <1>1, <2>1, <2>2, <2>3 DEF Once
<1>10. Starting(js, refs, as, more)
  <2>1. ASSUME NEW i \in DOMAIN as, as[i].ask \in Starters
        PROVE  \E s \in Slots : js[s] = NoJob /\ ~HeldIn(s, refs, as, more)
    <3>1. PICK s \in Slots : js[s] = NoJob /\ ~HeldIn(s, refs, as, sg)
      BY <1>1, <2>1 DEF Starting
    <3>2. ~HeldIn(s, refs, as, more)
      BY <1>5, <3>1 DEF HeldIn
    <3>3. QED BY <3>1, <3>2
  <2>2. QED BY <1>1, <2>1 DEF Starting
<1>11. OpenExcept(js, as, more, {})
  <2>1. \A s \in Slots : (\E i \in DOMAIN sg : sg[i].to \in Endings /\ sg[i].job = s)
          => \E i \in DOMAIN more : more[i].to \in Endings /\ more[i].job = s
    BY <1>5
  <2>2. QED BY <1>1, <2>1 DEF OpenExcept
<1>12. QED BY <1>1, <1>3, <1>7, <1>8, <1>9, <1>10, <1>11 DEF Safe, Most

\* One job goes on, and stays what it is.
Reworked(js, ks, s) ==
  /\ ks \in [Slots -> JobRecord] /\ \A t \in Slots \ {s} : ks[t] = js[t]
  /\ ks[s].kind = js[s].kind /\ ks[s].cancelled = js[s].cancelled /\ ks[s].open = js[s].open

\* A worker goes on after its preparation, or the review of a job takes another state.
LEMMA StepIsSafe ==
  ASSUME NEW js, NEW refs, NEW as, NEW sg, NEW by, NEW win, Safe(js, refs, as, sg, by, win),
         NEW s \in Slots, js[s] # NoJob \/ HeldIn(s, refs, as, sg),
         NEW ks, Reworked(js, ks, s),
         \/ ks[s].step = js[s].step
         \/ {ks[s].step, js[s].step} \cap {"none", "prepare"} = {},
         ks[s].step \in Late => ks[s].kind \in LateKinds
  PROVE  Safe(ks, refs, as, sg, by, win)
<1> USE DEF Reworked
<1>1. /\ Typed(js, refs, as, sg, by) /\ Attributes(refs, by) /\ Working(js, refs)
      /\ Awaited(js, refs, sg)
      /\ Asked(js, refs, as) /\ Once(js, as, sg) /\ Starting(js, refs, as, sg) /\ Overlays(js, refs)
      /\ Shut(js, win) /\ OpenExcept(js, as, sg, {})
  BY DEF Safe, Most
<1>2. js \in [Slots -> JobRecord] /\ as \in Seq(AskRecord) /\ sg \in Seq(SignalRecord)
  BY <1>1 DEF Typed
<1>3. \A t \in Slots : t # s => ks[t] = js[t]
  OBVIOUS
<1>4. \A t \in Slots : /\ ks[t].kind = js[t].kind /\ ks[t].cancelled = js[t].cancelled /\ ks[t].open = js[t].open
                       /\ ks[t].step = "none" <=> js[t].step = "none"
                       /\ ks[t].step = "prepare" <=> js[t].step = "prepare"
  BY <1>3
<1>5. \A i \in DOMAIN sg : sg[i].to \in Endings => sg[i].job \in Slots
  BY <1>2, Entries
<1>6. \A i \in DOMAIN as : as[i].ask \in Questions => as[i].job \in Slots
  BY <1>2, Entries
<1>7. \A t \in Slots : Exempt(ks[t]) <=> Exempt(js[t])
  BY <1>4 DEF Exempt
<1>8. Typed(ks, refs, as, sg, by)
  <2>1. \A t \in Slots : ks[t].step \in Late => ks[t].kind \in LateKinds
    BY <1>1, <1>3 DEF Typed
  <2>2. "finished" \in Endings /\ "media_finished" \in Endings
    BY DEF Endings
  <2>3. \A i \in DOMAIN sg :
          /\ sg[i].to = "finished" => ks[sg[i].job].kind \in Simple \cup {"media"} \cup LateKinds
          /\ sg[i].to = "media_finished" => ks[sg[i].job].kind = "media"
    BY <1>1, <1>4, <1>5, <2>2 DEF Typed
  <2>4. QED BY <1>1, <2>1, <2>3 DEF Typed
<1>9. Working(ks, refs)
  <2>1. ASSUME NEW t \in Slots, ks[t].step # "none", ~Exempt(ks[t])
        PROVE  Owns(refs, t, Holding(ks[t].kind, ks[t].step = "prepare"))
    <3>1. Owns(refs, t, Holding(js[t].kind, js[t].step = "prepare"))
      BY <1>1, <1>4, <1>7, <2>1 DEF Working
    <3>2. (ks[t].step = "prepare") = (js[t].step = "prepare")
      BY <1>4
    <3>3. QED BY <1>4, <3>1, <3>2
  <2>2. QED BY <2>1 DEF Working
<1>10. Awaited(ks, refs, sg)
  BY <1>1, <1>4, <1>5, <1>7 DEF Awaited
<1>11. Asked(ks, refs, as)
  <2>1. RefQuestions \subseteq Questions /\ FreeQuestions \subseteq Questions
          /\ {"shell", "uefi_helper", "iso_write"} \subseteq Questions
    BY DEF Questions, FreeQuestions
  <2>2. QED BY <1>1, <1>4, <1>6, <2>1, ZenonT(60) DEF Asked
<1>12. Once(ks, as, sg)
  <2>1. Resting(ks, as, sg)
    BY <1>1, <1>4, <1>5, <1>6 DEF Once, Resting
  <2>2. QED BY <1>1, <2>1 DEF Once
<1>13. Starting(ks, refs, as, sg)
  <2>1. \A t \in Slots : js[t] = NoJob /\ ~HeldIn(t, refs, as, sg) => ks[t] = NoJob
    BY <1>3
  <2>2. QED BY <1>1, <2>1 DEF Starting
<1>14. Overlays(ks, refs)
  BY <1>1, <1>4 DEF Overlays, Typed
<1>15. Shut(ks, win)
  BY <1>1, <1>4 DEF Shut
<1>16. OpenExcept(ks, as, sg, {})
  BY <1>1, <1>4 DEF OpenExcept
<1>17. QED BY <1>1, <1>8, <1>9, <1>10, <1>11, <1>12, <1>13, <1>14, <1>15, <1>16 DEF Safe, Most

\* A worker ends, and its signal takes over the claim.
LEMMA EndIsSafe ==
  ASSUME NEW js, NEW refs, NEW as, NEW sg, NEW by, NEW win, Safe(js, refs, as, sg, by, win),
         NEW s \in Slots, js[s].step # "none",
         NEW ks \in [Slots -> JobRecord], \A t \in Slots \ {s} : ks[t] = js[t],
         ks[s].kind = js[s].kind, ks[s].cancelled = js[s].cancelled, ks[s].open => js[s].open,
         ks[s].step = "none",
         NEW m \in SignalRecord, m.to \in Endings, m.job = s,
         Holding(js[s].kind, m.to = "prepared") = Holding(js[s].kind, js[s].step = "prepare"),
         m.to = "finished" => js[s].kind \in Simple \cup {"media"} \cup LateKinds,
         m.to = "media_finished" => js[s].kind = "media"
  PROVE  Safe(ks, refs, as, Append(sg, m), by, win)
<1>1. /\ Typed(js, refs, as, sg, by) /\ Attributes(refs, by) /\ Working(js, refs)
      /\ Awaited(js, refs, sg)
      /\ Asked(js, refs, as) /\ Once(js, as, sg) /\ Starting(js, refs, as, sg) /\ Overlays(js, refs)
      /\ Shut(js, win) /\ OpenExcept(js, as, sg, {})
  BY DEF Safe, Most
<1>2. js \in [Slots -> JobRecord] /\ as \in Seq(AskRecord) /\ sg \in Seq(SignalRecord)
  BY <1>1 DEF Typed
<1>3. \A t \in Slots : t # s => ks[t] = js[t]
  OBVIOUS
<1>4. \A t \in Slots : ks[t].kind = js[t].kind /\ ks[t].cancelled = js[t].cancelled
  BY <1>3
<1>5. PICK more : more = Append(sg, m)
  OBVIOUS
<1>6. more \in Seq(SignalRecord) /\ Grows(sg, more, m)
  BY <1>2, <1>5, Pushed
<1>7. /\ DOMAIN sg \subseteq DOMAIN more /\ \A i \in DOMAIN sg : more[i] = sg[i]
      /\ \A i \in DOMAIN more : i \in DOMAIN sg \/ (i = Len(sg) + 1 /\ more[i] = m)
      /\ Len(sg) + 1 \in DOMAIN more /\ more[Len(sg) + 1] = m
  BY <1>6 DEF Grows
<1>8. \A i \in DOMAIN sg : sg[i].to \in Endings => sg[i].job \in Slots /\ sg[i].job # s
  BY <1>1, <1>2, Entries DEF Once, Resting
<1>9. \A i \in DOMAIN as : as[i].ask \in Questions => as[i].job \in Slots /\ as[i].job # s
  BY <1>1, <1>2, Entries DEF Once, Resting
<1>10. \A t \in Slots : Exempt(ks[t]) <=> Exempt(js[t])
  BY <1>4 DEF Exempt
<1>11. Typed(ks, refs, as, more, by)
  <2>1. \A t \in Slots : ks[t].step \in Late => ks[t].kind \in LateKinds
    BY <1>1, <1>3 DEF Typed, Late
  <2>2. "finished" \in Endings /\ "media_finished" \in Endings
    BY DEF Endings
  <2>3. ASSUME NEW i \in DOMAIN more
        PROVE  /\ more[i].to = "finished" => ks[more[i].job].kind \in Simple \cup {"media"}
                 \cup LateKinds
               /\ more[i].to = "media_finished" => ks[more[i].job].kind = "media"
    <3>1. CASE i \in DOMAIN sg
      BY <1>1, <1>4, <1>7, <1>8, <2>2, <3>1 DEF Typed
    <3>2. CASE more[i] = m
      BY <3>2
    <3>3. QED BY <1>7, <3>1, <3>2
  <2>4. QED BY <1>1, <1>6, <2>1, <2>3 DEF Typed
<1>12. Working(ks, refs)
  <2>1. ASSUME NEW t \in Slots, ks[t].step # "none", ~Exempt(ks[t])
        PROVE  Owns(refs, t, Holding(ks[t].kind, ks[t].step = "prepare"))
    <3>1. t # s
      BY <2>1
    <3>2. ks[t] = js[t]
      BY <1>3, <3>1
    <3>3. QED BY <1>1, <2>1, <3>2 DEF Working
  <2>2. QED BY <2>1 DEF Working
<1>13. Awaited(ks, refs, more)
  <2>1. ASSUME NEW i \in DOMAIN more, more[i].to \in Endings, ~Exempt(ks[more[i].job])
        PROVE  Owns(refs, more[i].job, Holding(ks[more[i].job].kind, more[i].to = "prepared"))
    <3>1. CASE i \in DOMAIN sg
      BY <1>1, <1>4, <1>7, <1>8, <1>10, <2>1, <3>1 DEF Awaited
    <3>2. CASE more[i] = m
      <4>1. ~Exempt(js[s])
        BY <1>10, <2>1, <3>2
      <4>2. Owns(refs, s, Holding(js[s].kind, js[s].step = "prepare"))
        BY <1>1, <4>1 DEF Working
      <4>3. QED BY <3>2, <4>2
    <3>3. QED BY <1>7, <3>1, <3>2
  <2>2. QED BY <2>1 DEF Awaited
<1>14. Asked(ks, refs, as)
  <2>1. RefQuestions \subseteq Questions /\ FreeQuestions \subseteq Questions
          /\ {"shell", "uefi_helper", "iso_write"} \subseteq Questions
    BY DEF Questions, FreeQuestions
  <2>2. QED BY <1>1, <1>4, <1>9, <2>1, ZenonT(60) DEF Asked
<1>15. Once(ks, as, more)
  <2>1. OneEnding(more)
    <3>1. ASSUME NEW i \in DOMAIN more, NEW j \in DOMAIN more, more[i].to \in Endings,
                   more[j].to \in Endings,
                 more[i].job = more[j].job
          PROVE  i = j
      <4>1. CASE i \in DOMAIN sg /\ j \in DOMAIN sg
        BY <1>1, <1>7, <3>1, <4>1 DEF Once, OneEnding
      <4>2. CASE i \in DOMAIN sg /\ more[j] = m
        BY <1>7, <1>8, <3>1, <4>2
      <4>3. CASE j \in DOMAIN sg /\ more[i] = m
        BY <1>7, <1>8, <3>1, <4>3
      <4>4. CASE i = Len(sg) + 1 /\ j = Len(sg) + 1
        BY <4>4
      <4>5. QED BY <1>7, <4>1, <4>2, <4>3, <4>4
    <3>2. QED BY <3>1 DEF OneEnding
  <2>2. Apart(as, more)
    <3>1. ASSUME NEW i \in DOMAIN more, NEW j \in DOMAIN as, more[i].to \in Endings,
                   as[j].ask \in Questions
          PROVE  more[i].job # as[j].job
      <4>1. CASE i \in DOMAIN sg
        BY <1>1, <1>7, <3>1, <4>1 DEF Once, Apart
      <4>2. CASE more[i] = m
        BY <1>9, <3>1, <4>2
      <4>3. QED BY <1>7, <4>1, <4>2
    <3>2. QED BY <3>1 DEF Apart
  <2>3. Resting(ks, as, more)
    <3>1. ASSUME NEW i \in DOMAIN more, more[i].to \in Endings PROVE ks[more[i].job].step = "none"
      <4>1. CASE i \in DOMAIN sg
        <5>1. sg[i].to \in Endings /\ more[i] = sg[i]
          BY <1>7, <3>1, <4>1
        <5>2. js[sg[i].job].step = "none"
          BY <1>1, <4>1, <5>1 DEF Once, Resting
        <5>3. QED BY <1>3, <1>8, <4>1, <5>1, <5>2
      <4>2. CASE more[i] = m
        BY <4>2
      <4>3. QED BY <1>7, <4>1, <4>2
    <3>2. \A j \in DOMAIN as : as[j].ask \in Questions => ks[as[j].job].step = "none"
      BY <1>1, <1>3, <1>9 DEF Once, Resting
    <3>3. QED BY <3>1, <3>2 DEF Resting
  <2>4. QED BY <1>1, <2>1, <2>2, <2>3 DEF Once
<1>16. Starting(ks, refs, as, more)
  <2>1. ASSUME NEW i \in DOMAIN as, as[i].ask \in Starters
        PROVE  \E t \in Slots : ks[t] = NoJob /\ ~HeldIn(t, refs, as, more)
    <3>1. PICK t \in Slots : js[t] = NoJob /\ ~HeldIn(t, refs, as, sg)
      BY <1>1, <2>1 DEF Starting
    <3>2. t # s
      BY <3>1, NoJobTyped
    <3>3. ~HeldIn(t, refs, as, more)
      BY <1>7, <3>1, <3>2, ZenonT(60) DEF HeldIn
    <3>4. QED BY <1>3, <3>1, <3>2, <3>3
  <2>2. QED BY <1>1, <2>1 DEF Starting
<1>17. Overlays(ks, refs)
  <2>1. "zip_overlay_preparer" \in DOMAIN refs => ks[refs["zip_overlay_preparer"]].kind = "overlay"
    BY <1>1, <1>4 DEF Overlays, Typed
  <2>2. ASSUME NEW t \in Slots, ks[t].kind = "overlay", ks[t].step # "none", ~ks[t].cancelled
        PROVE  Refers(refs, "zip_overlay_preparer", t)
    <3>1. t # s
      BY <2>2
    <3>2. QED BY <1>1, <1>3, <2>2, <3>1 DEF Overlays
  <2>3. QED BY <2>1, <2>2 DEF Overlays
<1>18. Shut(ks, win)
  BY <1>1, <1>3 DEF Shut
<1>19. OpenExcept(ks, as, more, {})
  <2>1. ASSUME NEW t \in Slots, ks[t].open
        PROVE  /\ ks[t].kind \in OpenKinds
               /\ \/ ks[t].step # "none"
                  \/ \E i \in DOMAIN more : more[i].to \in Endings /\ more[i].job = t
                  \/ \E i \in DOMAIN as : as[i].ask \in Questions /\ as[i].job = t
    <3>1. CASE t = s
      <4>1. js[s].open
        BY <2>1, <3>1
      <4>2. ks[t].kind \in OpenKinds
        BY <1>1, <1>4, <3>1, <4>1 DEF OpenExcept
      <4>3. \E i \in DOMAIN more : more[i].to \in Endings /\ more[i].job = t
        BY <1>7, <3>1
      <4>4. QED BY <4>2, <4>3
    <3>2. CASE t # s
      <4>1. (\E i \in DOMAIN sg : sg[i].to \in Endings /\ sg[i].job = t)
              => \E i \in DOMAIN more : more[i].to \in Endings /\ more[i].job = t
        BY <1>7
      <4>2. QED BY <1>1, <1>3, <2>1, <3>2, <4>1 DEF OpenExcept
    <3>3. QED BY <3>1, <3>2
  <2>2. QED BY <2>1 DEF OpenExcept
<1>20. QED BY <1>1, <1>5, <1>11, <1>12, <1>13, <1>14, <1>15, <1>16, <1>17, <1>18, <1>19
  DEF Safe, Most

-----------------------------------------------------------------------------
(* The ends of the handlers. *)

\* No worker takes a destructive step whose job was cancelled before.
Destructive == {"execute", "write"}
Heard(js, ks) ==
  \A s \in Slots : js[s].cancelled /\ js[s].step \notin Destructive => ks[s].step \notin Destructive

Good == IInv' /\ Heard(jobs, jobs')

\* What a handler forgets at its end depends on what it leaves.
LEMMA TidiedIsTidy ==
  ASSUME NEW js
  PROVE  Tidied(js) = Tidy(js, owner', asks', signals')
<1>1. ASSUME NEW s PROVE Held(s)' <=> HeldIn(s, owner', asks', signals')
  BY DEF Held, HeldIn, ReferredBy
<1>2. QED BY <1>1 DEF Tidied, Tidy

\* A handler settles a state of its own making.
LEMMA Settles ==
  ASSUME NEW ks, Safe(ks, owner', asks', signals', busy', window'), Heard(jobs, ks),
         jobs' = Tidied(ks)
  PROVE  Good
<1>1. PICK ls : ls = Tidied(ks)
  OBVIOUS
<1>2. ls = Tidy(ks, owner', asks', signals')
  BY <1>1, TidiedIsTidy
<1>3. Safe(ls, owner', asks', signals', busy', window')
  BY <1>2, TidyIsSafe
<1>4. \A s \in Slots : ls[s] = ks[s] \/ ls[s] = NoJob
  BY <1>2 DEF Tidy
<1>5. Heard(jobs, ls)
  BY <1>4, NoJobTyped DEF Heard, Destructive
<1>6. QED BY <1>1, <1>3, <1>5 DEF Good, IInv

\* A handler may end in a box.
Shows(under, bs) == bs = under \/ \E name \in Boxes : bs = Opened(under, name, 0)

\* A handler ends with a message box, or without one.
LEMMA ShowIsSafe ==
  ASSUME NEW js, NEW refs, NEW as, NEW sg, NEW by, NEW win, Safe(js, refs, as, sg, by, win),
         NEW bs, Shows(as, bs)
  PROVE  Safe(js, refs, bs, sg, by, win)
<1>1. CASE bs = as
  BY <1>1
<1>2. ASSUME NEW name \in Boxes, bs = Opened(as, name, 0)
      PROVE  Safe(js, refs, bs, sg, by, win)
  <2>1. PICK a : a = Ask(name, 0)
    OBVIOUS
  <2>2. a \in AskRecord /\ a.ask = name /\ a.job = 0
    BY <2>1 DEF Ask, AskRecord
  <2>3. a.job \notin Slots
    BY <2>2, SlotsTyped
  <2>4. Safe(js, refs, Append(as, a), sg, by, win)
    BY <2>2, <2>3, BoxIsSafe
  <2>5. QED BY <1>2, <2>1, <2>4 DEF Opened
<1>3. QED BY <1>1, <1>2 DEF Shows

\* Attributes are reset that are not the planner's.
LEMMA WithoutKeeps ==
  ASSUME NEW refs, NEW fields, "zip_overlay_preparer" \notin fields
  PROVE  /\ SamePlanner(refs, Without(refs, fields))
         /\ Live(Without(refs, fields)) = Live(refs) \ fields
BY DEF SamePlanner, Without, Live

\* To close a workflow is no step of its worker.
LEMMA HeardWhenClosed ==
  ASSUME NEW js \in [Slots -> JobRecord], NEW slots
  PROVE  Heard(js, Closed(js, slots))
BY ClosedJobs DEF Heard

\* What is known of the job whose signal or dialog was taken.
LEMMA HandledFacts ==
  ASSUME NEW js, NEW refs, NEW as, NEW sg, NEW by, NEW win, NEW s,
         Handled(js, refs, as, sg, by, win, s)
  PROVE  /\ s \in Slots /\ js \in [Slots -> JobRecord] /\ js[s].step = "none"
         /\ js[s].kind # "overlay" /\ by \in BOOLEAN
         /\ js[s].open => js[s].kind \in OpenKinds
BY DEF Handled, Most, Typed, Quiet, OpenExcept

\* It is this handler's turn: it has taken the signal or the dialog of the job.
Turn(under, s) == Handled(jobs, owner, under, signals', busy, window, s)

\* It resets every attribute of the operation, and closes what the job holds.
LEMMA Reset ==
  ASSUME NEW under, NEW s, Turn(under, s), NEW slots, jobs[s].open => s \in slots,
         Live(owner') = {}, SamePlanner(owner, owner'), busy' \in BOOLEAN, window' = window,
         Shows(under, asks'), jobs' = Tidied(Closed(jobs, slots))
  PROVE  Good
<1>1. Handled(jobs, owner, under, signals', busy, window, s)
  BY DEF Turn
<1>2. PICK ks : ks = Closed(jobs, slots)
  OBVIOUS
<1>3. PICK refs : refs = owner'
  OBVIOUS
<1>4. PICK with \in BOOLEAN : with = busy'
  OBVIOUS
<1>5. Safe(ks, refs, under, signals', with, window)
  BY <1>1, <1>2, <1>3, ResetIsSafe
<1>6. PICK bs : bs = asks'
  OBVIOUS
<1>7. Safe(ks, refs, bs, signals', with, window)
  BY <1>5, <1>6, ShowIsSafe
<1>8. Safe(ks, owner', asks', signals', busy', window')
  BY <1>3, <1>4, <1>6, <1>7
<1>9. Heard(jobs, ks)
  BY <1>1, <1>2, HandledFacts, HeardWhenClosed
<1>10. QED BY <1>2, <1>8, <1>9, Settles

\* A handler ends its operation: it closes what the job holds and resets its attributes.
LEMMA EndsIsGood ==
  ASSUME NEW under, NEW s, Turn(under, s), NEW bs, Shows(under, bs), NEW slots,
         jobs[s].open => s \in slots, NEW fields, Live(owner) \subseteq fields,
         "zip_overlay_preparer" \notin fields, Ends(bs, slots, fields)
  PROVE  Good
<1>1. /\ owner' = Without(owner, fields) /\ asks' = bs /\ busy' = FALSE /\ window' = window
      /\ jobs' = Tidied(Closed(jobs, slots))
  BY DEF Ends
<1>2. Live(owner') = {} /\ SamePlanner(owner, owner')
  BY <1>1, WithoutKeeps
<1>3. Shows(under, asks') /\ busy' \in BOOLEAN
  BY <1>1
<1>4. QED BY <1>1, <1>2, <1>3, Reset

\* on_finished, called for a job with one of the attributes it closes, ends its operation.
LEMMA FinishedIsGood ==
  ASSUME NEW under, NEW s, Turn(under, s), Live(owner) \subseteq FinishedFields,
         jobs[s].open => s \in ReferredBy(owner, WorkflowFields \cup WorkspaceFields),
         OnFinished(under, jobs)
  PROVE  Good
<1>1. PICK slots : slots = ReferredBy(owner, WorkflowFields \cup WorkspaceFields)
  OBVIOUS
<1>2. /\ owner' = Without(owner, FinishedFields) /\ asks' = Opened(under, "notice", 0)
      /\ busy' = FALSE /\ window' = window /\ jobs' = Tidied(Closed(jobs, slots))
  BY <1>1 DEF OnFinished
<1>3. "zip_overlay_preparer" \notin FinishedFields
  BY DEF FinishedFields, OperationFields, WorkspaceFields
<1>4. Live(owner') = {} /\ SamePlanner(owner, owner')
  BY <1>2, <1>3, WithoutKeeps
<1>5. Shows(under, asks') /\ busy' \in BOOLEAN
  BY <1>2 DEF Shows, Boxes
<1>6. jobs[s].open => s \in slots
  BY <1>1
<1>7. QED BY <1>2, <1>4, <1>5, <1>6, Reset

\* A handler finds no attribute any more, and closes what the job holds.
LEMMA StaleIsGood ==
  ASSUME NEW under, NEW s, Turn(under, s), Live(owner) = {}, ClosesStale(under, s)
  PROVE  Good
<1>1. /\ owner' = owner /\ asks' = under /\ busy' = busy /\ window' = window
      /\ jobs' = Tidied(Closed(jobs, {s}))
  BY DEF ClosesStale
<1>2. Live(owner') = {} /\ SamePlanner(owner, owner') /\ Shows(under, asks')
  BY <1>1 DEF SamePlanner, Shows
<1>3. busy' \in BOOLEAN
  BY <1>1, HandledFacts DEF Turn
<1>4. PICK slots : slots = {s}
  OBVIOUS
<1>5. jobs' = Tidied(Closed(jobs, slots)) /\ s \in slots
  BY <1>1, <1>4
<1>6. QED BY <1>1, <1>2, <1>3, <1>5, Reset

\* It asks a question of the job to which attributes refer.
LEMMA RefQuestionIsGood ==
  ASSUME NEW under, NEW s, Turn(under, s), NEW name \in RefQuestions, jobs[s].kind = name,
         Owns(owner', s, Holding(name, FALSE)), SamePlanner(owner, owner'), busy' = TRUE,
         window' = window, asks' = Opened(under, name, s), jobs' = Tidied(jobs)
  PROVE  Good
<1>1. Handled(jobs, owner, under, signals', busy, window, s)
  BY DEF Turn
<1>2. PICK refs : refs = owner'
  OBVIOUS
<1>3. Safe(jobs, refs, Opened(under, name, s), signals', TRUE, window)
  BY <1>1, <1>2, RefQuestionIsSafe
<1>4. Safe(jobs, owner', asks', signals', busy', window')
  BY <1>2, <1>3
<1>5. Heard(jobs, jobs)
  BY DEF Heard
<1>6. QED BY <1>4, <1>5, Settles

\* It asks a question of the job to which none does.
LEMMA FreeQuestionIsGood ==
  ASSUME NEW under, NEW s, Turn(under, s),
         NEW ks \in [Slots -> JobRecord], \A t \in Slots \ {s} : ks[t] = jobs[t],
         ks[s].step = "none", ks[s].open => ks[s].kind \in OpenKinds,
         NEW name \in FreeQuestions,
         IF name = "shell" THEN ks[s].kind = "shell" /\ ~ks[s].cancelled
           ELSE ks[s].kind \in IsoRoutes,
         Live(owner') = {}, SamePlanner(owner, owner'), busy' \in BOOLEAN,
         window' = window, asks' = Opened(under, name, s), jobs' = Tidied(ks)
  PROVE  Good
<1>1. Handled(jobs, owner, under, signals', busy, window, s)
  BY DEF Turn
<1>2. PICK refs : refs = owner'
  OBVIOUS
<1>3. PICK with \in BOOLEAN : with = busy'
  OBVIOUS
<1>4. Safe(ks, refs, Opened(under, name, s), signals', with, window)
  BY <1>1, <1>2, FreeQuestionIsSafe
<1>5. Safe(ks, owner', asks', signals', busy', window')
  BY <1>2, <1>3, <1>4
<1>6. Heard(jobs, ks)
  BY DEF Heard, Destructive
<1>7. QED BY <1>5, <1>6, Settles

\* It gives the job a worker.
LEMMA MoveIsGood ==
  ASSUME NEW under, NEW s, Turn(under, s), window # "closed",
         NEW ks \in [Slots -> JobRecord], \A t \in Slots \ {s} : ks[t] = jobs[t],
         ks[s].step # "none", ks[s].kind \notin {"overlay", "none"},
         ks[s].step \in Late => ks[s].kind \in LateKinds, ks[s].open => ks[s].kind \in OpenKinds,
         ks[s].step \in Destructive => ~jobs[s].cancelled,
         Owns(owner', s, Holding(ks[s].kind, ks[s].step = "prepare")), SamePlanner(owner, owner'),
         busy' = TRUE, window' = window, asks' = under, jobs' = Tidied(ks)
  PROVE  Good
<1>1. Handled(jobs, owner, under, signals', busy, window, s)
  BY DEF Turn
<1>2. PICK refs : refs = owner'
  OBVIOUS
<1>3. Safe(ks, refs, under, signals', TRUE, window)
  BY <1>1, <1>2, MoveIsSafe
<1>4. Safe(ks, owner', asks', signals', busy', window')
  BY <1>2, <1>3
<1>5. Heard(jobs, ks)
  BY DEF Heard
<1>6. QED BY <1>4, <1>5, Settles

\* While attributes refer to an operation the window is busy.
LEMMA IsBusy ==
  ASSUME NEW under, NEW s, Turn(under, s), Live(owner) # {}
  PROVE  busy = TRUE
<1>1. Typed(jobs, owner, under, signals', busy) /\ Attributes(owner, busy)
  BY DEF Turn, Handled, Most
<1>2. busy \in BOOLEAN
  BY <1>1 DEF Typed
<1>3. busy
  BY <1>1 DEF Attributes
<1>4. QED BY <1>2, <1>3

\* A job takes its next step: nothing else about it changes.
LEMMA SteppedJobs ==
  ASSUME NEW js \in [Slots -> JobRecord], NEW s \in Slots, NEW step \in Steps
  PROVE  /\ Stepped(js, s, step) \in [Slots -> JobRecord]
         /\ \A t \in Slots \ {s} : Stepped(js, s, step)[t] = js[t]
         /\ Stepped(js, s, step)[s].step = step /\ Stepped(js, s, step)[s].kind = js[s].kind
         /\ Stepped(js, s, step)[s].open = js[s].open
         /\ Stepped(js, s, step)[s].cancelled = js[s].cancelled
<1>1. PICK job : job = [js[s] EXCEPT !.step = step]
  OBVIOUS
<1>2. js[s] \in JobRecord
  OBVIOUS
<1>3. /\ job \in JobRecord /\ job.step = step /\ job.kind = js[s].kind /\ job.open = js[s].open
      /\ job.cancelled = js[s].cancelled
  BY <1>1, <1>2 DEF JobRecord
<1>4. PICK ks : ks = Stepped(js, s, step)
  OBVIOUS
<1>5. ks = [t \in Slots |-> IF t = s THEN job ELSE js[t]]
  BY <1>1, <1>4 DEF Stepped, Changed
<1>6. ks \in [Slots -> JobRecord] /\ ks[s] = job /\ \A t \in Slots \ {s} : ks[t] = js[t]
  BY <1>3, <1>5
<1>7. QED BY <1>3, <1>4, <1>6

\* A handler starts the next worker of its job and gives it the attributes.
LEMMA StartsIsGood ==
  ASSUME NEW under, NEW s, Turn(under, s), window # "closed",
         jobs[s].kind \notin {"overlay", "none"},
         NEW step \in {"confirm", "execute", "write", "stage"},
         step \in Destructive => ~jobs[s].cancelled, step \in Late => jobs[s].kind \in LateKinds,
         Owns(owner', s, Holding(jobs[s].kind, FALSE)), SamePlanner(owner, owner'),
         busy' = TRUE, window' = window, asks' = under, jobs' = Tidied(Stepped(jobs, s, step))
  PROVE  Good
<1>1. s \in Slots /\ jobs \in [Slots -> JobRecord] /\ (jobs[s].open => jobs[s].kind \in OpenKinds)
  BY HandledFacts DEF Turn
<1>2. step \in Steps /\ step # "none" /\ step # "prepare"
  BY DEF Steps, Late
<1>3. PICK ks : ks = Stepped(jobs, s, step)
  OBVIOUS
<1>4. /\ ks \in [Slots -> JobRecord] /\ \A t \in Slots \ {s} : ks[t] = jobs[t]
      /\ ks[s].step = step /\ ks[s].kind = jobs[s].kind /\ ks[s].open = jobs[s].open
  BY <1>1, <1>2, <1>3, SteppedJobs
<1>5. (ks[s].step = "prepare") = FALSE
  BY <1>2, <1>4
<1>6. Owns(owner', s, Holding(ks[s].kind, ks[s].step = "prepare"))
  BY <1>4, <1>5
<1>7. jobs' = Tidied(ks)
  BY <1>3
<1>8. QED BY <1>1, <1>2, <1>4, <1>6, <1>7, MoveIsGood

\* The same, when the job has its attributes already.
LEMMA ContinuesIsGood ==
  ASSUME NEW under, NEW s, Turn(under, s), window # "closed",
         jobs[s].kind \notin {"overlay", "none"},
         NEW step \in {"confirm", "execute"}, step = "execute" => ~jobs[s].cancelled,
         Owns(owner, s, Holding(jobs[s].kind, FALSE)), Continues(under, s, step)
  PROVE  Good
<1>1. /\ owner' = owner /\ asks' = under /\ busy' = busy /\ window' = window
      /\ jobs' = Tidied(Stepped(jobs, s, step))
  BY DEF Continues
<1>2. s \in Slots /\ jobs \in [Slots -> JobRecord]
  BY HandledFacts DEF Turn
<1>3. jobs[s].kind \in Kinds
  BY <1>2 DEF JobRecord
<1>4. Live(owner) # {}
  BY <1>3, HoldingFacts DEF Owns
<1>5. busy' = TRUE
  BY <1>1, <1>4, IsBusy
<1>6. SamePlanner(owner, owner')
  BY <1>1 DEF SamePlanner
<1>7. Owns(owner', s, Holding(jobs[s].kind, FALSE))
  BY <1>1
<1>8. step \notin Late /\ (step \in Destructive => step = "execute")
  BY DEF Late, Destructive
<1>9. QED BY <1>1, <1>5, <1>6, <1>7, <1>8, StartsIsGood

\* It goes on without the claim of a job.
LEMMA ResumesIsGood ==
  ASSUME NEW under, Safe(jobs, owner, under, signals', busy, window), NEW bs, Shows(under, bs),
         Dismissed(bs)
  PROVE  Good
<1>1. /\ owner' = owner /\ asks' = bs /\ busy' = busy /\ window' = window /\ jobs' = Tidied(jobs)
  BY DEF Dismissed
<1>2. Safe(jobs, owner, bs, signals', busy, window)
  BY ShowIsSafe
<1>3. Safe(jobs, owner', asks', signals', busy', window')
  BY <1>1, <1>2
<1>4. Heard(jobs, jobs)
  BY DEF Heard
<1>5. QED BY <1>1, <1>3, <1>4, Settles

\* It resets the attributes of a job that holds nothing.
LEMMA ForgetIsGood ==
  ASSUME NEW under, NEW s, Turn(under, s), jobs[s].kind \notin OpenKinds, Live(owner') = {},
         SamePlanner(owner, owner'), busy' \in BOOLEAN, window' = window, Shows(under, asks'),
         jobs' = Tidied(jobs)
  PROVE  Good
<1>1. jobs \in [Slots -> JobRecord] /\ ~jobs[s].open
  BY HandledFacts DEF Turn
<1>2. Closed(jobs, {}) = jobs
  BY <1>1 DEF Closed, Changed
<1>3. PICK slots : slots = {}
  OBVIOUS
<1>4. jobs' = Tidied(Closed(jobs, slots))
  BY <1>2, <1>3
<1>5. QED BY <1>1, <1>4, Reset

-----------------------------------------------------------------------------
(* The beginnings of the operations. *)

\* Attributes are set that are not the planner's.
LEMMA WithKeeps ==
  ASSUME NEW refs, NEW fields, NEW s, "zip_overlay_preparer" \notin fields
  PROVE  /\ SamePlanner(refs, With(refs, fields, s))
         /\ Live(With(refs, fields, s)) = Live(refs) \cup fields
BY DEF SamePlanner, With, Live

\* They are all there is, when there were none.
LEMMA WithOwns ==
  ASSUME NEW refs, NEW fields, NEW s, "zip_overlay_preparer" \notin fields, Live(refs) = {}
  PROVE  SamePlanner(refs, With(refs, fields, s)) /\ Owns(With(refs, fields, s), s, fields)
<1>1. PICK after : after = With(refs, fields, s)
  OBVIOUS
<1>2. SamePlanner(refs, after) /\ Live(after) = fields
  BY <1>1, WithKeeps
<1>3. \A f \in fields : after[f] = s
  BY <1>1 DEF With
<1>4. Owns(after, s, fields)
  BY <1>2, <1>3 DEF Owns
<1>5. QED BY <1>1, <1>2, <1>4, Zenon

\* A free slot is a turn.
LEMMA Room ==
  ASSUME NEW under, Safe(jobs, owner, under, signals', busy, window), Live(owner) = {},
         Clear(under),
         NEW s \in Slots, jobs[s] = NoJob, ~HeldIn(s, owner, under, signals')
  PROVE  Turn(under, s)
BY FreeIsHandled DEF Turn

\* A job that begins is not forgotten.
LEMMA BegunIsTidied ==
  ASSUME NEW js \in [Slots -> JobRecord], NEW s \in Slots, NEW job \in JobRecord, job.step # "none"
  PROVE  [Tidied(js) EXCEPT ![s] = job] = Tidied([js EXCEPT ![s] = job])
<1>1. PICK ks : ks = [js EXCEPT ![s] = job]
  OBVIOUS
<1>2. ks \in [Slots -> JobRecord] /\ ks[s] = job /\ \A t \in Slots \ {s} : ks[t] = js[t]
  BY <1>1
<1>3. PICK ls : ls = Tidied(ks)
  OBVIOUS
<1>4. PICK ms : ms = Tidied(js)
  OBVIOUS
<1>5. ls = Tidy(ks, owner', asks', signals') /\ ms = Tidy(js, owner', asks', signals')
  BY <1>3, <1>4, TidiedIsTidy
<1>6. \A t \in Slots \ {s} : ls[t] = ms[t]
  BY <1>2, <1>5 DEF Tidy
<1>7. ls[s] = job
  BY <1>2, <1>5 DEF Tidy
<1>8. ls = [t \in Slots |-> ls[t]] /\ ms = [t \in Slots |-> ms[t]]
  BY <1>5 DEF Tidy
<1>9. ls = [ms EXCEPT ![s] = job]
  BY <1>6, <1>7, <1>8
<1>10. QED BY <1>1, <1>3, <1>4, <1>9

\* A starter gives the attributes to the worker of a new job.
LEMMA BeginsIsGood ==
  ASSUME NEW under, FreeSlot \in Slots, Turn(under, FreeSlot), window # "closed", Live(owner) = {},
         jobs[FreeSlot] = NoJob,
         NEW job \in JobRecord, job.step \in {"prepare", "work"},
         job.kind \notin {"overlay", "none"},
         job.open => job.kind \in OpenKinds,
         BeginsAs(under, Holding(job.kind, job.step = "prepare"), job)
  PROVE  Good
<1>1. PICK s \in Slots : s = FreeSlot
  OBVIOUS
<1>2. PICK early \in BOOLEAN : early = (job.step = "prepare")
  OBVIOUS
<1>3. PICK fields : fields = Holding(job.kind, early)
  OBVIOUS
<1>4. /\ owner' = With(owner, fields, s) /\ asks' = under /\ busy' = TRUE /\ window' = window
      /\ jobs' = [Tidied(jobs) EXCEPT ![s] = job]
  BY <1>1, <1>2, <1>3 DEF BeginsAs
<1>5. job.kind \in Kinds
  BY DEF JobRecord
<1>6. "zip_overlay_preparer" \notin fields /\ fields # {}
  BY <1>3, <1>5, HoldingFacts
<1>7. SamePlanner(owner, owner') /\ Owns(owner', s, fields)
  BY <1>4, <1>6, WithOwns
<1>8. jobs \in [Slots -> JobRecord]
  BY HandledFacts DEF Turn
<1>9. PICK ks : ks = [jobs EXCEPT ![s] = job]
  OBVIOUS
<1>10. ks \in [Slots -> JobRecord] /\ ks[s] = job /\ \A t \in Slots \ {s} : ks[t] = jobs[t]
  BY <1>8, <1>9
<1>11. job.step # "none" /\ job.step \notin Late \cup Destructive
  BY DEF Late, Destructive
<1>12. jobs' = Tidied(ks)
  BY <1>4, <1>8, <1>9, <1>11, BegunIsTidied
<1>13. ks[s].step = job.step /\ ks[s].kind = job.kind /\ ks[s].open = job.open
  BY <1>10
<1>14. Owns(owner', s, Holding(ks[s].kind, ks[s].step = "prepare"))
  BY <1>2, <1>3, <1>7, <1>13
<1>15. Turn(under, s)
  BY <1>1
<1>16. QED BY <1>4, <1>7, <1>10, <1>11, <1>12, <1>13, <1>14, <1>15, MoveIsGood

\* The same, for a job with one attribute.
LEMMA SimplyBegins ==
  ASSUME NEW under, FreeSlot \in Slots, Turn(under, FreeSlot), window # "closed", Live(owner) = {},
         jobs[FreeSlot] = NoJob,
         NEW kind \in Kinds \ {"overlay", "none"}, NEW step \in {"prepare", "work"}, NEW field,
         NEW open \in BOOLEAN, open => kind \in OpenKinds,
         Holding(kind, step = "prepare") = {field},
         Begins(under, kind, field, step, open)
  PROVE  Good
<1>1. PICK job : job = NewJob(kind, step, open)
  OBVIOUS
<1>2. job \in JobRecord /\ job.step = step /\ job.kind = kind /\ job.open = open
  <2>1. step \in Steps
    BY DEF Steps
  <2>2. QED BY <1>1, <2>1 DEF NewJob, NoJob, JobRecord
<1>3. BeginsAs(under, {field}, job)
  BY <1>1 DEF Begins
<1>4. Holding(job.kind, job.step = "prepare") = {field}
  BY <1>2
<1>5. BeginsAs(under, Holding(job.kind, job.step = "prepare"), job)
  BY <1>3, <1>4
<1>6. QED BY <1>2, <1>5, BeginsIsGood

\* An ISO write takes its route, and gets its next worker.
Routed(js, ks, s, kind, step) ==
  /\ ks \in [Slots -> JobRecord] /\ \A t \in Slots \ {s} : ks[t] = js[t]
  /\ ks[s].step = step /\ ks[s].kind = kind /\ ks[s].open = js[s].open
  /\ ks[s].cancelled = js[s].cancelled

\* An ISO write takes its route: nothing else about the job changes.
LEMMA RoutedJobs ==
  ASSUME NEW js \in [Slots -> JobRecord], NEW s \in Slots, NEW kind \in Kinds, NEW step \in Steps,
         NEW ks, ks = [js EXCEPT ![s].kind = kind, ![s].step = step]
  PROVE  Routed(js, ks, s, kind, step)
<1>1. PICK job : job = [js[s] EXCEPT !.kind = kind, !.step = step]
  OBVIOUS
<1>2. js[s] \in JobRecord
  OBVIOUS
<1>3. /\ job \in JobRecord /\ job.step = step /\ job.kind = kind /\ job.open = js[s].open
      /\ job.cancelled = js[s].cancelled
  BY <1>1, <1>2 DEF JobRecord
<1>4. ks = [js EXCEPT ![s] = job]
  BY <1>1
<1>5. ks[s] = job /\ ks \in [Slots -> JobRecord] /\ \A t \in Slots \ {s} : ks[t] = js[t]
  BY <1>3, <1>4
<1>6. QED BY <1>3, <1>5 DEF Routed

\* The route is prepared by a worker, which gets the attributes.
LEMMA GoesIsGood ==
  ASSUME NEW under, NEW s, Turn(under, s), window # "closed",
         Live(owner) \subseteq {"iso_staging_preparer"},
         NEW route \in IsoRoutes \cup {"syslinux", "dual"}, NEW fields,
         fields = Holding(route, TRUE),
         Goes(under, s, route, fields, "prepare", TRUE)
  PROVE  Good
<1>1. PICK refs : refs = Without(owner, {"iso_staging_preparer"})
  OBVIOUS
<1>2. PICK ks : ks = [jobs EXCEPT ![s].kind = route, ![s].step = "prepare"]
  OBVIOUS
<1>3. /\ owner' = With(refs, fields, s) /\ asks' = under /\ busy' = TRUE /\ window' = window
      /\ jobs' = Tidied(ks)
  BY <1>1, <1>2 DEF Goes
<1>4. SamePlanner(owner, refs) /\ Live(refs) = {}
  BY <1>1, WithoutKeeps
<1>5. route \in Kinds \ {"overlay", "none"} /\ route \in OpenKinds
  BY DEF IsoRoutes, Kinds, OpenKinds
<1>6. "zip_overlay_preparer" \notin fields
  BY <1>5, HoldingFacts
<1>7. SamePlanner(refs, owner') /\ Owns(owner', s, fields)
  BY <1>3, <1>4, <1>6, WithOwns
<1>8. SamePlanner(owner, owner')
  BY <1>4, <1>7 DEF SamePlanner
<1>9. s \in Slots /\ jobs \in [Slots -> JobRecord]
  BY HandledFacts DEF Turn
<1>10. "prepare" \in Steps /\ "prepare" \notin Late \cup Destructive
  BY DEF Steps, Late, Destructive
<1>11. /\ ks \in [Slots -> JobRecord] /\ \A t \in Slots \ {s} : ks[t] = jobs[t]
       /\ ks[s].step = "prepare" /\ ks[s].kind = route
  <2>1. PICK step \in Steps : step = "prepare"
    BY <1>10
  <2>2. ks = [jobs EXCEPT ![s].kind = route, ![s].step = step]
    BY <1>2, <2>1
  <2>3. Routed(jobs, ks, s, route, step)
    BY <1>5, <1>9, <2>2, RoutedJobs
  <2>4. QED BY <2>1, <2>3 DEF Routed
<1>12. Owns(owner', s, Holding(ks[s].kind, ks[s].step = "prepare"))
  <2>1. (ks[s].step = "prepare") = TRUE
    BY <1>11
  <2>2. QED BY <1>7, <1>11, <2>1
<1>13. QED BY <1>3, <1>5, <1>8, <1>10, <1>11, <1>12, MoveIsGood

\* An ISO write takes its route, and asks.
LEMMA GoesAsking ==
  ASSUME NEW under, NEW s, Turn(under, s), Live(owner) \subseteq {"iso_staging_preparer"},
         NEW route \in {"uefi", "constructed"}, NEW name \in {"uefi_helper", "iso_write"},
         Goes(Opened(under, name, s), s, route, {}, "none", FALSE)
  PROVE  Good
<1>1. PICK refs : refs = Without(owner, {"iso_staging_preparer"})
  OBVIOUS
<1>2. PICK ks : ks = [jobs EXCEPT ![s].kind = route, ![s].step = "none"]
  OBVIOUS
<1>3. /\ owner' = With(refs, {}, s) /\ asks' = Opened(under, name, s) /\ busy' = FALSE
      /\ window' = window /\ jobs' = Tidied(ks)
  BY <1>1, <1>2 DEF Goes
<1>4. SamePlanner(owner, refs) /\ Live(refs) = {}
  BY <1>1, WithoutKeeps
<1>5. route \in Kinds /\ route \in OpenKinds /\ route \in IsoRoutes
  BY DEF IsoRoutes, Kinds, OpenKinds
<1>6. PICK nothing : nothing = {}
  OBVIOUS
<1>7. /\ SamePlanner(refs, With(refs, nothing, s))
      /\ Live(With(refs, nothing, s)) = Live(refs) \cup nothing
  BY <1>6, WithKeeps
<1>8. SamePlanner(owner, owner') /\ Live(owner') = {}
  BY <1>3, <1>4, <1>6, <1>7 DEF SamePlanner
<1>9. s \in Slots /\ jobs \in [Slots -> JobRecord]
  BY HandledFacts DEF Turn
<1>10. "none" \in Steps
  BY DEF Steps
<1>11. /\ ks \in [Slots -> JobRecord] /\ \A t \in Slots \ {s} : ks[t] = jobs[t]
       /\ ks[s].step = "none" /\ ks[s].kind = route
  <2>1. PICK step \in Steps : step = "none"
    BY <1>10
  <2>2. ks = [jobs EXCEPT ![s].kind = route, ![s].step = step]
    BY <1>2, <2>1
  <2>3. Routed(jobs, ks, s, route, step)
    BY <1>5, <1>9, <2>2, RoutedJobs
  <2>4. QED BY <2>1, <2>3 DEF Routed
<1>12. name \in FreeQuestions /\ name # "shell" /\ busy' \in BOOLEAN
  BY <1>3 DEF FreeQuestions
<1>13. QED BY <1>3, <1>5, <1>8, <1>11, <1>12, FreeQuestionIsGood

-----------------------------------------------------------------------------
(* The turns: the signal of a worker that ended, and the question of a job. *)

\* The event loop takes the signal of a worker that ended: it is the turn of its handler.
LEMMA Ending ==
  ASSUME IInv, signals # <<>>, signals' = Tail(signals), Head(signals).to \in Endings,
         ~Exempt(jobs[Head(signals).job])
  PROVE  /\ Turn(asks, Head(signals).job)
         /\ Owns(owner, Head(signals).job,
                 Holding(jobs[Head(signals).job].kind, Head(signals).to = "prepared"))
<1>1. Safe(jobs, owner, asks, signals, busy, window)
  BY DEF IInv
<1>2. /\ Handled(jobs, owner, asks, Tail(signals), busy, window, Head(signals).job)
      /\ Owns(owner, Head(signals).job,
              Holding(jobs[Head(signals).job].kind, Head(signals).to = "prepared"))
  BY <1>1, EndingTaken
<1>3. QED BY <1>2 DEF Turn

\* The user answers the question of a job: it is the turn of the handler that asked.
LEMMA Question ==
  ASSUME IInv, asks # <<>>, signals' = signals, Last(asks).ask \in Questions
  PROVE  LET a == Last(asks) IN
         /\ Turn(Front(asks), a.job)
         /\ a.ask \in RefQuestions =>
              jobs[a.job].kind = a.ask /\ Owns(owner, a.job, Holding(a.ask, FALSE))
         /\ a.ask \in FreeQuestions => Live(owner) = {} /\ jobs[a.job].kind \in LateKinds
         /\ a.ask = "shell" => jobs[a.job].kind = "shell" /\ ~jobs[a.job].cancelled
         /\ a.ask \in {"uefi_helper", "iso_write"} => jobs[a.job].kind \in IsoRoutes
<1>1. Safe(jobs, owner, asks, signals, busy, window)
  BY DEF IInv
<1>2. Handled(jobs, owner, Front(asks), signals, busy, window, Last(asks).job)
  BY <1>1, QuestionTaken
<1>3. Turn(Front(asks), Last(asks).job)
  BY <1>2 DEF Turn
<1>4. Asked(jobs, owner, asks) /\ asks \in Seq(AskRecord)
  BY <1>1 DEF Safe, Most, Typed
<1>5. PICK i \in DOMAIN asks : asks[i] = Last(asks)
  BY <1>4, Popped
<1>6. PICK a : a = asks[i]
  OBVIOUS
<1>7. /\ a.ask \in RefQuestions =>
           jobs[a.job].kind = a.ask /\ Owns(owner, a.job, Holding(a.ask, FALSE))
      /\ a.ask \in FreeQuestions => Live(owner) = {} /\ jobs[a.job].kind \in LateKinds
      /\ a.ask = "shell" => jobs[a.job].kind = "shell" /\ ~jobs[a.job].cancelled
      /\ a.ask \in {"uefi_helper", "iso_write"} => jobs[a.job].kind \in IsoRoutes
  BY <1>4, <1>6 DEF Asked
<1>8. a = Last(asks)
  BY <1>5, <1>6
<1>9. QED BY <1>3, <1>7, <1>8

\* on_finished closes what has one of these attributes.
LEMMA Closable ==
  ASSUME NEW kind \in Kinds, NEW early \in BOOLEAN,
         kind \in RefQuestions \/ (kind \in LateKinds /\ ~early)
  PROVE  /\ Holding(kind, early) \cap (WorkflowFields \cup WorkspaceFields) # {}
         /\ kind \notin Downloads \cup {"checksums", "overlay", "none"}
<1> USE DEF Holding, WorkflowFields, WorkspaceFields, Downloads
<1>1. CASE kind = "raw"
  BY <1>1
<1>2. CASE kind = "fast_zero"
  BY <1>2
<1>3. CASE kind = "restore"
  BY <1>3
<1>4. CASE kind = "grub"
  BY <1>4
<1>5. CASE kind = "syslinux"
  BY <1>5
<1>6. CASE kind = "dual"
  BY <1>6
<1>7. CASE kind = "shell" /\ ~early
  BY <1>7
<1>8. CASE kind = "constructed" /\ ~early
  BY <1>8
<1>9. CASE kind = "uefi" /\ ~early
  BY <1>9
<1>10. CASE kind = "casper" /\ ~early
  BY <1>10
<1>11. QED BY <1>1, <1>2, <1>3, <1>4, <1>5, <1>6, <1>7, <1>8, <1>9, <1>10
  DEF RefQuestions, LateKinds, IsoRoutes

\* on_finished ends every operation for which a handler calls it.
LEMMA OnFinishedIsGood ==
  ASSUME NEW under, NEW s, Turn(under, s), NEW early \in BOOLEAN,
         Owns(owner, s, Holding(jobs[s].kind, early)),
         \/ jobs[s].kind \in RefQuestions \cup Simple \cup {"media"}
         \/ jobs[s].kind \in LateKinds /\ ~early,
         OnFinished(under, jobs)
  PROVE  Good
<1>1. s \in Slots /\ jobs \in [Slots -> JobRecord] /\ (jobs[s].open => jobs[s].kind \in OpenKinds)
  BY HandledFacts DEF Turn
<1>2. jobs[s] \in JobRecord
  BY <1>1
<1>3. PICK kind \in Kinds : kind = jobs[s].kind
  BY <1>2 DEF JobRecord
<1>4. PICK fields : fields = Holding(kind, early)
  OBVIOUS
<1>5. Live(owner) = fields /\ \A f \in fields : owner[f] = s
  BY <1>3, <1>4 DEF Owns
<1>6. kind \notin Downloads \cup {"checksums", "overlay", "none"}
  BY <1>3 DEF RefQuestions, Simple, LateKinds, IsoRoutes, Downloads
<1>7. fields \subseteq FinishedFields
  BY <1>4, <1>6, HoldingFacts
<1>8. jobs[s].open => s \in ReferredBy(owner, WorkflowFields \cup WorkspaceFields)
  <2>1. HAVE jobs[s].open
  <2>2. kind \in OpenKinds
    BY <1>1, <1>3, <2>1
  <2>3. kind \in RefQuestions \/ (kind \in LateKinds /\ ~early)
    BY <1>3, <2>2 DEF OpenKinds, Simple
  <2>4. PICK f \in fields : f \in WorkflowFields \cup WorkspaceFields
    BY <1>4, <2>3, Closable
  <2>5. f \in DOMAIN owner /\ owner[f] = s
    BY <1>5 DEF Live
  <2>6. QED BY <2>4, <2>5 DEF ReferredBy
<1>9. Live(owner) \subseteq FinishedFields
  BY <1>5, <1>7
<1>10. QED BY <1>8, <1>9, FinishedIsGood

-----------------------------------------------------------------------------
(* Raw write, fast zero and verified restore. *)

\* The workflow to which the attribute refers is closed, and the attribute reset.
LEMMA ReleasesIsGood ==
  ASSUME NEW under, NEW s, Turn(under, s), NEW field, field # "zip_overlay_preparer",
         Owns(owner, s, {field}), Releases(under, field)
  PROVE  Good
<1>1. PICK slots : slots = ReferredBy(owner, {field})
  OBVIOUS
<1>2. Ends(under, slots, {field})
  BY <1>1 DEF Releases
<1>3. Live(owner) = {field} /\ owner[field] = s /\ field \in DOMAIN owner
  BY DEF Owns, Live
<1>4. s \in slots
  BY <1>1, <1>3 DEF ReferredBy
<1>5. Shows(under, under)
  BY DEF Shows
<1>6. QED BY <1>2, <1>3, <1>4, <1>5, EndsIsGood

\* Raw write, fast zero and restore: the plan is put to the user, or the operation ends.
LEMMA PreparationFinishedIsGood ==
  ASSUME NEW under, NEW s, Turn(under, s), NEW kind \in {"raw", "fast_zero", "restore"}, NEW field,
         field # "zip_overlay_preparer", Holding(kind, FALSE) = {field}, jobs[s].kind = kind,
         Owns(owner, s, {field}), NEW outcome, PreparationFinished(kind, field, under, s, outcome)
  PROVE  Good
<1>1. Live(owner) = {field} /\ owner[field] = s /\ field \in DOMAIN owner
  BY DEF Owns, Live
<1>2. Refers(owner, field, s)
  BY <1>1 DEF Refers
<1>3. Releases(under, field) \/ OnFinished(under, jobs) \/ Dismissed(Opened(under, kind, s))
  BY <1>2 DEF PreparationFinished
<1>4. kind \in RefQuestions /\ Owns(owner, s, Holding(kind, FALSE))
  BY DEF RefQuestions
<1>5. CASE Releases(under, field)
  BY <1>5, ReleasesIsGood
<1>6. CASE OnFinished(under, jobs)
  BY <1>4, <1>6, OnFinishedIsGood
<1>7. CASE Dismissed(Opened(under, kind, s))
  <2>1. owner' = owner /\ busy' = busy /\ window' = window /\ asks' = Opened(under, kind, s)
          /\ jobs' = Tidied(jobs)
    BY <1>7 DEF Dismissed
  <2>2. busy = TRUE
    BY <1>1, IsBusy
  <2>3. SamePlanner(owner, owner') /\ Owns(owner', s, Holding(kind, FALSE))
    BY <1>4, <2>1 DEF SamePlanner
  <2>4. QED BY <1>4, <2>1, <2>2, <2>3, RefQuestionIsGood
<1>8. QED BY <1>3, <1>5, <1>6, <1>7

\* The phrase was typed: the worker goes on, or the operation ends.
LEMMA ConfirmedIsGood ==
  ASSUME NEW under, NEW s, Turn(under, s), NEW kind \in {"raw", "fast_zero", "restore"}, NEW field,
         field # "zip_overlay_preparer", Holding(kind, FALSE) = {field}, jobs[s].kind = kind,
         Owns(owner, s, {field}), NEW yes \in BOOLEAN, yes => window = "open",
         Confirmed(field, under, s, yes)
  PROVE  Good
<1>1. kind \in RefQuestions /\ kind \notin {"overlay", "none"}
        /\ Owns(owner, s, Holding(kind, FALSE))
  BY DEF RefQuestions
<1>2. CASE ~yes \/ (jobs[s].open /\ jobs[s].cancelled)
  BY <1>2, ReleasesIsGood DEF Confirmed
<1>3. CASE OnFinished(under, jobs)
  BY <1>1, <1>3, OnFinishedIsGood
<1>4. CASE yes /\ ~jobs[s].cancelled /\ Continues(under, s, "execute")
  <2>1. window # "closed"
    BY <1>4
  <2>2. QED BY <1>1, <1>4, <2>1, ContinuesIsGood
<1>5. QED BY <1>2, <1>3, <1>4 DEF Confirmed

\* The destructive worker ended: the operation ends.
LEMMA ExecutionFinishedIsGood ==
  ASSUME NEW under, NEW s, Turn(under, s), NEW kind \in {"raw", "fast_zero", "restore"}, NEW field,
         field # "zip_overlay_preparer", Holding(kind, FALSE) = {field}, jobs[s].kind = kind,
         Owns(owner, s, {field}), NEW outcome, ExecutionFinished(field, under, s, outcome)
  PROVE  Good
<1>1. Refers(owner, field, s)
  BY DEF Owns, Live, Refers
<1>2. kind \in RefQuestions /\ Owns(owner, s, Holding(kind, FALSE))
  BY DEF RefQuestions
<1>3. CASE Releases(under, field)
  BY <1>3, ReleasesIsGood
<1>4. CASE OnFinished(under, jobs)
  BY <1>2, <1>4, OnFinishedIsGood
<1>5. QED BY <1>1, <1>3, <1>4 DEF ExecutionFinished

-----------------------------------------------------------------------------
(* GRUB rescue media. *)

\* GRUB rescue media: the plan is put to the user, or the operation ends.
LEMMA GrubPrepared ==
  ASSUME NEW under, NEW s, Turn(under, s), jobs[s].kind = "grub",
         Owns(owner, s, Holding("grub", TRUE)),
         NEW outcome, OnGrubRescuePreparationFinished(under, s, outcome)
  PROVE  Good
<1>1. Owns(owner, s, {"grub_rescue_workflow"}) /\ Owns(owner, s, Holding("grub", FALSE))
  BY DEF Holding
<1>2. Live(owner) = {"grub_rescue_workflow"} /\ Refers(owner, "grub_rescue_workflow", s)
  BY <1>1 DEF Owns, Live, Refers
<1>3. PICK bs : bs = IF outcome = "failed" THEN Opened(under, "notice", 0) ELSE under
  OBVIOUS
<1>4. Shows(under, bs)
  BY <1>3 DEF Shows, Boxes
<1>5. CASE outcome = "ok"
  <2>1. Dismissed(Opened(under, "grub", s))
    BY <1>2, <1>5 DEF OnGrubRescuePreparationFinished
  <2>2. /\ owner' = owner /\ busy' = busy /\ window' = window /\ asks' = Opened(under, "grub", s)
        /\ jobs' = Tidied(jobs)
    BY <2>1 DEF Dismissed
  <2>3. busy = TRUE
    BY <1>2, IsBusy
  <2>4. SamePlanner(owner, owner') /\ Owns(owner', s, Holding("grub", FALSE))
          /\ "grub" \in RefQuestions
    BY <1>1, <2>2 DEF SamePlanner, RefQuestions
  <2>5. QED BY <2>2, <2>3, <2>4, RefQuestionIsGood
<1>6. CASE outcome # "ok"
  <2>1. Ends(bs, {s}, {"grub_rescue_workflow"})
    BY <1>2, <1>3, <1>6 DEF OnGrubRescuePreparationFinished
  <2>2. QED BY <1>2, <1>4, <2>1, EndsIsGood
<1>7. QED BY <1>5, <1>6

\* The phrase was typed: the second worker, which confirms, starts, or the operation ends.
LEMMA GrubAnswered ==
  ASSUME NEW under, NEW s, Turn(under, s), jobs[s].kind = "grub",
         Owns(owner, s, Holding("grub", FALSE)),
         NEW yes \in BOOLEAN, yes => window = "open", ConfirmAndWriteGrubRescue(under, s, yes)
  PROVE  Good
<1>1. Live(owner) = {"grub_rescue_workflow"}
  BY DEF Owns, Holding
<1>2. Shows(under, under)
  BY DEF Shows
<1>3. CASE yes
  <2>1. Continues(under, s, "confirm")
    BY <1>3 DEF ConfirmAndWriteGrubRescue
  <2>2. window # "closed"
    BY <1>3
  <2>3. QED BY <2>1, <2>2, ContinuesIsGood
<1>4. CASE ~yes
  <2>1. Ends(under, {s}, {"grub_rescue_workflow"})
    BY <1>4 DEF ConfirmAndWriteGrubRescue
  <2>2. QED BY <1>1, <1>2, <2>1, EndsIsGood
<1>5. QED BY <1>3, <1>4

\* The second worker ended: the operation ends.
LEMMA GrubExecuted ==
  ASSUME NEW under, NEW s, Turn(under, s), jobs[s].kind = "grub",
         Owns(owner, s, Holding("grub", FALSE)),
         OnGrubRescueExecutionFinished(under, s)
  PROVE  Good
<1>1. Refers(owner, "grub_rescue_workflow", s)
  BY DEF Owns, Live, Refers, Holding
<1>2. OnFinished(under, jobs)
  BY <1>1 DEF OnGrubRescueExecutionFinished
<1>3. "grub" \in RefQuestions
  BY DEF RefQuestions
<1>4. QED BY <1>2, <1>3, OnFinishedIsGood

-----------------------------------------------------------------------------
(* The operations of one worker. *)

\* A completed media test resets its own attribute.
LEMMA MediaFinished ==
  ASSUME NEW under, NEW s, Turn(under, s), jobs[s].kind = "media",
         Owns(owner, s, Holding("media", FALSE)),
         OnMediaFinished(under)
  PROVE  Good
<1>1. Live(owner) = {"media_runner"} /\ "media" \notin OpenKinds
  BY DEF Owns, Holding, OpenKinds
<1>2. /\ owner' = Without(owner, {"media_runner"}) /\ asks' = Opened(under, "notice", 0)
      /\ busy' = FALSE /\ window' = window /\ jobs' = Tidied(jobs)
  BY DEF OnMediaFinished
<1>3. Live(owner') = {} /\ SamePlanner(owner, owner')
  BY <1>1, <1>2, WithoutKeeps
<1>4. Shows(under, asks') /\ busy' \in BOOLEAN
  BY <1>2 DEF Shows, Boxes
<1>5. QED BY <1>1, <1>2, <1>3, <1>4, ForgetIsGood

\* A download ends, in a box or in a selection.
LEMMA DownloadIsGood ==
  ASSUME NEW under, NEW s, Turn(under, s), NEW kind \in Downloads, NEW field,
         field # "zip_overlay_preparer", Holding(kind, FALSE) = {field}, jobs[s].kind = kind,
         Owns(owner, s, {field}), NEW outcome, DownloadFinished(field, under, s, outcome)
  PROVE  Good
<1>1. Live(owner) = {field} /\ Refers(owner, field, s)
  BY DEF Owns, Live, Refers
<1>2. PICK bs : bs = CASE outcome = "ok" -> Opened(under, "downloaded", 0)
                       [] outcome = "failed" -> Opened(under, "notice", 0)
                       [] OTHER -> under
  OBVIOUS
<1>3. Shows(under, bs)
  BY <1>2 DEF Shows, Boxes
<1>4. Ends(bs, {}, {field})
  BY <1>1, <1>2 DEF DownloadFinished
<1>5. ~jobs[s].open
  BY HandledFacts DEF Turn, Downloads, OpenKinds
<1>6. QED BY <1>1, <1>3, <1>4, <1>5, EndsIsGood

\* A checksum ends.
LEMMA ChecksumsFinished ==
  ASSUME NEW under, NEW s, Turn(under, s), jobs[s].kind = "checksums",
         Owns(owner, s, Holding("checksums", FALSE)),
         NEW outcome, OnChecksumsFinished(under, s, outcome)
  PROVE  Good
<1>1. Live(owner) = {"checksum_preparer"} /\ Refers(owner, "checksum_preparer", s)
  BY DEF Owns, Live, Refers, Holding
<1>2. PICK bs : bs = IF outcome = "cancelled" \/ jobs[s].cancelled \/ ~Inspected THEN under
                     ELSE Opened(under, "notice", 0)
  OBVIOUS
<1>3. Shows(under, bs)
  BY <1>2 DEF Shows, Boxes
<1>4. Ends(bs, {}, {"checksum_preparer"})
  BY <1>1, <1>2 DEF OnChecksumsFinished
<1>5. ~jobs[s].open
  BY HandledFacts DEF Turn, OpenKinds
<1>6. QED BY <1>1, <1>3, <1>4, <1>5, EndsIsGood

\* The Windows editions are known, and the window is usable again.
LEMMA EditionsFinished ==
  ASSUME NEW under, NEW s, Turn(under, s), jobs[s].kind = "editions",
         Owns(owner, s, Holding("editions", FALSE)),
         NEW outcome, OnWindowsMetadataFinished(under, s, outcome)
  PROVE  Good
<1>1. Live(owner) = {"windows_wim_extractor"} /\ Refers(owner, "windows_wim_extractor", s)
  BY DEF Owns, Live, Refers, Holding
<1>2. /\ owner' = Without(owner, {"windows_wim_extractor"}) /\ asks' = under
      /\ busy' = (busy /\ (inspection.busy \/ OperationActive(owner'))) /\ window' = window
      /\ jobs' = Tidied(jobs)
  BY <1>1 DEF OnWindowsMetadataFinished
<1>3. Live(owner') = {} /\ SamePlanner(owner, owner')
  BY <1>1, <1>2, WithoutKeeps
<1>4. Shows(under, asks') /\ "editions" \notin OpenKinds
  BY <1>2 DEF Shows, OpenKinds
<1>5. busy' \in BOOLEAN
  BY <1>2, Zenon
<1>6. QED BY <1>2, <1>3, <1>4, <1>5, ForgetIsGood

-----------------------------------------------------------------------------
(* UEFI shell media. *)

\* UEFI shell media: the plan is put to the user, with no attribute left, or the job ends.
LEMMA ShellPrepared ==
  ASSUME NEW under, NEW s, Turn(under, s), jobs[s].kind = "shell",
         Owns(owner, s, Holding("shell", TRUE)),
         NEW outcome, OnUefiShellPreparationFinished(under, s, outcome)
  PROVE  Good
<1>1. Live(owner) = {"uefi_shell_preparer"} /\ Refers(owner, "uefi_shell_preparer", s)
  BY DEF Owns, Live, Refers, Holding
<1>2. PICK bs : bs = IF jobs[s].cancelled THEN under ELSE Opened(under, "notice", 0)
  OBVIOUS
<1>3. Shows(under, bs)
  BY <1>2 DEF Shows, Boxes
<1>4. CASE outcome # "ok" \/ jobs[s].cancelled
  <2>1. Ends(bs, {s}, {"uefi_shell_preparer"})
    BY <1>1, <1>2, <1>4 DEF OnUefiShellPreparationFinished
  <2>2. QED BY <1>1, <1>3, <2>1, EndsIsGood
<1>5. CASE ~(outcome # "ok" \/ jobs[s].cancelled)
  <2>1. /\ owner' = Without(owner, {"uefi_shell_preparer"}) /\ asks' = Opened(under, "shell", s)
        /\ window' = window /\ busy' = busy /\ jobs' = Tidied(jobs)
    BY <1>1, <1>5 DEF OnUefiShellPreparationFinished
  <2>2. Live(owner') = {} /\ SamePlanner(owner, owner')
    BY <1>1, <2>1, WithoutKeeps
  <2>3. /\ jobs \in [Slots -> JobRecord] /\ jobs[s].step = "none"
        /\ jobs[s].open => jobs[s].kind \in OpenKinds
    BY HandledFacts DEF Turn
  <2>4. busy' \in BOOLEAN
    BY <2>1, HandledFacts DEF Turn
  <2>5. "shell" \in FreeQuestions
    BY DEF FreeQuestions
  <2>6. QED BY <1>5, <2>1, <2>2, <2>3, <2>4, <2>5, FreeQuestionIsGood
<1>6. QED BY <1>4, <1>5

\* The writer starts and gets the attributes, or the workspace is removed.
LEMMA ShellAnswered ==
  ASSUME NEW under, NEW s, Turn(under, s), jobs[s].kind = "shell", ~jobs[s].cancelled,
         Live(owner) = {},
         NEW yes \in BOOLEAN, yes => window = "open", ConfirmAndWriteUefiShell(under, s, yes)
  PROVE  Good
<1>1. CASE ~yes
  <2>1. Ends(under, {s}, {}) /\ Shows(under, under)
    BY <1>1 DEF ConfirmAndWriteUefiShell, Shows
  <2>2. QED BY <2>1, EndsIsGood
<1>2. CASE yes
  <2>1. PICK fields : fields = {"uefi_shell_workspace", "constructed_writer"}
    OBVIOUS
  <2>2. /\ owner' = With(owner, fields, s) /\ asks' = under /\ busy' = TRUE /\ window' = window
        /\ jobs' = Tidied(Stepped(jobs, s, "write"))
    BY <1>2, <2>1 DEF ConfirmAndWriteUefiShell
  <2>3. SamePlanner(owner, owner') /\ Owns(owner', s, fields)
    BY <2>1, <2>2, WithOwns
  <2>4. fields = Holding("shell", FALSE)
    BY <2>1 DEF Holding
  <2>5. Owns(owner', s, Holding(jobs[s].kind, FALSE)) /\ "shell" \in LateKinds /\ window # "closed"
    BY <1>2, <2>3, <2>4 DEF LateKinds
  <2>6. QED BY <2>2, <2>3, <2>5, StartsIsGood
<1>3. QED BY <1>1, <1>2

-----------------------------------------------------------------------------
(* The ISO write. *)

\* UEFI:NTFS and casper: the last question is asked, with no attribute left, or the job ends.
LEMMA HelperPrepared ==
  ASSUME NEW under, NEW s, Turn(under, s), NEW kind \in {"uefi", "casper"}, NEW field,
         field # "zip_overlay_preparer", Holding(kind, TRUE) = {"pending_iso_write", field},
         jobs[s].kind = kind, Owns(owner, s, Holding(kind, TRUE)),
         NEW outcome, HelperPreparationFinished(field, under, s, outcome)
  PROVE  Good
<1>1. Live(owner) = {field, "pending_iso_write"} /\ Refers(owner, field, s)
  BY DEF Owns, Live, Refers
<1>2. PICK bs : bs = IF jobs[s].cancelled THEN under ELSE Opened(under, "notice", 0)
  OBVIOUS
<1>3. Shows(under, bs)
  BY <1>2 DEF Shows, Boxes
<1>4. PICK fields : fields = {field, "pending_iso_write"}
  OBVIOUS
<1>5. Live(owner) = fields /\ "zip_overlay_preparer" \notin fields
  BY <1>1, <1>4
<1>6. CASE outcome # "ok" \/ jobs[s].cancelled
  <2>1. Ends(bs, {s}, fields)
    BY <1>1, <1>2, <1>4, <1>6 DEF HelperPreparationFinished
  <2>2. QED BY <1>3, <1>5, <2>1, EndsIsGood
<1>7. CASE ~(outcome # "ok" \/ jobs[s].cancelled)
  <2>1. /\ owner' = Without(owner, fields) /\ asks' = Opened(under, "iso_write", s)
        /\ window' = window /\ busy' = busy /\ jobs' = Tidied(jobs)
    BY <1>1, <1>4, <1>7 DEF HelperPreparationFinished
  <2>2. Live(owner') = {} /\ SamePlanner(owner, owner')
    BY <1>5, <2>1, WithoutKeeps
  <2>3. /\ jobs \in [Slots -> JobRecord] /\ jobs[s].step = "none"
        /\ jobs[s].open => jobs[s].kind \in OpenKinds
    BY HandledFacts DEF Turn
  <2>4. busy' \in BOOLEAN
    BY <2>1, HandledFacts DEF Turn
  <2>5. "iso_write" \in FreeQuestions /\ jobs[s].kind \in IsoRoutes
    BY DEF FreeQuestions, IsoRoutes
  <2>6. QED BY <2>1, <2>2, <2>3, <2>4, <2>5, FreeQuestionIsGood
<1>8. QED BY <1>6, <1>7

\* The boot helper is prepared, or the private directory is removed.
LEMMA HelperAnswered ==
  ASSUME NEW under, NEW s, Turn(under, s), Live(owner) = {},
         NEW yes \in BOOLEAN, yes => window = "open", AnswerUefiHelper(under, s, yes)
  PROVE  Good
<1>1. CASE ~yes
  BY <1>1, StaleIsGood DEF AnswerUefiHelper
<1>2. CASE yes
  <2>1. PICK fields : fields = {"pending_iso_write", "uefi_preparer"}
    OBVIOUS
  <2>2. Goes(under, s, "uefi", fields, "prepare", TRUE)
    BY <1>2, <2>1 DEF AnswerUefiHelper, StartUefiPreparation
  <2>3. PICK route \in IsoRoutes \cup {"syslinux", "dual"} : route = "uefi"
    BY DEF IsoRoutes
  <2>4. fields = Holding(route, TRUE) /\ window # "closed" /\ Live(owner) \subseteq {"iso_staging_preparer"}
    BY <1>2, <2>1, <2>3 DEF Holding
  <2>5. QED BY <2>2, <2>3, <2>4, GoesIsGood
<1>3. QED BY <1>1, <1>2

\* The worker that stages and writes gets the attributes, or the directory is removed.
LEMMA IsoAnswered ==
  ASSUME NEW under, NEW s, Turn(under, s), Live(owner) = {}, jobs[s].kind \in IsoRoutes,
         NEW yes \in BOOLEAN, yes => window = "open", ConfirmAndStartIsoWrite(under, s, yes)
  PROVE  Good
<1>1. PICK fields : fields = {"iso_workspace", "iso_stager"} \cup WriterFields(jobs[s].kind)
  OBVIOUS
<1>2. PICK bs : bs = IF yes THEN Opened(under, "notice", 0) ELSE under
  OBVIOUS
<1>3. Shows(under, bs)
  BY <1>2 DEF Shows, Boxes
<1>4. CASE Ends(bs, {s}, {})
  BY <1>3, <1>4, EndsIsGood
<1>5. CASE /\ yes /\ owner' = With(owner, fields, s) /\ asks' = under /\ busy' = TRUE
           /\ window' = window /\ jobs' = Tidied(Stepped(jobs, s, "stage"))
  <2>1. fields = Holding(jobs[s].kind, FALSE) /\ "zip_overlay_preparer" \notin fields
    BY <1>1 DEF Holding, WriterFields, IsoRoutes
  <2>2. SamePlanner(owner, owner') /\ Owns(owner', s, fields)
    BY <1>5, <2>1, WithOwns
  <2>3. Owns(owner', s, Holding(jobs[s].kind, FALSE))
    BY <2>1, <2>2
  <2>4. /\ jobs[s].kind \in LateKinds /\ jobs[s].kind \notin {"overlay", "none"}
        /\ "stage" \notin Destructive /\ window # "closed"
    BY <1>5 DEF LateKinds, IsoRoutes, Destructive
  <2>5. QED BY <1>5, <2>2, <2>3, <2>4, StartsIsGood
<1>6. Ends(bs, {s}, {}) \/
        (/\ yes /\ owner' = With(owner, fields, s) /\ asks' = under /\ busy' = TRUE
         /\ window' = window /\ jobs' = Tidied(Stepped(jobs, s, "stage")))
  BY <1>1, <1>2 DEF ConfirmAndStartIsoWrite
<1>7. QED BY <1>4, <1>5, <1>6

\* The staging plan takes its route, or the private directory is removed.
LEMMA IsoPrepared ==
  ASSUME NEW under, NEW s, Turn(under, s), jobs[s].kind = "iso",
         Owns(owner, s, Holding("iso", TRUE)),
         window = "open", NEW outcome, OnIsoStagingPreparationFinished(under, s, outcome)
  PROVE  Good
<1>1. Live(owner) = {"iso_staging_preparer"} /\ Refers(owner, "iso_staging_preparer", s)
  BY DEF Owns, Live, Refers, Holding
<1>2. PICK box : box = Opened(under, "notice", 0)
  OBVIOUS
<1>3. Shows(under, under) /\ Shows(under, box)
  BY <1>2 DEF Shows, Boxes
<1>4. CASE Ends(under, {s}, {"iso_staging_preparer"})
  BY <1>1, <1>3, <1>4, EndsIsGood
<1>5. CASE Ends(box, {s}, {"iso_staging_preparer"})
  BY <1>1, <1>3, <1>5, EndsIsGood
<1>6. ASSUME NEW route \in IsoRoutes \cup {"syslinux", "dual"}, NEW fields,
               fields = Holding(route, TRUE),
             Goes(under, s, route, fields, "prepare", TRUE)
      PROVE  Good
  BY <1>1, <1>6, GoesIsGood
<1>7. ASSUME NEW route \in {"uefi", "constructed"}, NEW name \in {"uefi_helper", "iso_write"},
             Goes(Opened(under, name, s), s, route, {}, "none", FALSE)
      PROVE  Good
  BY <1>1, <1>7, GoesAsking
<1>8. CASE StartSyslinuxPreparation(under, s)
  <2>1. {"pending_iso_write", "syslinux_workflow"} = Holding("syslinux", TRUE)
    BY DEF Holding
  <2>2. Goes(under, s, "syslinux", {"pending_iso_write", "syslinux_workflow"}, "prepare", TRUE)
          => Good
    BY <1>6, <2>1
  <2>3. QED BY <1>2, <1>5, <1>8, <2>2 DEF StartSyslinuxPreparation
<1>9. CASE StartWindowsDualPreparation(under, s)
  <2>1. PICK fields : fields = {"pending_iso_write", "iso_workspace", "windows_device_runner",
               "iso_stager"}
    OBVIOUS
  <2>2. fields = Holding("dual", TRUE)
    BY <2>1 DEF Holding
  <2>3. Goes(under, s, "dual", fields, "prepare", TRUE) => Good
    BY <1>6, <2>2
  <2>4. QED BY <1>2, <1>5, <1>9, <2>1, <2>3 DEF StartWindowsDualPreparation
<1>10. CASE StartCasperPreparation(under, s)
  <2>1. {"pending_iso_write", "casper_preparer"} = Holding("casper", TRUE) /\ "casper" \in IsoRoutes
    BY DEF Holding, IsoRoutes
  <2>2. QED BY <1>6, <1>10, <2>1 DEF StartCasperPreparation
<1>11. CASE Goes(Opened(under, "uefi_helper", s), s, "uefi", {}, "none", FALSE)
  BY <1>7, <1>11
<1>12. CASE Goes(Opened(under, "iso_write", s), s, "constructed", {}, "none", FALSE)
  BY <1>7, <1>12
<1>13. \/ Ends(under, {s}, {"iso_staging_preparer"}) \/ Ends(box, {s}, {"iso_staging_preparer"})
       \/ ContinuePreparedIsoWrite(under, s)
  BY <1>1, <1>2 DEF OnIsoStagingPreparationFinished
<1>14. QED BY <1>4, <1>5, <1>8, <1>9, <1>10, <1>11, <1>12, <1>13 DEF ContinuePreparedIsoWrite

-----------------------------------------------------------------------------
(* Syslinux, and Windows for BIOS and UEFI. *)

\* Syslinux: the plan is put to the user, or on_finished closes the workflow.
LEMMA SyslinuxPrepared ==
  ASSUME NEW under, NEW s, Turn(under, s), jobs[s].kind = "syslinux",
         Owns(owner, s, Holding("syslinux", TRUE)),
         NEW outcome, OnSyslinuxPreparationFinished(under, s, outcome)
  PROVE  Good
<1>1. /\ Owns(owner, s, Holding("syslinux", FALSE)) /\ "syslinux" \in RefQuestions
      /\ Holding("syslinux", TRUE) = {"pending_iso_write", "syslinux_workflow"}
  BY DEF Holding, RefQuestions
<1>2. Live(owner) # {} /\ Refers(owner, "syslinux_workflow", s)
  BY <1>1 DEF Owns, Live, Refers
<1>3. CASE OnFinished(under, jobs)
  BY <1>1, <1>3, OnFinishedIsGood
<1>4. CASE Dismissed(Opened(under, "syslinux", s))
  <2>1. /\ owner' = owner /\ busy' = busy /\ window' = window
             /\ asks' = Opened(under, "syslinux", s)
        /\ jobs' = Tidied(jobs)
    BY <1>4 DEF Dismissed
  <2>2. busy = TRUE
    BY <1>2, IsBusy
  <2>3. SamePlanner(owner, owner') /\ Owns(owner', s, Holding("syslinux", FALSE))
    BY <1>1, <2>1 DEF SamePlanner
  <2>4. QED BY <1>1, <2>1, <2>2, <2>3, RefQuestionIsGood
<1>5. QED BY <1>2, <1>3, <1>4 DEF OnSyslinuxPreparationFinished

\* The worker goes on, or the workflow is closed.
LEMMA SyslinuxAnswered ==
  ASSUME NEW under, NEW s, Turn(under, s), jobs[s].kind = "syslinux",
         Owns(owner, s, Holding("syslinux", FALSE)),
         NEW yes \in BOOLEAN, yes => window = "open", PromptSyslinuxConfirmation(under, s, yes)
  PROVE  Good
<1>1. Live(owner) = {"pending_iso_write", "syslinux_workflow"}
        /\ Refers(owner, "syslinux_workflow", s)
  BY DEF Owns, Live, Refers, Holding
<1>2. CASE ~yes
  <2>1. PICK fields : fields = {"pending_iso_write", "iso_workspace", "syslinux_workflow"}
    OBVIOUS
  <2>2. fields = {"pending_iso_write", "iso_workspace"}
                   \cup (IF Refers(owner, "syslinux_workflow", s) THEN {"syslinux_workflow"}
                     ELSE {})
    BY <1>1, <2>1
  <2>3. Ends(under, {s}, fields) /\ Shows(under, under)
    BY <1>2, <2>2 DEF PromptSyslinuxConfirmation, Shows
  <2>4. Live(owner) \subseteq fields /\ "zip_overlay_preparer" \notin fields
    BY <1>1, <2>1
  <2>5. QED BY <2>3, <2>4, EndsIsGood
<1>3. CASE OnFinished(under, jobs)
  BY <1>3, OnFinishedIsGood DEF RefQuestions
<1>4. CASE yes /\ ~jobs[s].cancelled /\ Continues(under, s, "execute")
  <2>1. window # "closed"
    BY <1>4
  <2>2. QED BY <1>4, <2>1, ContinuesIsGood
<1>5. QED BY <1>1, <1>2, <1>3, <1>4 DEF PromptSyslinuxConfirmation, StartSyslinuxDeviceWrite

\* The worker ended: on_finished closes the workflow.
LEMMA SyslinuxExecuted ==
  ASSUME NEW under, NEW s, Turn(under, s), jobs[s].kind = "syslinux",
         Owns(owner, s, Holding("syslinux", FALSE)), OnSyslinuxExecutionFinished(under, s)
  PROVE  Good
<1>1. Refers(owner, "syslinux_workflow", s)
  BY DEF Owns, Live, Refers, Holding
<1>2. OnFinished(under, jobs)
  BY <1>1 DEF OnSyslinuxExecutionFinished
<1>3. QED BY <1>2, OnFinishedIsGood DEF RefQuestions

\* Windows dual: the plan is put to the user, or on_finished removes the directory.
LEMMA DualPrepared ==
  ASSUME NEW under, NEW s, Turn(under, s), jobs[s].kind = "dual",
         Owns(owner, s, Holding("dual", TRUE)),
         NEW outcome, OnWindowsDualPreparationFinished(under, s, outcome)
  PROVE  Good
<1>1. /\ Holding("dual", FALSE) = {"pending_iso_write", "iso_workspace", "windows_device_runner"}
      /\ Holding("dual", TRUE) = Holding("dual", FALSE) \cup {"iso_stager"}
           /\ "dual" \in RefQuestions
  BY DEF Holding, RefQuestions
<1>2. /\ Live(owner) = {"pending_iso_write", "iso_workspace", "windows_device_runner", "iso_stager"}
      /\ Refers(owner, "windows_device_runner", s)
  BY <1>1 DEF Owns, Live, Refers
<1>3. CASE OnFinished(under, jobs)
  BY <1>1, <1>3, OnFinishedIsGood
<1>4. CASE /\ owner' = Without(owner, {"iso_stager"}) /\ asks' = Opened(under, "dual", s)
           /\ window' = window /\ busy' = busy /\ jobs' = Tidied(jobs)
  <2>1. busy = TRUE
    BY <1>2, IsBusy
  <2>2. SamePlanner(owner, owner') /\ Live(owner') = Live(owner) \ {"iso_stager"}
    BY <1>4, WithoutKeeps
  <2>3. Live(owner') = Holding("dual", FALSE)
    BY <1>1, <1>2, <2>2
  <2>4. \A f \in Live(owner') : owner'[f] = s
    <3>1. \A f \in Live(owner) : owner[f] = s
      BY DEF Owns
    <3>2. \A f \in DOMAIN owner' : owner'[f] = owner[f]
      BY <1>4 DEF Without
    <3>3. QED BY <2>2, <3>1, <3>2 DEF Live
  <2>5. Owns(owner', s, Holding("dual", FALSE))
    BY <2>3, <2>4 DEF Owns
  <2>6. QED BY <1>1, <1>4, <2>1, <2>2, <2>5, RefQuestionIsGood
<1>5. QED BY <1>2, <1>3, <1>4 DEF OnWindowsDualPreparationFinished

\* The worker goes on, or the directory is removed, or the application ends.
LEMMA DualAnswered ==
  ASSUME IInv, signals' = signals, NEW under, NEW s, Turn(under, s), jobs[s].kind = "dual",
         Owns(owner, s, Holding("dual", FALSE)),
         NEW yes \in BOOLEAN, yes => window = "open", PromptWindowsDualConfirmation(under, s, yes)
  PROVE  Good
<1>1. /\ Live(owner) = {"windows_device_runner", "pending_iso_write", "iso_workspace"}
      /\ Refers(owner, "windows_device_runner", s)
  BY DEF Owns, Live, Refers, Holding
<1>2. CASE ~yes
  <2>1. PICK fields : fields = {"windows_device_runner", "pending_iso_write", "iso_workspace"}
    OBVIOUS
  <2>2. Ends(under, {s}, fields) /\ Shows(under, under)
    BY <1>2, <2>1 DEF PromptWindowsDualConfirmation, Shows
  <2>3. QED BY <1>1, <2>1, <2>2, EndsIsGood
<1>3. CASE yes /\ jobs[s].cancelled
  <2>1. /\ window' = "aborted" /\ asks' = asks /\ owner' = owner /\ jobs' = jobs /\ busy' = busy
    BY <1>3 DEF PromptWindowsDualConfirmation
  <2>2. Safe(jobs, owner, asks, signals, busy, window)
    BY DEF IInv
  <2>3. Safe(jobs, owner, asks, signals, busy, "aborted")
    BY <2>2, ShutIsSafe
  <2>4. IInv'
    BY <2>1, <2>3 DEF IInv
  <2>5. Heard(jobs, jobs')
    BY <2>1 DEF Heard
  <2>6. QED BY <2>4, <2>5 DEF Good
<1>4. CASE OnFinished(under, jobs)
  BY <1>4, OnFinishedIsGood DEF RefQuestions
<1>5. CASE yes /\ ~jobs[s].cancelled /\ Continues(under, s, "execute")
  <2>1. window # "closed"
    BY <1>5
  <2>2. QED BY <1>5, <2>1, ContinuesIsGood
<1>6. QED BY <1>1, <1>2, <1>3, <1>4, <1>5 DEF PromptWindowsDualConfirmation,
  StartWindowsDualDeviceWrite

\* The worker ended: on_finished removes the directory.
LEMMA DualExecuted ==
  ASSUME NEW under, NEW s, Turn(under, s), jobs[s].kind = "dual",
         Owns(owner, s, Holding("dual", FALSE)), OnWindowsDualExecutionFinished(under, s)
  PROVE  Good
<1>1. Refers(owner, "windows_device_runner", s)
  BY DEF Owns, Live, Refers, Holding
<1>2. OnFinished(under, jobs)
  BY <1>1 DEF OnWindowsDualExecutionFinished
<1>3. QED BY <1>2, OnFinishedIsGood DEF RefQuestions

-----------------------------------------------------------------------------
(* The event loop. *)

\* Every handler of a preparation.
LEMMA PreparedIsGood ==
  ASSUME NEW under, NEW s, Turn(under, s), Owns(owner, s, Holding(jobs[s].kind, TRUE)),
         window = "open", NEW outcome, Prepared(under, s, outcome)
  PROVE  Good
<1>1. CASE jobs[s].kind = "raw" /\ OnRawPreparationFinished(under, s, outcome)
  <2>1. Holding("raw", TRUE) = {"raw_workflow"} /\ Holding("raw", FALSE) = {"raw_workflow"}
    BY DEF Holding
  <2>2. QED BY <1>1, <2>1, PreparationFinishedIsGood DEF OnRawPreparationFinished
<1>2. CASE jobs[s].kind = "fast_zero" /\ OnFastZeroPreparationFinished(under, s, outcome)
  <2>1. Holding("fast_zero", TRUE) = {"fast_zero_workflow"}
          /\ Holding("fast_zero", FALSE) = {"fast_zero_workflow"}
    BY DEF Holding
  <2>2. QED BY <1>2, <2>1, PreparationFinishedIsGood DEF OnFastZeroPreparationFinished
<1>3. CASE jobs[s].kind = "restore" /\ OnRestorePreparationFinished(under, s, outcome)
  <2>1. Holding("restore", TRUE) = {"restore_workflow"} /\ Holding("restore", FALSE) =
          {"restore_workflow"}
    BY DEF Holding
  <2>2. QED BY <1>3, <2>1, PreparationFinishedIsGood DEF OnRestorePreparationFinished
<1>4. CASE jobs[s].kind = "grub" /\ OnGrubRescuePreparationFinished(under, s, outcome)
  BY <1>4, GrubPrepared
<1>5. CASE jobs[s].kind = "shell" /\ OnUefiShellPreparationFinished(under, s, outcome)
  BY <1>5, ShellPrepared
<1>6. CASE jobs[s].kind = "iso" /\ OnIsoStagingPreparationFinished(under, s, outcome)
  BY <1>6, IsoPrepared
<1>7. CASE jobs[s].kind = "uefi" /\ OnUefiPreparationFinished(under, s, outcome)
  <2>1. Holding("uefi", TRUE) = {"pending_iso_write", "uefi_preparer"}
    BY DEF Holding
  <2>2. QED BY <1>7, <2>1, HelperPrepared DEF OnUefiPreparationFinished
<1>8. CASE jobs[s].kind = "casper" /\ OnCasperPreparationFinished(under, s, outcome)
  <2>1. Holding("casper", TRUE) = {"pending_iso_write", "casper_preparer"}
    BY DEF Holding
  <2>2. QED BY <1>8, <2>1, HelperPrepared DEF OnCasperPreparationFinished
<1>9. CASE jobs[s].kind = "syslinux" /\ OnSyslinuxPreparationFinished(under, s, outcome)
  BY <1>9, SyslinuxPrepared
<1>10. CASE jobs[s].kind = "dual" /\ OnWindowsDualPreparationFinished(under, s, outcome)
  BY <1>10, DualPrepared
<1>11. QED BY <1>1, <1>2, <1>3, <1>4, <1>5, <1>6, <1>7, <1>8, <1>9, <1>10 DEF Prepared

\* Every handler of an execution.
LEMMA ExecutedIsGood ==
  ASSUME NEW under, NEW s, Turn(under, s), Owns(owner, s, Holding(jobs[s].kind, FALSE)),
         NEW outcome, Executed(under, s, outcome)
  PROVE  Good
<1>1. CASE jobs[s].kind = "raw" /\ OnRawExecutionFinished(under, s, outcome)
  <2>1. Holding("raw", FALSE) = {"raw_workflow"}
    BY DEF Holding
  <2>2. QED BY <1>1, <2>1, ExecutionFinishedIsGood DEF OnRawExecutionFinished
<1>2. CASE jobs[s].kind = "fast_zero" /\ OnFastZeroExecutionFinished(under, s, outcome)
  <2>1. Holding("fast_zero", FALSE) = {"fast_zero_workflow"}
    BY DEF Holding
  <2>2. QED BY <1>2, <2>1, ExecutionFinishedIsGood DEF OnFastZeroExecutionFinished
<1>3. CASE jobs[s].kind = "restore" /\ OnRestoreExecutionFinished(under, s, outcome)
  <2>1. Holding("restore", FALSE) = {"restore_workflow"}
    BY DEF Holding
  <2>2. QED BY <1>3, <2>1, ExecutionFinishedIsGood DEF OnRestoreExecutionFinished
<1>4. CASE jobs[s].kind = "grub" /\ OnGrubRescueExecutionFinished(under, s)
  BY <1>4, GrubExecuted
<1>5. CASE jobs[s].kind = "syslinux" /\ OnSyslinuxExecutionFinished(under, s)
  BY <1>5, SyslinuxExecuted
<1>6. CASE jobs[s].kind = "dual" /\ OnWindowsDualExecutionFinished(under, s)
  BY <1>6, DualExecuted
<1>7. QED BY <1>1, <1>2, <1>3, <1>4, <1>5, <1>6 DEF Executed

\* The result of a job that the window has not forgotten.
LEMMA ResultIsGood ==
  ASSUME NEW under, NEW s, Turn(under, s), Owns(owner, s, Holding(jobs[s].kind, FALSE)),
         NEW outcome, Result(under, s, outcome)
  PROVE  Good
<1>1. CASE jobs[s].kind = "linux" /\ OnLinuxDownloadFinished(under, s, outcome)
  <2>1. Holding("linux", FALSE) = {"linux_downloader"} /\ "linux" \in Downloads
    BY DEF Holding, Downloads
  <2>2. QED BY <1>1, <2>1, DownloadIsGood DEF OnLinuxDownloadFinished
<1>2. CASE jobs[s].kind = "freedos" /\ OnFreeDosDownloadFinished(under, s, outcome)
  <2>1. Holding("freedos", FALSE) = {"freedos_downloader"} /\ "freedos" \in Downloads
    BY DEF Holding, Downloads
  <2>2. PICK told : DownloadFinished("freedos_downloader", under, s, told)
    BY <1>2 DEF OnFreeDosDownloadFinished, PublishedDownloadFinished
  <2>3. QED BY <1>2, <2>1, <2>2, DownloadIsGood
<1>3. CASE jobs[s].kind = "windows" /\ OnWindowsDownloadFinished(under, s, outcome)
  <2>1. Holding("windows", FALSE) = {"windows_downloader"} /\ "windows" \in Downloads
    BY DEF Holding, Downloads
  <2>2. PICK told : DownloadFinished("windows_downloader", under, s, told)
    BY <1>3 DEF OnWindowsDownloadFinished, PublishedDownloadFinished
  <2>3. QED BY <1>3, <2>1, <2>2, DownloadIsGood
<1>4. CASE jobs[s].kind = "checksums" /\ OnChecksumsFinished(under, s, outcome)
  BY <1>4, ChecksumsFinished
<1>5. CASE jobs[s].kind = "editions" /\ OnWindowsMetadataFinished(under, s, outcome)
  BY <1>5, EditionsFinished
<1>6. jobs[s].kind # "overlay"
  BY HandledFacts DEF Turn
<1>7. QED BY <1>1, <1>2, <1>3, <1>4, <1>5, <1>6 DEF Result

\* Attributes are reset of what has ended, or was cancelled; the dialogs stay.
LEMMA ForgottenIsGood ==
  ASSUME NEW under, Safe(jobs, owner, under, signals', busy, window),
         NEW slots, slots \subseteq {owner[f] : f \in DOMAIN owner},
         NEW ks, Marks(jobs, ks, slots),
         NEW forgotten \in SUBSET {"zip_overlay_preparer", "checksum_preparer"},
         \A f \in forgotten \cap DOMAIN owner :
           owner[f] \in slots \/ (f = "zip_overlay_preparer" /\ jobs[owner[f]].step = "none"),
         owner' = Without(owner, forgotten), NEW bs, SameDialogs(under, bs), Shows(bs, asks'),
         busy' = busy \/ (busy' = FALSE /\ Live(owner') = {}), window' = window, jobs' = Tidied(ks)
  PROVE  Good
<1>1. PICK refs : refs = owner'
  OBVIOUS
<1>2. Keeps(owner, forgotten, refs)
  BY <1>1 DEF Keeps, Without
<1>3. Attributes(owner, busy) /\ busy \in BOOLEAN
  BY DEF Safe, Most, Typed
<1>4. Live(refs) \subseteq Live(owner)
  BY <1>2 DEF Keeps, Live
<1>5. busy' \in BOOLEAN /\ (Live(refs) # {} => busy')
  BY <1>1, <1>3, <1>4 DEF Attributes
<1>6. PICK with \in BOOLEAN : with = busy'
  BY <1>5
<1>7. Safe(ks, refs, bs, signals', with, window)
  BY <1>2, <1>5, <1>6, CancelIsSafe
<1>8. PICK cs : cs = asks'
  OBVIOUS
<1>9. Safe(ks, refs, cs, signals', with, window)
  BY <1>7, <1>8, ShowIsSafe
<1>10. Safe(ks, owner', asks', signals', busy', window')
  BY <1>1, <1>6, <1>8, <1>9
<1>11. Heard(jobs, ks)
  BY DEF Marks, Heard
<1>12. QED BY <1>10, <1>11, Settles

\* The result of a planner, or of a checksum that was cancelled.
LEMMA ExemptIsGood ==
  ASSUME NEW under, Safe(jobs, owner, under, signals', busy, window), NEW s \in Slots,
         Exempt(jobs[s]),
         jobs[s].step = "none", NEW outcome, Result(under, s, outcome)
  PROVE  Good
<1>1. /\ Typed(jobs, owner, under, signals', busy) /\ Attributes(owner, busy)
           /\ Working(jobs, owner)
      /\ jobs \in [Slots -> JobRecord] /\ under \in Seq(AskRecord) /\ busy \in BOOLEAN
  BY DEF Safe, Most, Typed
<1>2. Shows(under, under) /\ SameDialogs(under, under)
  BY <1>1, UnchangedDialogs DEF Shows
<1>3. CASE Dismissed(under)
  BY <1>2, <1>3, ResumesIsGood
<1>4. CASE jobs[s].cancelled /\ Refers(owner, "checksum_preparer", s)
             /\ OnChecksumsFinished(under, s, outcome)
  <2>1. /\ owner' = Without(owner, {"checksum_preparer"}) /\ asks' = under /\ busy' = FALSE
        /\ window' = window /\ jobs' = Tidied(Closed(jobs, {}))
    BY <1>4 DEF OnChecksumsFinished, Ends
  <2>2. Closed(jobs, {}) = jobs
    BY <1>1 DEF Closed, Changed
  <2>3. Marks(jobs, jobs, {s})
    BY <1>1, <1>4 DEF Marks
  <2>4. {s} \subseteq {owner[f] : f \in DOMAIN owner} /\ owner["checksum_preparer"] \in {s}
    BY <1>4 DEF Refers
  <2>5. Live(owner) = {"checksum_preparer"}
    BY <1>1, <1>4 DEF Attributes, Refers, Live
  <2>6. Live(owner') = {}
    BY <2>1, <2>5, WithoutKeeps
  <2>7. PICK slots : slots = {s}
    OBVIOUS
  <2>8. PICK forgotten \in SUBSET {"zip_overlay_preparer", "checksum_preparer"} :
               forgotten = {"checksum_preparer"}
    OBVIOUS
  <2>9. QED BY <1>2, <2>1, <2>2, <2>3, <2>4, <2>6, <2>7, <2>8, ForgottenIsGood
<1>5. CASE Refers(owner, "zip_overlay_preparer", s) /\ OnZipOverlayFinished(under, s, outcome)
  <2>1. /\ owner' = Without(owner, {"zip_overlay_preparer"}) /\ busy' = busy /\ window' = window
        /\ jobs' = Tidied(jobs) /\ (asks' = under \/ asks' = Opened(under, "notice", 0))
    BY <1>5 DEF OnZipOverlayFinished
  <2>2. Shows(under, asks')
    BY <2>1 DEF Shows, Boxes
  <2>3. PICK slots : slots = {}
    OBVIOUS
  <2>4. Marks(jobs, jobs, slots)
    BY <1>1, <2>3, NothingMarks
  <2>5. PICK forgotten \in SUBSET {"zip_overlay_preparer", "checksum_preparer"} :
               forgotten = {"zip_overlay_preparer"}
    OBVIOUS
  <2>6. \A f \in forgotten \cap DOMAIN owner : f = "zip_overlay_preparer"
          /\ jobs[owner[f]].step = "none"
    BY <1>5, <2>5 DEF Refers
  <2>7. QED BY <1>2, <2>1, <2>2, <2>3, <2>4, <2>5, <2>6, ForgottenIsGood
<1>6. CASE jobs[s].kind = "checksums"
  BY <1>3, <1>4, <1>6 DEF Result, Exempt, OnChecksumsFinished
<1>7. CASE jobs[s].kind = "overlay"
  BY <1>3, <1>5, <1>7 DEF Result, OnZipOverlayFinished
<1>8. QED BY <1>6, <1>7 DEF Exempt

-----------------------------------------------------------------------------
(* Cancelling, closing the window and selecting an image. *)

\* The program may reject dialogs.
LEMMA RejectedDialogs ==
  ASSUME NEW as \in Seq(AskRecord), NEW slots
  PROVE  SameDialogs(as, [i \in DOMAIN as |->
           [as[i] EXCEPT !.no = @ \/ (as[i].ask \in Confirmations /\ as[i].job \in slots)]])
<1>1. PICK bs : bs = [i \in DOMAIN as |->
           [as[i] EXCEPT !.no = @ \/ (as[i].ask \in Confirmations /\ as[i].job \in slots)]]
  OBVIOUS
<1>2. ASSUME NEW i \in DOMAIN as
      PROVE  bs[i] \in AskRecord /\ bs[i].ask = as[i].ask /\ bs[i].job = as[i].job
  <2>1. as[i] \in AskRecord
    BY Elements
  <2>2. PICK a \in AskRecord : a = as[i]
    BY <2>1
  <2>3. PICK no \in BOOLEAN : no = (a.no \/ (a.ask \in Confirmations /\ a.job \in slots))
    OBVIOUS
  <2>4. PICK b : b = [a EXCEPT !.no = no]
    OBVIOUS
  <2>5. b \in AskRecord /\ b.ask = a.ask /\ b.job = a.job
    BY <2>4 DEF AskRecord
  <2>6. bs[i] = b
    BY <1>1, <2>2, <2>3, <2>4
  <2>7. QED BY <2>2, <2>5, <2>6
<1>3. DOMAIN as = 1..Len(as) /\ Len(as) \in Nat
  BY LenProperties
<1>4. DOMAIN bs = 1..Len(as) /\ bs = [i \in DOMAIN bs |-> bs[i]]
  BY <1>1, <1>3
<1>5. bs \in [1..Len(as) -> AskRecord]
  BY <1>2, <1>3, <1>4
<1>6. bs \in Seq(AskRecord)
  <2>1. PICK n \in Nat : n = Len(as)
    BY <1>3
  <2>2. bs \in [1..n -> AskRecord]
    BY <1>5, <2>1
  <2>3. bs \in UNION {[1..m -> AskRecord] : m \in Nat}
    BY <2>2
  <2>4. QED BY <2>3, SeqDef, Zenon
<1>7. SameDialogs(as, bs)
  BY <1>2, <1>3, <1>4, <1>6 DEF SameDialogs
<1>8. QED BY <1>1, <1>7

\* cancel() takes no claim away: what it cancels has its worker, its signal or its dialog.
LEMMA CancelsIsGood ==
  ASSUME NEW under, Safe(jobs, owner, under, signals', busy, window), NEW later,
         Cancels(under, later)
  PROVE  Good
<1>1. PICK operations : operations = ReferredBy(owner, OperationFields)
  OBVIOUS
<1>2. PICK slots : slots = operations \cup ReferredBy(owner, {"zip_overlay_preparer"})
  OBVIOUS
<1>3. PICK bs : bs = [i \in DOMAIN under |->
           [under[i] EXCEPT !.no = @ \/ (under[i].ask \in Confirmations
             /\ under[i].job \in operations)]]
  OBVIOUS
<1>4. PICK ks : ks = Cancelled(jobs, slots)
  OBVIOUS
<1>5. /\ owner' = Without(owner, {"zip_overlay_preparer"}) /\ asks' = bs /\ busy' = busy
      /\ window' = window /\ jobs' = Tidied(ks)
  BY <1>1, <1>2, <1>3, <1>4 DEF Cancels
<1>6. jobs \in [Slots -> JobRecord] /\ under \in Seq(AskRecord)
  BY DEF Safe, Most, Typed
<1>7. SameDialogs(under, bs)
  BY <1>3, <1>6, RejectedDialogs
<1>8. Marks(jobs, ks, slots)
  BY <1>4, <1>6, CancelledMarks
<1>9. slots \subseteq {owner[f] : f \in DOMAIN owner}
  BY <1>1, <1>2 DEF ReferredBy
<1>10. "zip_overlay_preparer" \in DOMAIN owner => owner["zip_overlay_preparer"] \in slots
  BY <1>2 DEF ReferredBy
<1>11. PICK forgotten \in SUBSET {"zip_overlay_preparer", "checksum_preparer"} :
         forgotten = {"zip_overlay_preparer"}
  OBVIOUS
<1>12. \A f \in forgotten \cap DOMAIN owner : owner[f] \in slots
  BY <1>10, <1>11
<1>13. Shows(bs, asks')
  BY <1>5 DEF Shows
<1>14. owner' = Without(owner, forgotten)
  BY <1>5, <1>11
<1>15. busy' = busy \/ (busy' = FALSE /\ Live(owner') = {})
  BY <1>5
<1>16. QED BY <1>5, <1>7, <1>8, <1>9, <1>12, <1>13, <1>14, <1>15, ForgottenIsGood

\* A window that is closed while no operation is active leaves nothing that goes on.
LEMMA CloseIsGood ==
  ASSUME NEW under, Safe(jobs, owner, under, signals', busy, window), NEW insp,
         CloseEvent(under, insp)
  PROVE  Good
<1>1. CASE ~OperationActive(owner) /\ insp.count = 0
  <2>1. PICK slots : slots = ReferredBy(owner, {"zip_overlay_preparer"})
    OBVIOUS
  <2>2. PICK ks : ks = Cancelled(jobs, slots)
    OBVIOUS
  <2>3. /\ owner' = owner /\ asks' = under /\ busy' = busy /\ window' = "closed"
             /\ jobs' = Tidied(ks)
    BY <1>1, <2>1, <2>2 DEF CloseEvent
  <2>4. /\ jobs \in [Slots -> JobRecord] /\ under \in Seq(AskRecord) /\ busy \in BOOLEAN
        /\ Attributes(owner, busy)
    BY DEF Safe, Most, Typed
  <2>5. Live(owner) = {}
    BY <1>1, <2>4 DEF Attributes, OperationActive, Live
  <2>6. Marks(jobs, ks, slots)
    BY <2>2, <2>4, CancelledMarks
  <2>7. slots \subseteq {owner[f] : f \in DOMAIN owner}
    BY <2>1 DEF ReferredBy
  <2>8. PICK forgotten \in SUBSET {"zip_overlay_preparer", "checksum_preparer"} : forgotten = {}
    OBVIOUS
  <2>9. Keeps(owner, forgotten, owner) /\ SameDialogs(under, under)
    BY <2>4, <2>8, UnchangedDialogs DEF Keeps
  <2>10. \A f \in forgotten \cap DOMAIN owner : owner[f] \in slots
    BY <2>8
  <2>11. PICK with \in BOOLEAN : with = busy
    BY <2>4
  <2>12. Safe(ks, owner, under, signals', with, window)
    BY <2>5, <2>6, <2>7, <2>9, <2>10, CancelIsSafe
  <2>13. Marks(jobs, ks, ReferredBy(owner, {"zip_overlay_preparer"}))
    BY <2>1, <2>6
  <2>14. \A s \in Slots : ks[s].step # "none" => ks[s].cancelled
    BY <2>5, <2>13, IdleIsShut
  <2>15. Safe(ks, owner, under, signals', with, "closed")
    BY <2>12, <2>14, ShutIsSafe
  <2>16. Safe(ks, owner', asks', signals', busy', window')
    BY <2>3, <2>11, <2>15
  <2>17. Heard(jobs, ks)
    BY <2>6 DEF Marks, Heard
  <2>18. QED BY <2>3, <2>16, <2>17, Settles
<1>2. CASE ~(~OperationActive(owner) /\ insp.count = 0)
  <2>1. PICK name \in {"close", "close_inspecting"} :
          name = IF insp.count > 0 THEN "close_inspecting" ELSE "close"
    OBVIOUS
  <2>2. /\ asks' = Opened(under, name, 0) /\ jobs' = Tidied(jobs)
        /\ owner' = owner /\ busy' = busy /\ window' = window
    BY <1>2, <2>1 DEF CloseEvent
  <2>3. PICK bs : bs = asks'
    OBVIOUS
  <2>4. Shows(under, bs)
    BY <2>2, <2>3 DEF Shows, Boxes
  <2>5. Safe(jobs, owner, bs, signals', busy, window)
    BY <2>4, ShowIsSafe
  <2>6. Safe(jobs, owner', asks', signals', busy', window')
    BY <2>2, <2>3, <2>5
  <2>7. Heard(jobs, jobs)
    BY DEF Heard
  <2>8. QED BY <2>2, <2>6, <2>7, Settles
<1>3. QED BY <1>1, <1>2

\* Another image is selected: a checksum is forgotten, and it holds nothing.
LEMMA LoadIsGood ==
  ASSUME NEW under, Safe(jobs, owner, under, signals', busy, window),
         LoadImage(under, owner, jobs, busy)
  PROVE  Good
<1>1. PICK slots : slots = ReferredBy(owner, {"zip_overlay_preparer", "checksum_preparer",
             "windows_wim_extractor"})
  OBVIOUS
<1>2. PICK ks : ks = Cancelled(jobs, slots)
  OBVIOUS
<1>3. PICK forgotten \in SUBSET {"zip_overlay_preparer", "checksum_preparer"} :
        forgotten = {"zip_overlay_preparer", "checksum_preparer"}
  OBVIOUS
<1>4. /\ owner' = Without(owner, forgotten) /\ asks' = under /\ window' = window
           /\ jobs' = Tidied(ks)
      /\ busy' = IF "checksum_preparer" \in DOMAIN owner /\ ~OperationActive(owner') THEN FALSE
           ELSE busy
  BY <1>1, <1>2, <1>3 DEF LoadImage
<1>5. /\ jobs \in [Slots -> JobRecord] /\ under \in Seq(AskRecord) /\ Attributes(owner, busy)
  BY DEF Safe, Most, Typed
<1>6. Marks(jobs, ks, slots)
  BY <1>2, <1>5, CancelledMarks
<1>7. slots \subseteq {owner[f] : f \in DOMAIN owner}
  BY <1>1 DEF ReferredBy
<1>8. \A f \in forgotten \cap DOMAIN owner : owner[f] \in slots
  BY <1>1, <1>3 DEF ReferredBy
<1>9. busy' = busy \/ (busy' = FALSE /\ Live(owner') = {})
  <2>1. CASE "checksum_preparer" \in DOMAIN owner
    <3>1. Live(owner) = {"checksum_preparer"}
      BY <1>5, <2>1 DEF Attributes, Live
    <3>2. Live(owner') = {}
      BY <1>3, <1>4, <3>1 DEF Without, Live
    <3>3. QED BY <1>4, <2>1, <3>2
  <2>2. CASE "checksum_preparer" \notin DOMAIN owner
    BY <1>4, <2>2
  <2>3. QED BY <2>1, <2>2
<1>10. Shows(under, asks') /\ SameDialogs(under, under)
  BY <1>4, <1>5, UnchangedDialogs DEF Shows
<1>11. QED BY <1>4, <1>6, <1>7, <1>8, <1>9, <1>10, ForgottenIsGood

\* The overlay, and the planner of one, are cleared.
LEMMA ClearIsGood ==
  ASSUME Safe(jobs, owner, asks, signals', busy, window), ClearZipOverlay
  PROVE  Good
<1>1. PICK slots : slots = ReferredBy(owner, {"zip_overlay_preparer"})
  OBVIOUS
<1>2. PICK ks : ks = Cancelled(jobs, slots)
  OBVIOUS
<1>3. PICK forgotten \in SUBSET {"zip_overlay_preparer", "checksum_preparer"} :
        forgotten = {"zip_overlay_preparer"}
  OBVIOUS
<1>4. /\ owner' = Without(owner, forgotten) /\ asks' = asks /\ window' = window
           /\ jobs' = Tidied(ks)
      /\ busy' = busy
  BY <1>1, <1>2, <1>3 DEF ClearZipOverlay
<1>5. jobs \in [Slots -> JobRecord] /\ asks \in Seq(AskRecord)
  BY DEF Safe, Most, Typed
<1>6. Marks(jobs, ks, slots)
  BY <1>2, <1>5, CancelledMarks
<1>7. slots \subseteq {owner[f] : f \in DOMAIN owner}
  BY <1>1 DEF ReferredBy
<1>8. \A f \in forgotten \cap DOMAIN owner : owner[f] \in slots
  BY <1>1, <1>3 DEF ReferredBy
<1>9. busy' = busy \/ (busy' = FALSE /\ Live(owner') = {})
  BY <1>4
<1>10. Shows(asks, asks') /\ SameDialogs(asks, asks)
  BY <1>4, <1>5, UnchangedDialogs DEF Shows
<1>11. QED BY <1>4, <1>6, <1>7, <1>8, <1>9, <1>10, ForgottenIsGood

-----------------------------------------------------------------------------
(* The event loop takes a signal. *)

Reviews == {"none", "asked", "accepted", "declined", "stale"}

\* The review of an ISO write is decided, and nothing else changes.
LEMMA ChangedJobs ==
  ASSUME NEW js \in [Slots -> JobRecord], NEW s \in Slots,
         NEW review \in Reviews,
         NEW ks, ks = Changed(js, {s}, "review", review)
  PROVE  Reworked(js, ks, s) /\ ks[s].step = js[s].step
<1>1. PICK job : job = [js[s] EXCEPT !.review = review]
  OBVIOUS
<1>2. js[s] \in JobRecord
  OBVIOUS
<1>3. /\ job \in JobRecord /\ job.step = js[s].step /\ job.kind = js[s].kind
           /\ job.open = js[s].open
      /\ job.cancelled = js[s].cancelled
  BY <1>1, <1>2 DEF JobRecord, Reviews
<1>4. ks = [t \in Slots |-> IF t = s THEN job ELSE js[t]]
  BY <1>1 DEF Changed
<1>5. ks \in [Slots -> JobRecord] /\ ks[s] = job /\ \A t \in Slots \ {s} : ks[t] = js[t]
  BY <1>3, <1>4
<1>6. QED BY <1>3, <1>5 DEF Reworked

\* The job that is reviewed is there, and goes on as it was.
LEMMA ReviewIsSafe ==
  ASSUME NEW js, NEW refs, NEW as, NEW sg, NEW by, NEW win, Safe(js, refs, as, sg, by, win),
         NEW s \in Slots, js[s] # NoJob \/ HeldIn(s, refs, as, sg),
         NEW review \in Reviews, NEW ks, ks = Changed(js, {s}, "review", review)
  PROVE  Safe(ks, refs, as, sg, by, win) /\ Heard(js, ks)
<1>1. js \in [Slots -> JobRecord]
  BY DEF Safe, Most, Typed
<1>2. js[s].step \in Late => js[s].kind \in LateKinds
  BY DEF Safe, Most, Typed
<1>3. Reworked(js, ks, s) /\ ks[s].step = js[s].step
  BY <1>1, ChangedJobs
<1>4. ks[s].step \in Late => ks[s].kind \in LateKinds
  BY <1>2, <1>3 DEF Reworked
<1>5. Safe(ks, refs, as, sg, by, win)
  BY <1>3, <1>4, StepIsSafe
<1>6. Heard(js, ks)
  BY <1>3 DEF Heard, Reworked
<1>7. QED BY <1>5, <1>6

\* The worker that waits for a review is answered, or the user is asked.
LEMMA ReviewRequested ==
  ASSUME Safe(jobs, owner, asks, signals', busy, window), NEW s \in Slots,
         OnStagedDbxConfirmationRequested(asks, s)
  PROVE  Good
<1>1. CASE jobs[s].review # "asked"
  <2>1. Dismissed(asks) /\ Shows(asks, asks)
    BY <1>1 DEF OnStagedDbxConfirmationRequested, Shows
  <2>2. QED BY <2>1, ResumesIsGood
<1>2. CASE jobs[s].review = "asked" /\ jobs[s].cancelled
  <2>1. PICK ks : ks = Changed(jobs, {s}, "review", "declined")
    OBVIOUS
  <2>2. asks' = asks /\ owner' = owner /\ busy' = busy /\ window' = window /\ jobs' = Tidied(ks)
    BY <1>2, <2>1 DEF OnStagedDbxConfirmationRequested
  <2>3. jobs[s] # NoJob
    BY <1>2 DEF NoJob
  <2>4. PICK review \in Reviews : review = "declined"
    BY DEF Reviews
  <2>5. Safe(ks, owner, asks, signals', busy, window) /\ Heard(jobs, ks)
    BY <2>1, <2>3, <2>4, ReviewIsSafe
  <2>6. Safe(ks, owner', asks', signals', busy', window')
    BY <2>2, <2>5
  <2>7. QED BY <2>2, <2>5, <2>6, Settles
<1>3. CASE jobs[s].review = "asked" /\ ~jobs[s].cancelled
  <2>1. /\ asks' = Opened(asks, "dbx", s) /\ owner' = owner /\ busy' = busy /\ window' = window
        /\ jobs' = Tidied(jobs)
    BY <1>3 DEF OnStagedDbxConfirmationRequested, Dismissed
  <2>2. jobs[s] # NoJob
    BY <1>3 DEF NoJob
  <2>3. PICK a : a = Ask("dbx", s)
    OBVIOUS
  <2>4. a \in AskRecord /\ a.ask = "dbx" /\ a.job = s
    BY <2>3 DEF Ask, AskRecord
  <2>5. Safe(jobs, owner, Append(asks, a), signals', busy, window)
    BY <2>2, <2>4, BoxIsSafe
  <2>6. Safe(jobs, owner', asks', signals', busy', window')
    BY <2>1, <2>3, <2>5 DEF Opened
  <2>7. Heard(jobs, jobs)
    BY DEF Heard
  <2>8. QED BY <2>1, <2>6, <2>7, Settles
<1>4. QED BY <1>1, <1>2, <1>3

\* An inspection ended: the window may close that was waiting for it.
LEMMA InspectionEnded ==
  ASSUME Safe(jobs, owner, asks, signals', busy, window), OnInspectionWorkerFinished(asks)
  PROVE  Good
<1>1. PICK insp : insp = [inspection EXCEPT !.count = IF @ > 0 THEN @ - 1 ELSE 0]
  OBVIOUS
<1>2. CASE insp.count = 0 /\ insp.closeAfter
  <2>1. CloseEvent(asks, [insp EXCEPT !.closeAfter = FALSE])
    BY <1>1, <1>2 DEF OnInspectionWorkerFinished
  <2>2. PICK after : after = [insp EXCEPT !.closeAfter = FALSE]
    OBVIOUS
  <2>3. CloseEvent(asks, after)
    BY <2>1, <2>2
  <2>4. QED BY <2>3, CloseIsGood
<1>3. CASE ~(insp.count = 0 /\ insp.closeAfter)
  <2>1. Dismissed(asks) \/ (asks' = asks /\ owner' = owner /\ busy' = busy /\ window' = window
          /\ jobs' = Tidied(jobs))
    BY <1>1, <1>3 DEF OnInspectionWorkerFinished
  <2>2. asks' = asks /\ owner' = owner /\ busy' = busy /\ window' = window /\ jobs' = Tidied(jobs)
    BY <2>1 DEF Dismissed
  <2>3. Safe(jobs, owner', asks', signals', busy', window')
    BY <2>2
  <2>4. Heard(jobs, jobs)
    BY DEF Heard
  <2>5. QED BY <2>2, <2>3, <2>4, Settles
<1>4. QED BY <1>2, <1>3

\* The event loop takes a signal.
LEMMA DispatchIsGood ==
  ASSUME IInv, Dispatch
  PROVE  Good
<1>1. PICK m : m = Head(signals)
  OBVIOUS
<1>2. window = "open" /\ signals # <<>> /\ signals' = Tail(signals)
  BY DEF Dispatch
<1>3. Safe(jobs, owner, asks, signals, busy, window)
  BY DEF IInv
<1>4. /\ Typed(jobs, owner, asks, signals, busy) /\ Once(jobs, asks, signals)
      /\ OpenExcept(jobs, asks, signals, {})
  BY <1>3 DEF Safe, Most
<1>5. /\ jobs \in [Slots -> JobRecord] /\ asks \in Seq(AskRecord) /\ signals \in Seq(SignalRecord)
      /\ \A i \in DOMAIN signals :
           /\ signals[i].to = "finished" => jobs[signals[i].job].kind \in Simple \cup {"media"}
                \cup LateKinds
           /\ signals[i].to = "media_finished" => jobs[signals[i].job].kind = "media"
           /\ signals[i].to \in Endings => jobs[signals[i].job].step = "none"
  BY <1>4 DEF Typed, Once, Resting
<1>6. PICK i \in DOMAIN signals : signals[i] = m
  BY <1>1, <1>2, <1>5, Taken
<1>7. /\ m.to = "finished" => jobs[m.job].kind \in Simple \cup {"media"} \cup LateKinds
      /\ m.to = "media_finished" => jobs[m.job].kind = "media"
      /\ m.to \in Endings => jobs[m.job].step = "none"
  BY <1>5, <1>6
<1>8. m.to \in Endings \cup {"dbx_requested"} => m.job \in Slots
  BY <1>5, <1>6, Entries
<1>9. ASSUME m.to \notin Endings \/ ~jobs[m.job].open
      PROVE  Safe(jobs, owner, asks, signals', busy, window)
  BY <1>1, <1>2, <1>3, <1>9, MessageTaken
<1>10. ASSUME m.to \in Endings, ~Exempt(jobs[m.job])
       PROVE  Turn(asks, m.job) /\ Owns(owner, m.job, Holding(jobs[m.job].kind, m.to = "prepared"))
  BY <1>1, <1>2, <1>10, Ending
<1>11. CASE m.to = "prepared" /\ Prepared(asks, m.job, m.outcome)
  <2>1. ~Exempt(jobs[m.job])
    BY <1>11 DEF Prepared, Exempt
  <2>2. m.to \in Endings /\ (m.to = "prepared") = TRUE
    BY <1>11 DEF Endings
  <2>3. Turn(asks, m.job) /\ Owns(owner, m.job, Holding(jobs[m.job].kind, TRUE))
    BY <1>10, <2>1, <2>2
  <2>4. PICK s : s = m.job
    OBVIOUS
  <2>5. PICK outcome : outcome = m.outcome
    OBVIOUS
  <2>6. Turn(asks, s) /\ Owns(owner, s, Holding(jobs[s].kind, TRUE)) /\ Prepared(asks, s, outcome)
    BY <1>11, <2>3, <2>4, <2>5
  <2>7. QED BY <1>2, <2>6, PreparedIsGood
<1>12. CASE m.to = "executed" /\ Executed(asks, m.job, m.outcome)
  <2>1. ~Exempt(jobs[m.job])
    BY <1>12 DEF Executed, Exempt
  <2>2. m.to \in Endings /\ (m.to = "prepared") = FALSE
    BY <1>12 DEF Endings
  <2>3. Turn(asks, m.job) /\ Owns(owner, m.job, Holding(jobs[m.job].kind, FALSE))
    BY <1>10, <2>1, <2>2
  <2>4. PICK s : s = m.job
    OBVIOUS
  <2>5. PICK outcome : outcome = m.outcome
    OBVIOUS
  <2>6. Turn(asks, s) /\ Owns(owner, s, Holding(jobs[s].kind, FALSE)) /\ Executed(asks, s, outcome)
    BY <1>12, <2>3, <2>4, <2>5
  <2>7. QED BY <2>6, ExecutedIsGood
<1>13. CASE m.to = "result" /\ Result(asks, m.job, m.outcome)
  <2>1. PICK s : s = m.job
    OBVIOUS
  <2>2. PICK outcome : outcome = m.outcome
    OBVIOUS
  <2>3. m.to \in Endings /\ (m.to = "prepared") = FALSE /\ Result(asks, s, outcome)
    BY <1>13, <2>1, <2>2 DEF Endings
  <2>4. CASE ~Exempt(jobs[s])
    <3>1. Turn(asks, m.job) /\ Owns(owner, m.job, Holding(jobs[m.job].kind, FALSE))
      BY <1>10, <2>1, <2>3, <2>4
    <3>2. Turn(asks, s) /\ Owns(owner, s, Holding(jobs[s].kind, FALSE))
      BY <2>1, <3>1
    <3>3. QED BY <2>3, <3>2, ResultIsGood
  <2>5. CASE Exempt(jobs[s])
    <3>1. s \in Slots /\ jobs[s].step = "none"
      BY <1>7, <1>8, <2>1, <2>3
    <3>2. ~jobs[s].open
      BY <1>4, <2>5, <3>1 DEF OpenExcept, Exempt, OpenKinds
    <3>3. Safe(jobs, owner, asks, signals', busy, window)
      BY <1>9, <2>1, <3>2
    <3>4. QED BY <2>3, <2>5, <3>1, <3>3, ExemptIsGood
  <2>6. QED BY <2>4, <2>5
<1>14. CASE m.to = "finished" /\ OnFinished(asks, jobs)
  <2>1. PICK s : s = m.job
    OBVIOUS
  <2>2. jobs[s].kind \in Simple \cup {"media"} \cup LateKinds
    BY <1>7, <1>14, <2>1
  <2>3. ~Exempt(jobs[s])
    BY <2>2 DEF Exempt, Simple, LateKinds, IsoRoutes
  <2>4. m.to \in Endings /\ (m.to = "prepared") = FALSE
    BY <1>14 DEF Endings
  <2>5. Turn(asks, m.job) /\ Owns(owner, m.job, Holding(jobs[m.job].kind, FALSE))
    BY <1>10, <2>1, <2>3, <2>4
  <2>6. PICK early \in BOOLEAN : early = FALSE
    OBVIOUS
  <2>7. Turn(asks, s) /\ Owns(owner, s, Holding(jobs[s].kind, early))
    BY <2>1, <2>5, <2>6
  <2>8. QED BY <1>14, <2>2, <2>6, <2>7, OnFinishedIsGood
<1>15. CASE m.to = "media_finished" /\ OnMediaFinished(asks)
  <2>1. PICK s : s = m.job
    OBVIOUS
  <2>2. jobs[s].kind = "media"
    BY <1>7, <1>15, <2>1
  <2>3. ~Exempt(jobs[s])
    BY <2>2 DEF Exempt
  <2>4. m.to \in Endings /\ (m.to = "prepared") = FALSE
    BY <1>15 DEF Endings
  <2>5. Turn(asks, m.job) /\ Owns(owner, m.job, Holding(jobs[m.job].kind, FALSE))
    BY <1>10, <2>1, <2>3, <2>4
  <2>6. Turn(asks, s) /\ Owns(owner, s, Holding("media", FALSE))
    BY <2>1, <2>2, <2>5
  <2>7. QED BY <1>15, <2>2, <2>6, MediaFinished
<1>16. CASE m.to = "dbx_requested" /\ OnStagedDbxConfirmationRequested(asks, m.job)
  <2>1. PICK s : s = m.job
    OBVIOUS
  <2>2. m.to \notin Endings
    BY <1>16 DEF Endings
  <2>3. s \in Slots
    BY <1>8, <1>16, <2>1
  <2>4. OnStagedDbxConfirmationRequested(asks, s)
    BY <1>16, <2>1
  <2>5. QED BY <1>9, <2>2, <2>3, <2>4, ReviewRequested
<1>17. CASE m.to = "inspection_finished" /\ OnInspectionFinished(asks, m.outcome)
  <2>1. m.to \notin Endings
    BY <1>17 DEF Endings
  <2>2. Safe(jobs, owner, asks, signals', busy, window)
    BY <1>9, <2>1
  <2>3. asks' = asks /\ window' = window /\ owner' = owner /\ busy' = busy /\ jobs' = jobs
    BY <1>17 DEF OnInspectionFinished
  <2>4. IInv'
    BY <2>2, <2>3 DEF IInv
  <2>5. QED BY <2>3, <2>4 DEF Good, Heard
<1>18. CASE m.to = "inspection_worker_finished" /\ OnInspectionWorkerFinished(asks)
  <2>1. m.to \notin Endings
    BY <1>18 DEF Endings
  <2>2. QED BY <1>9, <1>18, <2>1, InspectionEnded
<1>19. QED BY <1>1, <1>11, <1>12, <1>13, <1>14, <1>15, <1>16, <1>17, <1>18 DEF Dispatch

-----------------------------------------------------------------------------
(* A starter goes on. *)

\* What refers to a job, in the model and here.
LEMMA HeldIsIn ==
  ASSUME NEW s
  PROVE  Held(s) <=> HeldIn(s, owner, asks, signals)
BY DEF Held, HeldIn, ReferredBy

\* There is room for a job, and no other has a claim.
Opening(under) ==
  /\ FreeSlot \in Slots /\ Turn(under, FreeSlot) /\ window # "closed" /\ Live(owner) = {}
  /\ jobs[FreeSlot] = NoJob /\ ~HeldIn(FreeSlot, owner, under, signals') /\ Clear(under)
  /\ Safe(jobs, owner, under, signals', busy, window)

\* A starter goes on after its questions: no operation is active, and there is room.
LEMMA Opens ==
  ASSUME Safe(jobs, owner, <<>>, signals', busy, window), Live(owner) = {}, window # "closed",
         FreeSlot \in Slots, jobs[FreeSlot] = NoJob, ~HeldIn(FreeSlot, owner, <<>>, signals'),
         NEW under, under = <<>>
  PROVE  Opening(under)
<1>1. Safe(jobs, owner, under, signals', busy, window) /\ ~HeldIn(FreeSlot, owner, under, signals')
  BY Zenon
<1>2. Clear(under)
  BY DEF Clear
<1>3. PICK s \in Slots : s = FreeSlot
  OBVIOUS
<1>4. Turn(under, s)
  BY <1>1, <1>2, <1>3, Room
<1>5. QED BY <1>1, <1>2, <1>3, <1>4 DEF Opening

\* An operation of one worker starts.
LEMMA WorkBegins ==
  ASSUME NEW under, Opening(under), NEW kind \in Kinds \ {"overlay", "none"}, NEW field,
         Holding(kind, FALSE) = {field}, Begins(under, kind, field, "work", FALSE)
  PROVE  Good
<1>1. PICK step \in {"prepare", "work"} : step = "work"
  OBVIOUS
<1>2. PICK open \in BOOLEAN : open = FALSE
  OBVIOUS
<1>3. Begins(under, kind, field, step, open) /\ (step = "prepare") = FALSE
  BY <1>1, <1>2
<1>4. QED BY <1>2, <1>3, SimplyBegins DEF Opening

\* A preparation starts, which has something to close.
LEMMA PreparationBegins ==
  ASSUME NEW under, Opening(under), NEW kind \in OpenKinds, kind \in Kinds \ {"overlay", "none"},
         NEW field,
         Holding(kind, TRUE) = {field}, Begins(under, kind, field, "prepare", TRUE)
  PROVE  Good
<1>1. PICK step \in {"prepare", "work"} : step = "prepare"
  OBVIOUS
<1>2. PICK open \in BOOLEAN : open = TRUE
  OBVIOUS
<1>3. Begins(under, kind, field, step, open) /\ (step = "prepare") = TRUE
  BY <1>1, <1>2
<1>4. QED BY <1>2, <1>3, SimplyBegins DEF Opening

\* The operations of one worker, and those that prepare a plan.
LEMMA WorkStarted ==
  ASSUME NEW under, Opening(under),
         \/ SaveDrive(under)
         \/ FormatDrive(under)
         \/ EraseDrive(under)
         \/ TestMedia(under)
         \/ SaveOpticalDisc(under)
         \/ StartIsoExtraction(under)
         \/ StartLinuxDownload(under)
         \/ StartFreeDosDownload(under)
         \/ StartWindowsDownload(under)
  PROVE  Good
<1>1. CASE SaveDrive(under)
  <2>1. Holding("backup", FALSE) = {"imager"} /\ "backup" \in Kinds \ {"overlay", "none"}
    BY DEF Holding, Kinds, Simple, Downloads
  <2>2. QED BY <1>1, <2>1, WorkBegins DEF SaveDrive
<1>2. CASE FormatDrive(under)
  <2>1. Holding("format", FALSE) = {"formatter"} /\ "format" \in Kinds \ {"overlay", "none"}
    BY DEF Holding, Kinds, Simple, Downloads
  <2>2. QED BY <1>2, <2>1, WorkBegins DEF FormatDrive
<1>3. CASE EraseDrive(under)
  <2>1. Holding("erase", FALSE) = {"eraser"} /\ "erase" \in Kinds \ {"overlay", "none"}
    BY DEF Holding, Kinds, Simple, Downloads
  <2>2. QED BY <1>3, <2>1, WorkBegins DEF EraseDrive
<1>4. CASE TestMedia(under)
  <2>1. Holding("media", FALSE) = {"media_runner"} /\ "media" \in Kinds \ {"overlay", "none"}
    BY DEF Holding, Kinds, Simple, Downloads
  <2>2. QED BY <1>4, <2>1, WorkBegins DEF TestMedia
<1>5. CASE SaveOpticalDisc(under)
  <2>1. Holding("optical", FALSE) = {"optical_runner"} /\ "optical" \in Kinds \ {"overlay", "none"}
    BY DEF Holding, Kinds, Simple, Downloads
  <2>2. QED BY <1>5, <2>1, WorkBegins DEF SaveOpticalDisc
<1>6. CASE StartIsoExtraction(under)
  <2>1. Holding("extract", FALSE) = {"extractor"} /\ "extract" \in Kinds \ {"overlay", "none"}
    BY DEF Holding, Kinds, Simple, Downloads
  <2>2. QED BY <1>6, <2>1, WorkBegins DEF StartIsoExtraction
<1>7. CASE StartLinuxDownload(under)
  <2>1. Holding("linux", FALSE) = {"linux_downloader"} /\ "linux" \in Kinds \ {"overlay", "none"}
    BY DEF Holding, Kinds, Simple, Downloads
  <2>2. QED BY <1>7, <2>1, WorkBegins DEF StartLinuxDownload
<1>8. CASE StartFreeDosDownload(under)
  <2>1. Holding("freedos", FALSE) = {"freedos_downloader"}
          /\ "freedos" \in Kinds \ {"overlay", "none"}
    BY DEF Holding, Kinds, Simple, Downloads
  <2>2. QED BY <1>8, <2>1, WorkBegins DEF StartFreeDosDownload
<1>9. CASE StartWindowsDownload(under)
  <2>1. Holding("windows", FALSE) = {"windows_downloader"}
          /\ "windows" \in Kinds \ {"overlay", "none"}
    BY DEF Holding, Kinds, Simple, Downloads
  <2>2. QED BY <1>9, <2>1, WorkBegins DEF StartWindowsDownload
<1>10. QED BY <1>1, <1>2, <1>3, <1>4, <1>5, <1>6, <1>7, <1>8, <1>9

\* The starters of the operations that are prepared.
LEMMA PreparationStarted ==
  ASSUME NEW under, Opening(under),
         \/ StartWrite(under)
         \/ StartFastZero(under)
         \/ StartVerifiedRestore(under)
         \/ StartGrub(under)
         \/ StartUefiShell(under)
  PROVE  Good
<1>1. Shows(under, under) /\ Shows(under, Opened(under, "notice", 0))
  BY DEF Shows, Boxes
<1>2. CASE Dismissed(under) \/ Tells(under)
  <2>1. PICK bs : Shows(under, bs) /\ Dismissed(bs)
    BY <1>1, <1>2 DEF Tells
  <2>2. QED BY <2>1, ResumesIsGood DEF Opening
<1>3. CASE StartWrite(under)
  <2>1. Holding("raw", TRUE) = {"raw_workflow"} /\ "raw" \in Kinds \ {"overlay", "none"}
          /\ "raw" \in OpenKinds
    BY DEF Holding, Kinds, OpenKinds
  <2>2. Tells(under) \/ Begins(under, "raw", "raw_workflow", "prepare", TRUE)
    BY <1>3 DEF StartWrite
  <2>3. QED BY <1>2, <2>1, <2>2, PreparationBegins
<1>4. CASE StartFastZero(under)
  <2>1. Holding("fast_zero", TRUE) = {"fast_zero_workflow"}
          /\ "fast_zero" \in Kinds \ {"overlay", "none"} /\ "fast_zero" \in OpenKinds
    BY DEF Holding, Kinds, OpenKinds
  <2>2. Dismissed(under) \/ Begins(under, "fast_zero", "fast_zero_workflow", "prepare", TRUE)
    BY <1>4 DEF StartFastZero
  <2>3. QED BY <1>2, <2>1, <2>2, PreparationBegins
<1>5. CASE StartVerifiedRestore(under)
  <2>1. Holding("restore", TRUE) = {"restore_workflow"}
          /\ "restore" \in Kinds \ {"overlay", "none"} /\ "restore" \in OpenKinds
    BY DEF Holding, Kinds, OpenKinds
  <2>2. Dismissed(under) \/ Begins(under, "restore", "restore_workflow", "prepare", TRUE)
    BY <1>5 DEF StartVerifiedRestore
  <2>3. QED BY <1>2, <2>1, <2>2, PreparationBegins
<1>6. CASE StartGrub(under)
  <2>1. Holding("grub", TRUE) = {"grub_rescue_workflow"} /\ "grub" \in Kinds \ {"overlay", "none"}
          /\ "grub" \in OpenKinds
    BY DEF Holding, Kinds, OpenKinds
  <2>2. QED BY <1>6, <2>1, PreparationBegins DEF StartGrub
<1>7. CASE StartUefiShell(under)
  <2>1. Holding("shell", TRUE) = {"uefi_shell_preparer"} /\ "shell" \in Kinds \ {"overlay", "none"}
          /\ "shell" \in OpenKinds
    BY DEF Holding, Kinds, OpenKinds
  <2>2. QED BY <1>7, <2>1, PreparationBegins DEF StartUefiShell
<1>8. QED BY <1>3, <1>4, <1>5, <1>6, <1>7

\* The jobs that remember the selected image.
LEMMA IsoStarted ==
  ASSUME NEW under, Opening(under), image \in Nat, NEW overlay \in BOOLEAN,
         StartConstructedIsoWrite(under, overlay)
  PROVE  Good
<1>1. PICK job : job = [NewJob("iso", "prepare", TRUE) EXCEPT !.image = image, !.overlay = overlay]
  OBVIOUS
<1>2. job \in JobRecord /\ job.kind = "iso" /\ job.step = "prepare"
  BY <1>1 DEF NewJob, NoJob, JobRecord, Kinds, OpenKinds, Steps
<1>3. (job.step = "prepare") = TRUE /\ Holding("iso", TRUE) = {"iso_staging_preparer"}
        /\ "iso" \in OpenKinds
  BY <1>2 DEF Holding, OpenKinds
<1>4. BeginsAs(under, {"iso_staging_preparer"}, job)
  BY <1>1 DEF StartConstructedIsoWrite
<1>5. BeginsAs(under, Holding(job.kind, job.step = "prepare"), job)
  BY <1>2, <1>3, <1>4
<1>6. QED BY <1>2, <1>3, <1>5, BeginsIsGood DEF Opening

\* A job about the selected image.
LEMMA OfSelectionTyped ==
  ASSUME image \in Nat, NEW kind \in OfImage
  PROVE  LET job == OfSelection(kind, "work") IN
         job \in JobRecord /\ job.kind = kind /\ job.step = "work" /\ ~job.open /\ ~job.cancelled
BY DEF OfSelection, NewJob, NoJob, JobRecord, Kinds, OfImage, Steps

\* The inspection of the Windows editions starts.
LEMMA EditionsStarted ==
  ASSUME NEW under, Opening(under), image \in Nat, StartWindowsWimInspection(under)
  PROVE  Good
<1>1. CASE Dismissed(under)
  <2>1. Shows(under, under)
    BY DEF Shows
  <2>2. QED BY <1>1, <2>1, ResumesIsGood DEF Opening
<1>2. CASE BeginsAs(under, {"windows_wim_extractor"}, OfSelection("editions", "work"))
  <2>1. PICK job : job = OfSelection("editions", "work")
    OBVIOUS
  <2>2. job \in JobRecord /\ job.kind = "editions" /\ job.step = "work" /\ ~job.open
    BY <2>1, OfSelectionTyped DEF OfImage
  <2>3. (job.step = "prepare") = FALSE /\ Holding("editions", FALSE) = {"windows_wim_extractor"}
    BY <2>2 DEF Holding
  <2>4. BeginsAs(under, Holding(job.kind, job.step = "prepare"), job)
    BY <1>2, <2>1, <2>2, <2>3
  <2>5. QED BY <2>2, <2>4, BeginsIsGood DEF Opening
<1>3. QED BY <1>1, <1>2 DEF StartWindowsWimInspection

\* A new planner takes the place of one that is cancelled.
LEMMA OverlayStarted ==
  ASSUME NEW under, Opening(under), image \in Nat, StartZipOverlay(under)
  PROVE  Good
<1>1. PICK s \in Slots : s = FreeSlot
  BY DEF Opening
<1>2. PICK slots : slots = ReferredBy(owner, {"zip_overlay_preparer"})
  OBVIOUS
<1>3. PICK js : js = Cancelled(jobs, slots)
  OBVIOUS
<1>4. PICK job : job = OfSelection("overlay", "work")
  OBVIOUS
<1>5. job \in JobRecord /\ job.kind = "overlay" /\ job.step = "work" /\ ~job.open
  BY <1>4, OfSelectionTyped DEF OfImage
<1>6. /\ owner' = With(owner, {"zip_overlay_preparer"}, s) /\ asks' = under /\ busy' = busy
      /\ window' = window /\ jobs' = [Tidied(js) EXCEPT ![s] = job]
  BY <1>1, <1>2, <1>3, <1>4 DEF StartZipOverlay
<1>7. /\ Safe(jobs, owner, under, signals', busy, window) /\ window # "closed" /\ Live(owner) = {}
      /\ jobs[s] = NoJob /\ ~HeldIn(s, owner, under, signals') /\ Clear(under)
  BY <1>1 DEF Opening
<1>8. jobs \in [Slots -> JobRecord] /\ under \in Seq(AskRecord) /\ busy \in BOOLEAN
  BY <1>7 DEF Safe, Most, Typed
<1>9. PICK forgotten \in SUBSET {"zip_overlay_preparer", "checksum_preparer"} :
        forgotten = {"zip_overlay_preparer"}
  OBVIOUS
<1>10. PICK refs : refs = Without(owner, forgotten)
  OBVIOUS
<1>11. Keeps(owner, forgotten, refs) /\ SameDialogs(under, under)
  BY <1>8, <1>10, UnchangedDialogs DEF Keeps, Without
<1>12. Live(refs) = {} /\ "zip_overlay_preparer" \notin DOMAIN refs
  BY <1>7, <1>9, <1>11 DEF Keeps, Live
<1>13. Marks(jobs, js, slots) /\ js \in [Slots -> JobRecord]
  BY <1>3, <1>8, CancelledMarks DEF Marks
<1>14. slots \subseteq {owner[f] : f \in DOMAIN owner}
  BY <1>2 DEF ReferredBy
<1>15. \A f \in forgotten \cap DOMAIN owner : owner[f] \in slots
  BY <1>2, <1>9 DEF ReferredBy
<1>16. PICK with \in BOOLEAN : with = busy
  BY <1>8
<1>17. Safe(js, refs, under, signals', with, window)
  BY <1>7, <1>11, <1>12, <1>13, <1>14, <1>15, <1>16, CancelIsSafe
<1>18. s \notin slots
  BY <1>7, <1>14 DEF HeldIn
<1>19. js[s] = NoJob
  BY <1>7, <1>13, <1>18 DEF Marks
<1>20. ~HeldIn(s, refs, under, signals')
  BY <1>7, <1>11 DEF HeldIn, Keeps
<1>21. PICK after : after = With(refs, {"zip_overlay_preparer"}, s)
  OBVIOUS
<1>22. after = owner'
  BY <1>6, <1>9, <1>10, <1>21 DEF With, Without
<1>23. PICK ks : ks = [js EXCEPT ![s] = job]
  OBVIOUS
<1>24. ks \in [Slots -> JobRecord] /\ ks[s] = job /\ \A t \in Slots \ {s} : ks[t] = js[t]
  BY <1>5, <1>13, <1>23
<1>25. ks[s].kind = "overlay" /\ ks[s].step = "work" /\ ~ks[s].open
  BY <1>5, <1>24
<1>26. Safe(ks, after, under, signals', with, window)
  BY <1>7, <1>12, <1>17, <1>19, <1>20, <1>21, <1>24, <1>25, OverlayIsSafe
<1>27. jobs' = Tidied(ks)
  BY <1>5, <1>6, <1>13, <1>23, BegunIsTidied
<1>28. Safe(ks, owner', asks', signals', busy', window')
  BY <1>6, <1>16, <1>22, <1>26
<1>29. Heard(jobs, ks)
  <2>1. \A t \in Slots \ {s} : ks[t].step = jobs[t].step
    BY <1>13, <1>24 DEF Marks
  <2>2. QED BY <1>25, <2>1 DEF Heard, Destructive
<1>30. QED BY <1>27, <1>28, <1>29, Settles

\* Every starter.
LEMMA StartedIsGood ==
  ASSUME NEW under, Opening(under), image \in Nat, NEW name, Starts(name, under)
  PROVE  Good
<1>1. CASE \/ StartWrite(under) \/ StartGrub(under) \/ StartUefiShell(under)
           \/ StartVerifiedRestore(under) \/ StartFastZero(under)
  BY <1>1, PreparationStarted
<1>2. CASE \/ SaveDrive(under) \/ FormatDrive(under) \/ EraseDrive(under) \/ TestMedia(under)
           \/ SaveOpticalDisc(under) \/ StartIsoExtraction(under)
           \/ StartLinuxDownload(under) \/ StartFreeDosDownload(under)
                \/ StartWindowsDownload(under)
  BY <1>2, WorkStarted
<1>3. CASE StartWindowsWimInspection(under)
  BY <1>3, EditionsStarted
<1>4. CASE StartZipOverlay(under)
  BY <1>4, OverlayStarted
<1>5. CASE StartConstructedIsoWrite(under, FALSE) \/ StartConstructedIsoWrite(under, TRUE)
  <2>1. PICK overlay \in BOOLEAN : StartConstructedIsoWrite(under, overlay)
    BY <1>5
  <2>2. QED BY <2>1, IsoStarted
<1>6. QED BY <1>1, <1>2, <1>3, <1>4, <1>5 DEF Starts, AnswerDriveTools

-----------------------------------------------------------------------------
(* The user answers. *)

\* The innermost dialog is a starter's: it is the only one.
LEMMA StarterTaken ==
  ASSUME IInv, asks # <<>>, signals' = signals, Last(asks).ask \in Starters, window # "closed"
  PROVE  Opening(Front(asks))
<1>1. Safe(jobs, owner, asks, signals, busy, window)
  BY DEF IInv
<1>2. Starting(jobs, owner, asks, signals) /\ asks \in Seq(AskRecord)
  BY <1>1 DEF Safe, Most, Typed
<1>3. /\ Len(asks) \in DOMAIN asks /\ Last(asks) = asks[Len(asks)]
      /\ Front(asks) \in Seq(AskRecord) /\ DOMAIN Front(asks) = DOMAIN asks \ {Len(asks)}
  BY <1>2, Popped
<1>4. /\ Len(asks) = 1 /\ Live(owner) = {}
      /\ \E s \in Slots : jobs[s] = NoJob /\ ~HeldIn(s, owner, asks, signals)
  BY <1>2, <1>3 DEF Starting
<1>5. PICK under \in Seq(AskRecord) : under = Front(asks)
  BY <1>3
<1>6. under = <<>>
  <2>1. DOMAIN asks = {1}
    <3>1. DOMAIN asks = 1..Len(asks)
      BY <1>2, LenProperties
    <3>2. 1..1 = {1}
      OBVIOUS
    <3>3. QED BY <1>4, <3>1, <3>2
  <2>2. DOMAIN under = {}
    <3>1. DOMAIN under = DOMAIN asks \ {Len(asks)}
      BY <1>3, <1>5, Zenon
    <3>2. QED BY <1>4, <2>1, <3>1
  <2>3. DOMAIN under = 1..Len(under) /\ Len(under) \in Nat
    BY LenProperties
  <2>4. Len(under) = 0
    BY <2>2, <2>3
  <2>5. QED BY <2>4, EmptySeq
<1>7. FreeSlots # {}
  BY <1>4, HeldIsIn DEF FreeSlots
<1>8. FreeSlot \in Slots /\ jobs[FreeSlot] = NoJob /\ ~HeldIn(FreeSlot, owner, asks, signals)
  BY <1>7, FreeSlotIsFree, HeldIsIn
<1>9. Last(asks).ask \notin Questions
  BY DEF Questions, RefQuestions, FreeQuestions, Starters
<1>10. Safe(jobs, owner, <<>>, signals', busy, window)
  BY <1>1, <1>5, <1>6, <1>9, BoxTaken
<1>11. ~HeldIn(FreeSlot, owner, <<>>, signals')
  BY <1>8 DEF HeldIn
<1>12. Opening(under)
  BY <1>4, <1>6, <1>8, <1>10, <1>11, Opens
<1>13. QED BY <1>5, <1>12

\* A handler goes on after the question of its job.
LEMMA GoesOnIsGood ==
  ASSUME IInv, signals' = signals, NEW under, NEW s, Turn(under, s), NEW ask, ask # "dbx",
         ask \in RefQuestions => jobs[s].kind = ask /\ Owns(owner, s, Holding(ask, FALSE)),
         ask \in FreeQuestions => Live(owner) = {},
         ask = "shell" => jobs[s].kind = "shell" /\ ~jobs[s].cancelled,
         ask = "iso_write" => jobs[s].kind \in IsoRoutes,
         NEW yes \in BOOLEAN, yes => window = "open", GoesOn(ask, under, s, yes)
  PROVE  Good
<1> USE DEF RefQuestions, FreeQuestions
<1>1. CASE ask = "raw" /\ ConfirmRawWritePlan(under, s, yes)
  <2>1. Holding("raw", FALSE) = {"raw_workflow"}
    BY DEF Holding
  <2>2. QED BY <1>1, <2>1, ConfirmedIsGood DEF ConfirmRawWritePlan
<1>2. CASE ask = "fast_zero" /\ ConfirmFastZeroPlan(under, s, yes)
  <2>1. Holding("fast_zero", FALSE) = {"fast_zero_workflow"}
    BY DEF Holding
  <2>2. QED BY <1>2, <2>1, ConfirmedIsGood DEF ConfirmFastZeroPlan
<1>3. CASE ask = "restore" /\ ConfirmRestorePlan(under, s, yes)
  <2>1. Holding("restore", FALSE) = {"restore_workflow"}
    BY DEF Holding
  <2>2. QED BY <1>3, <2>1, ConfirmedIsGood DEF ConfirmRestorePlan
<1>4. CASE ask = "grub" /\ ConfirmAndWriteGrubRescue(under, s, yes)
  BY <1>4, GrubAnswered
<1>5. CASE ask = "shell" /\ ConfirmAndWriteUefiShell(under, s, yes)
  BY <1>5, ShellAnswered
<1>6. CASE ask = "uefi_helper" /\ AnswerUefiHelper(under, s, yes)
  BY <1>6, HelperAnswered
<1>7. CASE ask = "iso_write" /\ ConfirmAndStartIsoWrite(under, s, yes)
  BY <1>7, IsoAnswered
<1>8. CASE ask = "syslinux" /\ PromptSyslinuxConfirmation(under, s, yes)
  BY <1>8, SyslinuxAnswered
<1>9. CASE ask = "dual" /\ PromptWindowsDualConfirmation(under, s, yes)
  BY <1>9, DualAnswered
<1>10. QED BY <1>1, <1>2, <1>3, <1>4, <1>5, <1>6, <1>7, <1>8, <1>9 DEF GoesOn

\* A review is answered: the dialog has kept the job.
LEMMA ReviewAnswered ==
  ASSUME IInv, asks # <<>>, signals' = signals, Last(asks).ask = "dbx", NEW yes \in BOOLEAN,
         AnswerDbx(Front(asks), Last(asks).job, yes)
  PROVE  Good
<1>1. Safe(jobs, owner, asks, signals, busy, window)
  BY DEF IInv
<1>2. asks \in Seq(AskRecord) /\ signals \in Seq(SignalRecord)
  BY <1>1 DEF Safe, Most, Typed
<1>3. PICK i \in DOMAIN asks : asks[i] = Last(asks)
  BY <1>2, Popped
<1>4. PICK s : s = asks[i].job
  OBVIOUS
<1>5. s \in Slots
  BY <1>2, <1>3, <1>4, Entries
<1>6. HeldIn(s, owner, asks, signals)
  BY <1>4 DEF HeldIn
<1>7. PICK review \in Reviews : review = IF yes /\ ~jobs[s].cancelled THEN "accepted"
             ELSE "declined"
  BY DEF Reviews
<1>8. PICK ks : ks = Changed(jobs, {s}, "review", review)
  OBVIOUS
<1>9. Safe(ks, owner, asks, signals, busy, window) /\ Heard(jobs, ks)
  BY <1>1, <1>5, <1>6, <1>8, ReviewIsSafe
<1>10. Last(asks).ask \notin Questions
  BY DEF Questions, RefQuestions, FreeQuestions
<1>11. Safe(ks, owner, Front(asks), signals, busy, window)
  BY <1>9, <1>10, BoxTaken
<1>12. /\ asks' = Front(asks) /\ owner' = owner /\ busy' = busy /\ window' = window
       /\ jobs' = Tidied(ks)
  BY <1>3, <1>4, <1>7, <1>8 DEF AnswerDbx
<1>13. Safe(ks, owner', asks', signals', busy', window')
  BY <1>11, <1>12
<1>14. QED BY <1>9, <1>12, <1>13, Settles

\* The user answers the innermost dialog.
LEMMA AnswerIsGood ==
  ASSUME IInv, image \in Nat, Answer
  PROVE  Good
<1>1. PICK a : a = Last(asks)
  OBVIOUS
<1>2. PICK under : under = Front(asks)
  OBVIOUS
<1>3. asks # <<>> /\ signals' = signals
  BY DEF Answer
<1>4. PICK yes \in BOOLEAN :
        /\ yes => window = "open" /\ ~a.no
        /\ \/ a.ask \in Starters /\ yes /\ Starts(a.ask, under)
           \/ a.ask \in Starters \cup {"notice"} /\ ~yes /\ Dismissed(under)
           \/ GoesOn(a.ask, under, a.job, yes)
           \/ a.ask = "downloaded" /\ AnswerDownloaded(under)
           \/ a.ask = "image" /\ AnswerImage(under, yes)
           \/ a.ask \in {"close", "close_inspecting"} /\ AnswerClose(a, under, yes)
  BY <1>1, <1>2 DEF Answer
<1>5. ASSUME a.ask \notin Questions
      PROVE  Safe(jobs, owner, under, signals', busy, window)
  BY <1>1, <1>2, <1>3, <1>5, BoxTaken DEF IInv
<1>6. Shows(under, under)
  BY DEF Shows
<1>7. CASE a.ask \in Starters /\ yes /\ Starts(a.ask, under)
  <2>1. Opening(under)
    BY <1>1, <1>2, <1>3, <1>4, <1>7, StarterTaken
  <2>2. PICK name : name = a.ask
    OBVIOUS
  <2>3. QED BY <1>7, <2>1, <2>2, StartedIsGood
<1>8. CASE a.ask \in Starters \cup {"notice"} /\ ~yes /\ Dismissed(under)
  <2>1. a.ask \notin Questions
    BY <1>8 DEF Questions, RefQuestions, FreeQuestions, Starters
  <2>2. QED BY <1>5, <1>6, <1>8, <2>1, ResumesIsGood
<1>9. CASE GoesOn(a.ask, under, a.job, yes)
  <2>1. CASE a.ask = "dbx"
    <3>1. AnswerDbx(Front(asks), Last(asks).job, yes)
      BY <1>1, <1>2, <1>9, <2>1 DEF GoesOn
    <3>2. QED BY <1>1, <1>3, <2>1, <3>1, ReviewAnswered
  <2>2. CASE a.ask # "dbx"
    <3>1. PICK ask : ask = a.ask
      OBVIOUS
    <3>2. PICK s : s = a.job
      OBVIOUS
    <3>3. GoesOn(ask, under, s, yes)
      BY <1>9, <3>1, <3>2
    <3>4. ask \in Questions
      BY <2>2, <3>1, <3>3 DEF GoesOn, Questions, RefQuestions, FreeQuestions
    <3>5. Last(asks).ask \in Questions
      BY <1>1, <3>1, <3>4
    <3>6. /\ Turn(under, s)
          /\ ask \in RefQuestions => jobs[s].kind = ask /\ Owns(owner, s, Holding(ask, FALSE))
          /\ ask \in FreeQuestions => Live(owner) = {}
          /\ ask = "shell" => jobs[s].kind = "shell" /\ ~jobs[s].cancelled
          /\ ask = "iso_write" => jobs[s].kind \in IsoRoutes
      BY <1>1, <1>2, <1>3, <3>1, <3>2, <3>5, Question
    <3>7. yes => window = "open"
      BY <1>4
    <3>8. QED BY <1>3, <2>2, <3>1, <3>3, <3>6, <3>7, GoesOnIsGood
  <2>3. QED BY <2>1, <2>2
<1>10. CASE a.ask = "downloaded" /\ AnswerDownloaded(under)
  <2>1. a.ask \notin Questions
    BY <1>10 DEF Questions, RefQuestions, FreeQuestions
  <2>2. LoadImage(under, owner, jobs, busy) \/ Dismissed(under)
    BY <1>10 DEF AnswerDownloaded
  <2>3. QED BY <1>5, <1>6, <2>1, <2>2, LoadIsGood, ResumesIsGood
<1>11. CASE a.ask = "image" /\ AnswerImage(under, yes)
  <2>1. a.ask \notin Questions
    BY <1>11 DEF Questions, RefQuestions, FreeQuestions
  <2>2. LoadImage(under, owner, jobs, busy) \/ Dismissed(under)
    BY <1>11 DEF AnswerImage
  <2>3. QED BY <1>5, <1>6, <2>1, <2>2, LoadIsGood, ResumesIsGood
<1>12. CASE a.ask \in {"close", "close_inspecting"} /\ AnswerClose(a, under, yes)
  <2>1. a.ask \notin Questions
    BY <1>12 DEF Questions, RefQuestions, FreeQuestions
  <2>2. PICK later : later = (\/ inspection.closeAfter
                              \/ a.ask = "close_inspecting" /\ ~OperationActive(owner))
    OBVIOUS
  <2>3. Cancels(under, later) \/ Dismissed(under)
    BY <1>12, <2>2 DEF AnswerClose
  <2>4. QED BY <1>5, <1>6, <2>1, <2>3, CancelsIsGood, ResumesIsGood
<1>13. QED BY <1>4, <1>7, <1>8, <1>9, <1>10, <1>11, <1>12

-----------------------------------------------------------------------------
(* The user at the window, and the workers. *)

\* A starter asks its questions.
LEMMA StarterAsks ==
  ASSUME IInv, NEW name \in Starters, NEW ready, Asks(name, ready)
  PROVE  Good
<1>1. /\ asks = <<>> /\ ~OperationActive(owner) /\ FreeSlots # {} /\ asks' = Opened(asks, name, 0)
      /\ signals' = signals /\ owner' = owner /\ jobs' = jobs /\ busy' = busy /\ window' = window
  BY DEF Asks
<1>2. Safe(jobs, owner, asks, signals, busy, window) /\ Attributes(owner, busy)
  BY DEF IInv, Safe, Most
<1>3. Live(owner) = {}
  BY <1>1, <1>2 DEF Attributes, OperationActive, Live
<1>4. PICK s \in Slots : jobs[s] = NoJob /\ ~HeldIn(s, owner, asks, signals)
  BY <1>1, FreeSlotIsFree, HeldIsIn
<1>5. Safe(jobs, owner, <<>>, signals, busy, window) /\ ~HeldIn(s, owner, <<>>, signals)
  BY <1>1, <1>2, <1>4
<1>6. Safe(jobs, owner, Opened(<<>>, name, 0), signals, busy, window)
  BY <1>3, <1>4, <1>5, StarterIsSafe
<1>7. asks' = Opened(<<>>, name, 0)
  BY <1>1
<1>8. IInv'
  BY <1>1, <1>6, <1>7 DEF IInv
<1>9. QED BY <1>1, <1>8 DEF Good, Heard

\* A checksum starts without a question.
LEMMA ChecksumsStarted ==
  ASSUME IInv, CalculateImageChecksums
  PROVE  Good
<1>1. /\ asks = <<>> /\ ~OperationActive(owner) /\ FreeSlots # {} /\ signals' = signals
      /\ window = "open" /\ Begins(asks, "checksums", "checksum_preparer", "work", FALSE)
  BY DEF CalculateImageChecksums
<1>2. Safe(jobs, owner, asks, signals, busy, window) /\ Attributes(owner, busy)
  BY DEF IInv, Safe, Most
<1>3. Live(owner) = {}
  BY <1>1, <1>2 DEF Attributes, OperationActive, Live
<1>4. FreeSlot \in Slots /\ jobs[FreeSlot] = NoJob /\ ~HeldIn(FreeSlot, owner, asks, signals)
  BY <1>1, FreeSlotIsFree, HeldIsIn
<1>5. Safe(jobs, owner, <<>>, signals', busy, window) /\ ~HeldIn(FreeSlot, owner, <<>>, signals')
  BY <1>1, <1>2, <1>4
<1>6. PICK under : under = asks
  OBVIOUS
<1>7. Opening(under)
  <2>1. under = <<>> /\ window # "closed"
    BY <1>1, <1>6
  <2>2. QED BY <1>3, <1>4, <1>5, <2>1, Opens
<1>8. Holding("checksums", FALSE) = {"checksum_preparer"}
        /\ "checksums" \in Kinds \ {"overlay", "none"}
  BY DEF Holding, Kinds, OfImage
<1>9. Begins(under, "checksums", "checksum_preparer", "work", FALSE)
  BY <1>1, <1>6
<1>10. QED BY <1>7, <1>8, <1>9, WorkBegins

\* The user uses a control of the window.
LEMMA UserIsGood ==
  ASSUME IInv, User
  PROVE  Good
<1>1. Safe(jobs, owner, asks, signals, busy, window)
  BY DEF IInv
<1>2. PICK under : under = asks
  OBVIOUS
<1>3. ASSUME signals' = signals PROVE Safe(jobs, owner, under, signals', busy, window)
  BY <1>1, <1>2, <1>3
<1>4. CASE \E name \in Starters : \E ready : Asks(name, ready)
  BY <1>4, StarterAsks
<1>5. CASE CalculateImageChecksums
  BY <1>5, ChecksumsStarted
<1>6. CASE ClearZipOverlay
  <2>1. signals' = signals
    BY <1>6 DEF ClearZipOverlay
  <2>2. Safe(jobs, owner, asks, signals', busy, window)
    BY <1>1, <2>1
  <2>3. QED BY <1>6, <2>2, ClearIsGood
<1>7. CASE ChooseImage
  <2>1. /\ asks' = Opened(asks, "image", 0) /\ signals' = signals /\ owner' = owner /\ jobs' = jobs
        /\ busy' = busy /\ window' = window
    BY <1>7 DEF ChooseImage
  <2>2. PICK bs : bs = asks'
    OBVIOUS
  <2>3. Shows(asks, bs)
    BY <2>1, <2>2 DEF Shows, Boxes
  <2>4. Safe(jobs, owner, bs, signals, busy, window)
    BY <1>1, <2>3, ShowIsSafe
  <2>5. IInv'
    BY <2>1, <2>2, <2>4 DEF IInv
  <2>6. QED BY <2>1, <2>5 DEF Good, Heard
<1>8. CASE DropEvent
  <2>1. signals' = signals /\ LoadImage(under, owner, jobs, busy)
    BY <1>2, <1>8 DEF DropEvent
  <2>2. QED BY <1>3, <2>1, LoadIsGood
<1>9. CASE CancelPressed
  <2>1. PICK later : later = inspection.closeAfter
    OBVIOUS
  <2>2. signals' = signals /\ Cancels(under, later)
    BY <1>2, <1>9, <2>1 DEF CancelPressed
  <2>3. QED BY <1>3, <2>2, CancelsIsGood
<1>10. CASE CloseRequested
  <2>1. PICK insp : insp = inspection
    OBVIOUS
  <2>2. signals' = signals /\ CloseEvent(under, insp)
    BY <1>2, <1>10, <2>1 DEF CloseRequested
  <2>3. QED BY <1>3, <2>2, CloseIsGood
<1>11. CASE \/ ConfirmWrite \/ ShowDriveTools \/ CreateGrubRescueMedia \/ CreateUefiShellMedia
            \/ OpticalDisc \/ Extraction
            \/ DownloadLinuxImage \/ DownloadFreeDosImage \/ DownloadWindowsImage
            \/ ChooseWindowsOptions \/ ChooseZipOverlay \/ PreviewIsoPlan
  BY <1>4, <1>11 DEF ConfirmWrite, ShowDriveTools, CreateGrubRescueMedia, CreateUefiShellMedia,
    OpticalDisc, Extraction, DownloadLinuxImage, DownloadFreeDosImage, DownloadWindowsImage,
    ChooseWindowsOptions, ChooseZipOverlay, PreviewIsoPlan, Starters
<1>12. QED BY <1>5, <1>6, <1>7, <1>8, <1>9, <1>10, <1>11 DEF User

\* A worker takes its next step.
LEMMA SteppedIsSafe ==
  ASSUME NEW js, NEW refs, NEW as, NEW sg, NEW by, NEW win, Safe(js, refs, as, sg, by, win),
         NEW s \in Slots, NEW step \in {"execute", "review", "write"},
         js[s].step \in {"confirm", "stage", "review"}, step # "execute" => js[s].step \in Late,
         ~js[s].cancelled, NEW ks, ks = Stepped(js, s, step)
  PROVE  Safe(ks, refs, as, sg, by, win) /\ Heard(js, ks) /\ Reworked(js, ks, s)
<1>1. js \in [Slots -> JobRecord] /\ \A t \in Slots : js[t].step \in Late
        => js[t].kind \in LateKinds
  BY DEF Safe, Most, Typed
<1>2. step \in Steps
  BY DEF Steps, Late
<1>3. /\ ks \in [Slots -> JobRecord] /\ \A t \in Slots \ {s} : ks[t] = js[t]
      /\ ks[s].step = step /\ ks[s].kind = js[s].kind /\ ks[s].open = js[s].open
      /\ ks[s].cancelled = js[s].cancelled
  BY <1>1, <1>2, SteppedJobs
<1>4. Reworked(js, ks, s)
  BY <1>3 DEF Reworked
<1>5. js[s] # NoJob
  BY NoJobTyped
<1>6. {ks[s].step, js[s].step} \cap {"none", "prepare"} = {}
  BY <1>3
<1>7. ks[s].step \in Late => ks[s].kind \in LateKinds
  BY <1>1, <1>3 DEF Late
<1>8. Safe(ks, refs, as, sg, by, win)
  BY <1>4, <1>5, <1>6, <1>7, StepIsSafe
<1>9. Heard(js, ks)
  BY <1>3 DEF Heard
<1>10. QED BY <1>4, <1>8, <1>9

\* The staged tree is assessed: the worker writes, or asks for a review and waits.
LEMMA StagedIsGood ==
  ASSUME IInv, NEW s \in Slots, CheckFinalStagedDbx(s)
  PROVE  Good
<1>1. Safe(jobs, owner, asks, signals, busy, window)
  BY DEF IInv
<1>2. /\ jobs[s].step = "stage" /\ ~jobs[s].cancelled
      /\ asks' = asks /\ owner' = owner /\ busy' = busy /\ window' = window
  BY DEF CheckFinalStagedDbx
<1>3. jobs[s].step \in Late
  BY <1>2 DEF Late
<1>4. CASE jobs' = Stepped(jobs, s, "write") /\ signals' = signals
  <2>1. PICK step \in {"execute", "review", "write"} : step = "write"
    OBVIOUS
  <2>2. PICK ks : ks = Stepped(jobs, s, step)
    OBVIOUS
  <2>3. Safe(ks, owner, asks, signals, busy, window) /\ Heard(jobs, ks)
    BY <1>1, <1>2, <1>3, <2>2, SteppedIsSafe
  <2>4. jobs' = ks
    BY <1>4, <2>1, <2>2
  <2>5. IInv'
    BY <1>2, <1>4, <2>3, <2>4 DEF IInv
  <2>6. QED BY <2>3, <2>4, <2>5 DEF Good
<1>5. CASE /\ jobs' = Changed(Stepped(jobs, s, "review"), {s}, "review", "asked")
           /\ signals' = Append(signals, Signal("dbx_requested", s, "ok"))
  <2>1. PICK step \in {"execute", "review", "write"} : step = "review"
    OBVIOUS
  <2>2. PICK ks : ks = Stepped(jobs, s, step)
    OBVIOUS
  <2>3. Safe(ks, owner, asks, signals, busy, window) /\ Heard(jobs, ks)
    BY <1>1, <1>2, <1>3, <2>2, SteppedIsSafe
  <2>4. ks[s].step = "review"
    <3>1. jobs \in [Slots -> JobRecord] /\ step \in Steps
      BY <1>1, <2>1 DEF Safe, Most, Typed, Steps, Late
    <3>2. QED BY <2>1, <2>2, <3>1, SteppedJobs
  <2>5. ks[s] # NoJob
    BY <2>4 DEF NoJob
  <2>6. PICK review \in Reviews : review = "asked"
    BY DEF Reviews
  <2>7. PICK ls : ls = Changed(ks, {s}, "review", review)
    OBVIOUS
  <2>8. Safe(ls, owner, asks, signals, busy, window) /\ Heard(ks, ls)
    BY <2>3, <2>5, <2>7, ReviewIsSafe
  <2>9. jobs' = ls
    BY <1>5, <2>1, <2>2, <2>6, <2>7
  <2>10. ks \in [Slots -> JobRecord]
    BY <2>3 DEF Safe, Most, Typed
  <2>11. ls[s] # NoJob /\ \A t \in Slots : ls[t].step = ks[t].step
    <3>1. Reworked(ks, ls, s) /\ ls[s].step = ks[s].step
      BY <2>7, <2>10, ChangedJobs
    <3>2. QED BY <2>4, <3>1 DEF Reworked, NoJob
  <2>12. Heard(jobs, ls)
    BY <2>3, <2>11 DEF Heard
  <2>13. PICK m : m = Signal("dbx_requested", s, "ok")
    OBVIOUS
  <2>14. m \in SignalRecord /\ m.to \notin Endings /\ m.job = s
    BY <2>13 DEF Signal, SignalRecord, Endings
  <2>15. Safe(ls, owner, asks, Append(signals, m), busy, window)
    BY <2>8, <2>11, <2>14, NewsIsSafe
  <2>16. IInv'
    BY <1>2, <1>5, <2>9, <2>13, <2>15 DEF IInv
  <2>17. QED BY <2>9, <2>12, <2>16 DEF Good
<1>6. QED BY <1>4, <1>5 DEF CheckFinalStagedDbx

\* What a worker reports when it ends.
LEMMA ReportsClaim ==
  ASSUME NEW job \in JobRecord, job.step # "none", job.step \in Late => job.kind \in LateKinds,
         NEW outcome, NEW to, to = Reports(job, outcome)
  PROVE  /\ to \in Endings
         /\ Holding(job.kind, to = "prepared") = Holding(job.kind, job.step = "prepare")
         /\ to = "finished" => job.kind \in Simple \cup {"media"} \cup LateKinds
         /\ to = "media_finished" => job.kind = "media"
<1>1. \/ job.kind \in Downloads \cup OfImage /\ to = "result"
      \/ (job.kind \in Simple \/ job.step \in Late) /\ to = "finished"
      \/ job.kind = "media" /\ to \in {"media_finished", "finished"}
      \/ job.step = "prepare" /\ to = "prepared"
      \/ job.step # "prepare" /\ to = "executed"
  BY DEF Reports, Late
<1>2. CASE job.kind \in Downloads \cup OfImage /\ to = "result"
  <2>1. Holding(job.kind, TRUE) = Holding(job.kind, FALSE)
    BY <1>2 DEF Holding, Downloads, OfImage
  <2>2. QED BY <1>2, <2>1 DEF Endings
<1>3. CASE (job.kind \in Simple \/ job.step \in Late) /\ to = "finished"
  <2>1. job.kind \in Simple => Holding(job.kind, TRUE) = Holding(job.kind, FALSE)
    BY DEF Holding, Simple
  <2>2. job.step \in Late => job.step # "prepare"
    BY DEF Late
  <2>3. QED BY <1>3, <2>1, <2>2 DEF Endings
<1>4. CASE job.kind = "media" /\ to \in {"media_finished", "finished"}
  <2>1. Holding(job.kind, TRUE) = Holding(job.kind, FALSE)
    BY <1>4 DEF Holding
  <2>2. QED BY <1>4, <2>1 DEF Endings
<1>5. CASE job.step = "prepare" /\ to = "prepared"
  BY <1>5 DEF Endings
<1>6. CASE job.step # "prepare" /\ to = "executed"
  BY <1>6 DEF Endings
<1>7. QED BY <1>1, <1>2, <1>3, <1>4, <1>5, <1>6

\* A worker ends: its claim goes to the signal it queues.
LEMMA EndedIsGood ==
  ASSUME IInv, NEW s \in Slots, NEW outcome \in {"ok", "failed", "cancelled"},
         WorkerEnds(s, outcome)
  PROVE  Good
<1>1. Safe(jobs, owner, asks, signals, busy, window)
  BY DEF IInv
<1>2. jobs \in [Slots -> JobRecord] /\ \A t \in Slots : jobs[t].step \in Late
        => jobs[t].kind \in LateKinds
  BY <1>1 DEF Safe, Most, Typed
<1>3. PICK job \in JobRecord : job = jobs[s]
  BY <1>2
<1>4. PICK to : to = Reports(job, outcome)
  OBVIOUS
<1>5. PICK m : m = Signal(to, s, IF to = "finished" THEN "ok" ELSE outcome)
  OBVIOUS
<1>6. PICK open \in BOOLEAN :
        open = (job.open /\ ~(job.kind \in IsoRoutes /\ job.step \in {"stage", "review", "write"}))
  OBVIOUS
<1>7. PICK review \in Reviews : review = IF job.review = "asked" THEN "stale" ELSE job.review
  BY DEF JobRecord, Reviews
<1>8. PICK ended : ended = [job EXCEPT !.step = "none", !.open = open, !.review = review]
  OBVIOUS
<1>9. /\ job.step # "none" /\ signals' = Append(signals, m)
      /\ asks' = asks /\ owner' = owner /\ busy' = busy /\ window' = window
  BY <1>3, <1>4, <1>5 DEF WorkerEnds
<1>10. jobs' = [jobs EXCEPT ![s] = ended]
  BY <1>2, <1>3, <1>6, <1>7, <1>8 DEF WorkerEnds
<1>11. /\ ended \in JobRecord /\ ended.step = "none" /\ ended.kind = job.kind
       /\ ended.cancelled = job.cancelled /\ (ended.open => job.open)
  BY <1>6, <1>8 DEF JobRecord, Reviews, Steps
<1>12. PICK ks : ks = jobs'
  OBVIOUS
<1>13. ks \in [Slots -> JobRecord] /\ ks[s] = ended /\ \A t \in Slots \ {s} : ks[t] = jobs[t]
  BY <1>2, <1>10, <1>11, <1>12
<1>14. /\ to \in Endings /\ Holding(job.kind, to = "prepared") =
            Holding(job.kind, job.step = "prepare")
       /\ to = "finished" => job.kind \in Simple \cup {"media"} \cup LateKinds
       /\ to = "media_finished" => job.kind = "media"
  BY <1>2, <1>3, <1>4, <1>9, ReportsClaim
<1>15. m \in SignalRecord /\ m.to = to /\ m.job = s
  BY <1>5, <1>14 DEF Signal, SignalRecord
<1>16. Safe(ks, owner, asks, Append(signals, m), busy, window)
  <2>1. /\ ks[s].kind = jobs[s].kind /\ ks[s].cancelled = jobs[s].cancelled
        /\ ks[s].open => jobs[s].open
        /\ ks[s].step = "none" /\ jobs[s].step # "none"
    BY <1>3, <1>9, <1>11, <1>13
  <2>2. /\ Holding(jobs[s].kind, m.to = "prepared") =
             Holding(jobs[s].kind, jobs[s].step = "prepare")
        /\ m.to = "finished" => jobs[s].kind \in Simple \cup {"media"} \cup LateKinds
        /\ m.to = "media_finished" => jobs[s].kind = "media"
        /\ m.to \in Endings
    BY <1>3, <1>14, <1>15
  <2>3. ks \in [Slots -> JobRecord] /\ \A t \in Slots \ {s} : ks[t] = jobs[t]
    BY <1>13
  <2>4. m \in SignalRecord /\ m.job = s
    BY <1>15
  <2>5. QED
    BY <1>1, <2>1, <2>2, <2>3, <2>4, EndIsSafe
<1>17. IInv'
  BY <1>9, <1>12, <1>16 DEF IInv
<1>18. Heard(jobs, jobs')
  BY <1>11, <1>12, <1>13 DEF Heard, Destructive
<1>19. QED BY <1>17, <1>18 DEF Good

\* A worker takes a step.
LEMMA WorkerIsGood ==
  ASSUME IInv, NEW s \in Slots, Worker(s)
  PROVE  Good
<1>1. Safe(jobs, owner, asks, signals, busy, window)
  BY DEF IInv
<1>2. ASSUME NEW step \in {"execute", "write"}, jobs' = Stepped(jobs, s, step),
             jobs[s].step \in {"confirm", "review"}, step = "write" => jobs[s].step = "review",
             ~jobs[s].cancelled, UNCHANGED <<window, asks, signals, owner, busy>>
      PROVE  Good
  <2>1. PICK next \in {"execute", "review", "write"} : next = step
    OBVIOUS
  <2>2. PICK ks : ks = Stepped(jobs, s, next)
    OBVIOUS
  <2>3. next # "execute" => jobs[s].step \in Late
    BY <1>2, <2>1 DEF Late
  <2>4. Safe(ks, owner, asks, signals, busy, window) /\ Heard(jobs, ks)
    BY <1>1, <1>2, <2>2, <2>3, SteppedIsSafe
  <2>5. jobs' = ks
    BY <1>2, <2>1, <2>2
  <2>6. IInv'
    BY <1>2, <2>4, <2>5 DEF IInv
  <2>7. QED BY <2>4, <2>5, <2>6 DEF Good
<1>3. CASE GrubConfirmed(s)
  <2>1. PICK step \in {"execute", "write"} : step = "execute"
    OBVIOUS
  <2>2. QED BY <1>2, <1>3, <2>1 DEF GrubConfirmed
<1>4. CASE CheckFinalStagedDbx(s)
  BY <1>4, StagedIsGood
<1>5. CASE DbxDecided(s)
  <2>1. PICK step \in {"execute", "write"} : step = "write"
    OBVIOUS
  <2>2. QED BY <1>2, <1>5, <2>1 DEF DbxDecided
<1>6. CASE \E outcome \in {"ok", "failed", "cancelled"} : WorkerEnds(s, outcome)
  BY <1>6, EndedIsGood
<1>7. QED BY <1>3, <1>4, <1>5, <1>6 DEF Worker

\* The worker of an inspection ends.
LEMMA InspectionIsGood ==
  ASSUME IInv, NEW n \in 1..MaxImages, InspectionWorkerEnds(n)
  PROVE  Good
<1>1. Safe(jobs, owner, asks, signals, busy, window)
  BY DEF IInv
<1>2. signals \in Seq(SignalRecord) /\ n \in Nat
  BY <1>1, BoundsAssumption DEF Safe, Most, Typed
<1>3. PICK e : e = Signal("inspection_worker_finished", 0, n)
  OBVIOUS
<1>4. PICK m : m = Signal("inspection_finished", 0, n)
  OBVIOUS
<1>5. e \in SignalRecord /\ e.to \notin Endings /\ e.job \notin Slots
  BY <1>2, <1>3, SlotsTyped DEF Signal, SignalRecord, Endings
<1>6. m \in SignalRecord /\ m.to \notin Endings /\ m.job \notin Slots
  BY <1>2, <1>4, SlotsTyped DEF Signal, SignalRecord, Endings
<1>7. asks' = asks /\ owner' = owner /\ busy' = busy /\ window' = window /\ jobs' = jobs
  BY DEF InspectionWorkerEnds
<1>8. Heard(jobs, jobs')
  BY <1>7 DEF Heard
<1>9. CASE signals' = Append(signals, e)
  <2>1. Safe(jobs, owner, asks, Append(signals, e), busy, window)
    BY <1>1, <1>5, NewsIsSafe
  <2>2. QED BY <1>7, <1>8, <1>9, <2>1 DEF Good, IInv
<1>10. CASE signals' = signals \o <<m, e>>
  <2>1. PICK sg : sg = Append(signals, m)
    OBVIOUS
  <2>2. Safe(jobs, owner, asks, sg, busy, window)
    BY <1>1, <1>6, <2>1, NewsIsSafe
  <2>3. Safe(jobs, owner, asks, Append(sg, e), busy, window)
    BY <1>5, <2>2, NewsIsSafe
  <2>4. signals' = Append(sg, e)
    BY <1>2, <1>5, <1>6, <1>10, <2>1
  <2>5. QED BY <1>7, <1>8, <2>3, <2>4 DEF Good, IInv
<1>11. QED BY <1>3, <1>4, <1>9, <1>10 DEF InspectionWorkerEnds

\* Every step keeps the claims, and hears a cancellation.
LEMMA NextIsGood ==
  ASSUME IInv, image \in Nat, Next
  PROVE  Good
BY UserIsGood, AnswerIsGood, DispatchIsGood, WorkerIsGood, InspectionIsGood DEF Next

-----------------------------------------------------------------------------
(* What is shown is of the selected image: one handler selects an image and forgets all that *)
(* was shown, and four take a result, of that image only.                                   *)

Selected ==
  /\ image \in Nat
  /\ shown \in [inspection : {0, image}, overlay : {0, image}, editions : {0, image}]
  /\ shown.overlay # 0 => shown.inspection # 0

ImageKept == image' = image /\ shown' = shown

\* Most handlers select nothing and show nothing.
LEMMA KeptIsSelected == Selected /\ ImageKept => Selected'
BY DEF Selected, ImageKept

\* What is shown is forgotten when another image is selected.
LEMMA LoadSelects ==
  ASSUME Selected, NEW under, NEW refs, NEW js, NEW by, LoadImage(under, refs, js, by)
  PROVE  Selected'
<1>1. image' = image + 1 /\ shown' = [inspection |-> 0, overlay |-> 0, editions |-> 0]
  BY DEF LoadImage
<1>2. QED BY <1>1 DEF Selected

\* The result of an older inspection is dropped.
LEMMA InspectionSelected ==
  ASSUME Selected, NEW under, NEW generation, OnInspectionFinished(under, generation)
  PROVE  Selected'
<1>1. CASE generation # image
  <2>1. ImageKept
    BY <1>1 DEF OnInspectionFinished, ImageKept
  <2>2. QED BY <2>1, KeptIsSelected
<1>2. CASE generation = image
  <2>1. image' = image /\ shown' = [shown EXCEPT !.inspection = image]
    BY <1>2 DEF OnInspectionFinished
  <2>2. QED BY <2>1 DEF Selected
<1>3. QED BY <1>1, <1>2

\* So are the editions of another image.
LEMMA EditionsSelected ==
  ASSUME Selected, NEW under, NEW s, NEW outcome, OnWindowsMetadataFinished(under, s, outcome)
  PROVE  Selected'
<1>1. CASE ~Refers(owner, "windows_wim_extractor", s)
  <2>1. ImageKept
    BY <1>1 DEF OnWindowsMetadataFinished, Dismissed, ImageKept
  <2>2. QED BY <2>1, KeptIsSelected
<1>2. CASE Refers(owner, "windows_wim_extractor", s)
  <2>1. /\ image' = image
        /\ shown' = [shown EXCEPT !.editions =
                       IF jobs[s].image # image THEN @ ELSE IF outcome = "ok" THEN image ELSE 0]
    BY <1>2 DEF OnWindowsMetadataFinished
  <2>2. QED BY <2>1 DEF Selected
<1>3. QED BY <1>1, <1>2

\* So is the overlay of another image, or of one whose inspection is not known.
LEMMA OverlaySelected ==
  ASSUME Selected, NEW under, NEW s, NEW outcome, OnZipOverlayFinished(under, s, outcome)
  PROVE  Selected'
<1>1. CASE ~Refers(owner, "zip_overlay_preparer", s)
  <2>1. ImageKept
    BY <1>1 DEF OnZipOverlayFinished, Dismissed, ImageKept
  <2>2. QED BY <2>1, KeptIsSelected
<1>2. CASE Refers(owner, "zip_overlay_preparer", s)
  <2>1. PICK current : current = (jobs[s].image = image /\ Inspected)
    OBVIOUS
  <2>2. /\ image' = image
        /\ shown' = [shown EXCEPT !.overlay =
                       IF current /\ outcome = "ok" /\ ~jobs[s].cancelled THEN image ELSE @]
    BY <1>2, <2>1 DEF OnZipOverlayFinished
  <2>3. QED BY <2>1, <2>2 DEF Selected, Inspected
<1>3. QED BY <1>1, <1>2

\* The overlay is taken back.
LEMMA OverlayForgotten ==
  ASSUME Selected, image' = image, shown' = [shown EXCEPT !.overlay = 0]
  PROVE  Selected'
BY DEF Selected

\* on_finished leaves the selection alone.
LEMMA FinishedKeeps ==
  ASSUME NEW under, NEW js, OnFinished(under, js)
  PROVE  ImageKept
BY DEF OnFinished, ImageKept

\* So does the review of a staged tree.
LEMMA ReviewKeeps ==
  ASSUME NEW under, NEW s, OnStagedDbxConfirmationRequested(under, s)
  PROVE  ImageKept
BY DEF OnStagedDbxConfirmationRequested, Dismissed, ImageKept

\* So does the end of an inspection, even when the window closes.
LEMMA CloseKeeps ==
  ASSUME NEW under, OnInspectionWorkerFinished(under)
  PROVE  ImageKept
BY DEF OnInspectionWorkerFinished, CloseEvent, ImageKept

\* So does every handler of a preparation.
LEMMA PreparedKeeps ==
  ASSUME NEW under, NEW s, NEW outcome, Prepared(under, s, outcome)
  PROVE  ImageKept
BY DEF Prepared, ImageKept, OnRawPreparationFinished, OnFastZeroPreparationFinished,
  OnRestorePreparationFinished, OnGrubRescuePreparationFinished, OnUefiShellPreparationFinished,
  OnIsoStagingPreparationFinished, OnUefiPreparationFinished, OnCasperPreparationFinished,
  OnSyslinuxPreparationFinished, OnWindowsDualPreparationFinished, PreparationFinished, Releases,
  HelperPreparationFinished, ContinuePreparedIsoWrite, StartSyslinuxPreparation,
  StartWindowsDualPreparation, StartCasperPreparation, StartUefiPreparation,
  Goes, Ends, OnFinished, Dismissed, ClosesStale, CancelsStale

\* So does every handler of an execution.
LEMMA ExecutedKeeps ==
  ASSUME NEW under, NEW s, NEW outcome, Executed(under, s, outcome)
  PROVE  ImageKept
BY DEF Executed, ImageKept, OnRawExecutionFinished, OnFastZeroExecutionFinished,
  OnRestoreExecutionFinished, OnGrubRescueExecutionFinished, OnSyslinuxExecutionFinished,
  OnWindowsDualExecutionFinished, ExecutionFinished, Releases, Ends, OnFinished, ClosesStale,
  CancelsStale

\* The results of downloads, checksums, editions and overlays.
LEMMA ResultSelects ==
  ASSUME Selected, NEW under, NEW s, NEW outcome, Result(under, s, outcome)
  PROVE  Selected'
<1>1. CASE OnWindowsMetadataFinished(under, s, outcome)
  BY <1>1, EditionsSelected
<1>2. CASE OnZipOverlayFinished(under, s, outcome)
  BY <1>2, OverlaySelected
<1>3. CASE OnChecksumsFinished(under, s, outcome)
  <2>1. ImageKept
    BY <1>3 DEF OnChecksumsFinished, Ends, Dismissed, ImageKept
  <2>2. QED BY <2>1, KeptIsSelected
<1>4. ASSUME NEW field, NEW how, DownloadFinished(field, under, s, how) PROVE Selected'
  <2>1. ImageKept
    BY <1>4 DEF DownloadFinished, Ends, Dismissed, ImageKept
  <2>2. QED BY <2>1, KeptIsSelected
<1>5. QED BY <1>1, <1>2, <1>3, <1>4 DEF Result, OnLinuxDownloadFinished, OnFreeDosDownloadFinished,
  OnWindowsDownloadFinished, PublishedDownloadFinished

\* A starter shows nothing; that of an overlay takes the last one back.
LEMMA StartsSelects ==
  ASSUME Selected, NEW ask, NEW under, Starts(ask, under)
  PROVE  Selected'
<1>1. CASE StartZipOverlay(under)
  <2>1. image' = image /\ shown' = [shown EXCEPT !.overlay = 0]
    BY <1>1 DEF StartZipOverlay
  <2>2. QED BY <2>1, OverlayForgotten
<1>2. CASE ~StartZipOverlay(under)
  <2>1. ImageKept
    BY <1>2 DEF Starts, StartWrite, AnswerDriveTools, StartGrub, StartUefiShell, SaveOpticalDisc,
      StartIsoExtraction, StartLinuxDownload, StartFreeDosDownload, StartWindowsDownload,
      StartWindowsWimInspection, StartConstructedIsoWrite, SaveDrive, FormatDrive,
      StartVerifiedRestore, EraseDrive, StartFastZero, TestMedia, Begins, BeginsAs, Tells,
      Dismissed, ImageKept
  <2>2. QED BY <2>1, KeptIsSelected
<1>3. QED BY <1>1, <1>2

\* A handler that goes on after its dialog leaves the selection alone.
LEMMA GoesOnKeeps ==
  ASSUME NEW ask, NEW under, NEW s, NEW yes, GoesOn(ask, under, s, yes)
  PROVE  ImageKept
BY DEF GoesOn, ImageKept, ConfirmRawWritePlan, ConfirmFastZeroPlan, ConfirmRestorePlan,
  ConfirmAndWriteGrubRescue, ConfirmAndWriteUefiShell, AnswerUefiHelper, ConfirmAndStartIsoWrite,
  AnswerDbx, PromptSyslinuxConfirmation, PromptWindowsDualConfirmation, Confirmed, Releases,
  StartUefiPreparation, StartSyslinuxDeviceWrite, StartWindowsDualDeviceWrite, Continues,
  Goes, Ends, OnFinished, ClosesStale, CancelsStale

\* The user answers a dialog.
LEMMA AnswerSelects ==
  ASSUME Selected, Answer
  PROVE  Selected'
<1>1. PICK a : a = Last(asks)
  OBVIOUS
<1>2. PICK under : under = Front(asks)
  OBVIOUS
<1>3. PICK yes \in BOOLEAN :
        \/ Starts(a.ask, under)
        \/ Dismissed(under)
        \/ GoesOn(a.ask, under, a.job, yes)
        \/ AnswerDownloaded(under)
        \/ AnswerImage(under, yes)
        \/ AnswerClose(a, under, yes)
  BY <1>1, <1>2 DEF Answer
<1>4. CASE Starts(a.ask, under)
  BY <1>4, StartsSelects
<1>5. CASE Dismissed(under)
  BY <1>5, KeptIsSelected DEF Dismissed, ImageKept
<1>6. CASE GoesOn(a.ask, under, a.job, yes)
  BY <1>6, GoesOnKeeps, KeptIsSelected
<1>7. CASE AnswerDownloaded(under)
  <2>1. LoadImage(under, owner, jobs, busy) \/ ImageKept
    BY <1>7 DEF AnswerDownloaded, Dismissed, ImageKept
  <2>2. QED BY <2>1, LoadSelects, KeptIsSelected
<1>8. CASE AnswerImage(under, yes)
  <2>1. LoadImage(under, owner, jobs, busy) \/ ImageKept
    BY <1>8 DEF AnswerImage, Dismissed, ImageKept
  <2>2. QED BY <2>1, LoadSelects, KeptIsSelected
<1>9. CASE AnswerClose(a, under, yes)
  BY <1>9, KeptIsSelected DEF AnswerClose, Cancels, Dismissed, ImageKept
<1>10. QED BY <1>3, <1>4, <1>5, <1>6, <1>7, <1>8, <1>9

\* The event loop takes a signal.
LEMMA DispatchSelects ==
  ASSUME Selected, Dispatch
  PROVE  Selected'
<1>1. PICK m : m = Head(signals)
  OBVIOUS
<1>2. \/ Prepared(asks, m.job, m.outcome) \/ Executed(asks, m.job, m.outcome)
      \/ Result(asks, m.job, m.outcome)
      \/ OnFinished(asks, jobs) \/ OnMediaFinished(asks)
      \/ OnStagedDbxConfirmationRequested(asks, m.job)
      \/ OnInspectionFinished(asks, m.outcome) \/ OnInspectionWorkerFinished(asks)
  BY <1>1 DEF Dispatch
<1>3. PICK under : under = asks
  OBVIOUS
<1>4. CASE Prepared(under, m.job, m.outcome) \/ Executed(under, m.job, m.outcome)
  BY <1>4, PreparedKeeps, ExecutedKeeps, KeptIsSelected
<1>5. CASE Result(under, m.job, m.outcome)
  BY <1>5, ResultSelects
<1>6. CASE OnFinished(under, jobs) \/ OnStagedDbxConfirmationRequested(under, m.job)
           \/ OnInspectionWorkerFinished(under)
  BY <1>6, FinishedKeeps, ReviewKeeps, CloseKeeps, KeptIsSelected
<1>7. CASE OnMediaFinished(under)
  BY <1>7, KeptIsSelected DEF OnMediaFinished, ImageKept
<1>8. CASE OnInspectionFinished(under, m.outcome)
  BY <1>8, InspectionSelected
<1>9. QED BY <1>2, <1>3, <1>4, <1>5, <1>6, <1>7, <1>8

\* The user uses a control of the window.
LEMMA UserSelects ==
  ASSUME Selected, User
  PROVE  Selected'
<1>1. ASSUME NEW name, NEW ready, Asks(name, ready) PROVE Selected'
  BY <1>1, KeptIsSelected DEF Asks, ImageKept
<1>2. CASE CalculateImageChecksums
  BY <1>2, KeptIsSelected DEF CalculateImageChecksums, Begins, BeginsAs, ImageKept
<1>3. CASE ClearZipOverlay
  <2>1. image' = image /\ shown' = [shown EXCEPT !.overlay = 0]
    BY <1>3 DEF ClearZipOverlay
  <2>2. QED BY <2>1, OverlayForgotten
<1>4. CASE ChooseImage
  BY <1>4, KeptIsSelected DEF ChooseImage, ImageKept
<1>5. CASE DropEvent
  BY <1>5, LoadSelects DEF DropEvent
<1>6. CASE CancelPressed
  BY <1>6, KeptIsSelected DEF CancelPressed, Cancels, ImageKept
<1>7. CASE CloseRequested
  BY <1>7, KeptIsSelected DEF CloseRequested, CloseEvent, ImageKept
<1>8. QED BY <1>1, <1>2, <1>3, <1>4, <1>5, <1>6, <1>7 DEF User, ConfirmWrite, ShowDriveTools,
  CreateGrubRescueMedia, CreateUefiShellMedia, OpticalDisc, Extraction, DownloadLinuxImage,
  DownloadFreeDosImage, DownloadWindowsImage, ChooseWindowsOptions, ChooseZipOverlay, PreviewIsoPlan

\* Every step.
LEMMA NextSelects ==
  ASSUME Selected, Next
  PROVE  Selected'
<1>1. ASSUME NEW s \in Slots, Worker(s) PROVE ImageKept
  BY <1>1 DEF Worker, GrubConfirmed, CheckFinalStagedDbx, DbxDecided, WorkerEnds, ImageKept
<1>2. ASSUME NEW n \in 1..MaxImages, InspectionWorkerEnds(n) PROVE ImageKept
  BY <1>2 DEF InspectionWorkerEnds, ImageKept
<1>3. QED BY <1>1, <1>2, UserSelects, AnswerSelects, DispatchSelects, KeptIsSelected DEF Next

-----------------------------------------------------------------------------
(* The invariant. *)

\* The window opens with nothing to claim and nothing shown.
LEMMA Initially == Init => IInv /\ Selected
<1> SUFFICES ASSUME Init PROVE IInv /\ Selected
  OBVIOUS
<1>1. /\ window = "open" /\ asks = <<>> /\ signals = <<>> /\ owner = <<>> /\ busy = FALSE
           /\ image = 0
      /\ jobs = [s \in Slots |-> NoJob]
      /\ shown = [inspection |-> 0, overlay |-> 0, editions |-> 0]
  BY DEF Init, WindowInit
<1>2. Selected
  BY <1>1 DEF Selected
<1>3. DOMAIN owner = {} /\ DOMAIN asks = {} /\ DOMAIN signals = {} /\ Live(owner) = {}
  BY <1>1 DEF Live
<1>4. \A s \in Slots : jobs[s] = NoJob /\ jobs[s].step = "none" /\ ~jobs[s].open
  BY <1>1, NoJobTyped
<1>5. Typed(jobs, owner, asks, signals, busy)
  <2>1. jobs \in [Slots -> JobRecord]
    BY <1>1, NoJobTyped
  <2>2. asks \in Seq(AskRecord) /\ signals \in Seq(SignalRecord) /\ busy \in BOOLEAN
    <3>1. \A S : <<>> \in Seq(S)
      OBVIOUS
    <3>2. QED BY <1>1, <3>1
  <2>3. QED BY <1>3, <1>4, <2>1, <2>2 DEF Typed, Late
<1>6. Attributes(owner, busy) /\ Working(jobs, owner) /\ Awaited(jobs, owner, signals)
  BY <1>3, <1>4 DEF Attributes, Working, Awaited
<1>7. Asked(jobs, owner, asks) /\ Starting(jobs, owner, asks, signals)
  BY <1>3 DEF Asked, Starting
<1>8. Once(jobs, asks, signals)
  BY <1>3 DEF Once, OneQuestion, OneEnding, Apart, Resting
<1>9. Overlays(jobs, owner) /\ Shut(jobs, window) /\ OpenExcept(jobs, asks, signals, {})
  BY <1>3, <1>4 DEF Overlays, Shut, OpenExcept
<1>10. QED BY <1>2, <1>5, <1>6, <1>7, <1>8, <1>9 DEF IInv, Safe, Most

\* Nothing happens.
LEMMA Stuttering ==
  ASSUME IInv, Selected, UNCHANGED vars
  PROVE  IInv' /\ Selected'
<1>1. /\ window' = window /\ asks' = asks /\ signals' = signals /\ owner' = owner /\ jobs' = jobs
      /\ busy' = busy /\ ImageKept
  BY DEF vars, windowVars, ImageKept
<1>2. IInv'
  BY <1>1 DEF IInv
<1>3. QED BY <1>1, <1>2, KeptIsSelected

\* An operation that runs and was not cancelled has all attributes, one that cancel() reads among
\* them.
LEMMA Operating ==
  ASSUME IInv, NEW s \in Slots, jobs[s].step # "none", ~jobs[s].cancelled, jobs[s].kind # "overlay"
  PROVE  /\ Live(owner) # {} /\ \A f \in Live(owner) : owner[f] = s
         /\ Live(owner) \cap OperationFields # {}
<1>1. Safe(jobs, owner, asks, signals, busy, window)
  BY DEF IInv
<1>2. Typed(jobs, owner, asks, signals, busy) /\ Attributes(owner, busy) /\ Working(jobs, owner)
  BY <1>1 DEF Safe, Most
<1>3. PICK early \in BOOLEAN : early = (jobs[s].step = "prepare")
  OBVIOUS
<1>4. Owns(owner, s, Holding(jobs[s].kind, early))
  BY <1>2, <1>3 DEF Working, Exempt
<1>5. jobs[s].kind \in Kinds
  BY <1>2 DEF Typed, JobRecord
<1>6. Live(owner) # {} /\ \A f \in Live(owner) : owner[f] = s
  BY <1>4, <1>5, HoldingFacts DEF Owns
<1>7. QED BY <1>2, <1>6 DEF Attributes

-----------------------------------------------------------------------------
(* Theorems. *)

\* The attributes of the window always belong to one operation, which one worker, one queued
\* signal or one dialog will end; and what is shown is of the selected image.
THEOREM Inductive == Spec => [](IInv /\ Selected)
<1>1. IInv /\ Selected /\ [Next]_vars => (IInv /\ Selected)'
  <2>1. ASSUME IInv, Selected, Next PROVE IInv' /\ Selected'
    <3>1. image \in Nat
      BY <2>1 DEF Selected
    <3>2. QED BY <2>1, <3>1, NextIsGood, NextSelects DEF Good
  <2>2. QED BY <2>1, Stuttering
<1>2. QED BY <1>1, Initially, PTL DEF Spec

\* One operation at a time, which cancel() and closeEvent reach and for which the controls
\* are disabled; none goes on when the window is closed.  Two starters never both pass
\* operation_active, whatever dialog or signal comes between.
THEOREM AloneAndReached == Spec => []OneOperation
<1>1. IInv => OneOperation
  <2> SUFFICES ASSUME IInv PROVE OneOperation
    OBVIOUS
  <2> DEFINE running == {s \in Slots : jobs[s].step # "none" /\ ~jobs[s].cancelled}
             operations == {s \in running : jobs[s].kind # "overlay"}
  <2>1. \A s \in operations :
          /\ Live(owner) # {} /\ \A f \in Live(owner) : owner[f] = s
          /\ Live(owner) \cap OperationFields # {}
    BY Operating
  <2>2. \A s, t \in operations : s = t
    BY <2>1
  <2>3. Cardinality(operations) <= 1
    <3>1. CASE operations = {}
      BY <3>1, FS_EmptySet
    <3>2. CASE operations # {}
      <4>1. PICK s \in operations : operations = {s}
        BY <2>2, <3>2
      <4>2. Cardinality({s}) = 1
        BY FS_Singleton
      <4>3. QED BY <4>1, <4>2
    <3>3. QED BY <3>1, <3>2
  <2>4. operations \subseteq ReferredBy(owner, OperationFields)
    BY <2>1 DEF ReferredBy, Live
  <2>5. /\ OperationActive(owner) => busy
        /\ window = "closed" => running = {}
    <3>1. Attributes(owner, busy) /\ Shut(jobs, window)
      BY DEF IInv, Safe, Most
    <3>2. OperationActive(owner) => Live(owner) # {}
      BY DEF OperationActive, Live, OperationFields
    <3>3. QED BY <3>1, <3>2 DEF Attributes, Shut
  <2>6. QED BY <2>3, <2>4, <2>5 DEF OneOperation
<1>2. QED BY <1>1, Inductive, PTL

\* No handler returns without closing the workflow, or removing the private directory, of
\* the job whose signal or dialog it took, or passing it on.
THEOREM NothingIsLeft == Spec => []NothingLeaks
<1>1. IInv => NothingLeaks
  <2>1. IInv => OpenExcept(jobs, asks, signals, {})
    BY DEF IInv, Safe
  <2>2. QED BY <2>1 DEF NothingLeaks, OpenExcept, Held
<1>2. QED BY <1>1, Inductive, PTL

\* A result that was computed for another image than the selected one is never shown, and
\* an overlay never without the inspection it was planned with.
THEOREM LateResultsAreDropped == Spec => []ResultsAreCurrent
<1>1. Selected => ResultsAreCurrent
  BY DEF Selected, ResultsAreCurrent, Inspected
<1>2. QED BY <1>1, Inductive, PTL

\* Whatever the user answers and whatever is queued, an operation that was cancelled before
\* its destructive step never takes it.
THEOREM CancelIsEffective == Spec => CancelIsHeard
<1>1. IInv /\ Selected /\ [Next]_vars =>
        [\A s \in Slots :
           jobs[s].cancelled /\ jobs[s].step \notin {"execute", "write"}
             => jobs'[s].step \notin {"execute", "write"}]_vars
  <2>1. ASSUME IInv, Selected, Next PROVE Heard(jobs, jobs')
    <3>1. image \in Nat
      BY <2>1 DEF Selected
    <3>2. QED BY <2>1, <3>1, NextIsGood DEF Good
  <2>2. QED BY <2>1 DEF Heard, Destructive
<1>2. QED BY <1>1, Inductive, PTL DEF Spec, CancelIsHeard
=================================================================================
