-------------------------- MODULE Authorizations_proofs --------------------------
(***************************************************************************)
(* The bindings of an authorization, for any number of drives that get the *)
(* path one after the other and any number of receipts.                    *)
(*                                                                         *)
(* The argument is one of order: the disk sequence only grows, a plan has  *)
(* the sequence of a drive that had the path before, and a call reads the  *)
(* record of the drive first and its sequence afterwards.  When the        *)
(* sequence is that of the plan, then no drive came between the two reads, *)
(* and the record is that of the drive that was planned for.  The helper   *)
(* compares a descriptor, which no exchange of drives can touch any more.  *)
(***************************************************************************)
EXTENDS Authorizations, TLAPS

Kinds == {"raw", "syslinux", "grub", "windows", "fast-zero", "restore"}
Numbers == {"n1", "n2", "none"}
Records == [look : {"ours", "other", "none"}, number : Numbers, home : BOOLEAN, mounted : BOOLEAN]
States == {"none", "minted", "clone"}

PlanSlot == [state : States, device : Records, sequence : Nat]
ConfirmationSlot == [state : States, plan : Slots, generation : Nat]
ReadySlot == [state : States, plan : Slots, conf : Slots, device : Records]
CallSteps ==
  {"none", "node", "live", "sequence", "node-again", "live-again", "sequence-again", "mint", "launch"}
CallRecord ==
  [name : {"none", "build", "confirm", "authorize", "ready"}, plan : Slots, conf : Slots, ready : Slots,
   step : CallSteps, device : Records, shown : Records, generation : Nat, sequence : Nat]
LaunchRecord ==
  [done : BOOLEAN, plan : Slots, conf : Slots, ready : Slots, generation : Nat,
   mounted : BOOLEAN, home : BOOLEAN]

\* The drives, the receipts and the call; the helper has its own.
Typed ==
  /\ kind \in Kinds /\ drive \in [Generations -> Drives] /\ seq \in Generations
  /\ mounted \in BOOLEAN /\ input \in {"bound", "changed"}
  /\ plan \in [Slots -> PlanSlot] /\ conf \in [Slots -> ConfirmationSlot] /\ ready \in [Slots -> ReadySlot]
  /\ call \in CallRecord /\ launch \in LaunchRecord

\* A plan was made before now; a confirmation is of a plan, and of the drive the plan is for.
Receipts ==
  /\ \A s \in Slots : plan[s].sequence <= seq
  /\ \A s \in Slots : kind = "restore" /\ plan[s].state = "minted" => ~plan[s].device.mounted
  /\ \A c \in Slots : conf[c].state = "minted" =>
       /\ plan[conf[c].plan].state = "minted"
       /\ conf[c].generation = plan[conf[c].plan].sequence

\* What a call was given is what it was when it began.
Given ==
  /\ launch.done => call.name = "none"
  /\ call.sequence <= seq
  /\ call.name = "build" => plan[call.plan].state = "none" /\ (kind = "restore" => ~call.device.mounted)
  /\ call.name = "confirm" => conf[call.conf].state = "none"
  /\ call.name \in {"confirm", "authorize", "ready"} => Authoritative(call.plan)
  /\ call.name \in {"authorize", "ready"} => ConfirmationFits(call.plan, call.conf)
  /\ call.name = "ready" /\ kind # "restore" => ReadyFits(call.plan, call.conf, call.ready)
  /\ call.name = "ready" /\ kind # "fast-zero" => ~call.device.mounted

\* The steps of a call after its first look at the record of the drive.
Looked == {"sequence", "node-again", "live-again", "sequence-again", "mint", "launch"}

Seen ==
  call.name # "none" /\ call.step \in Looked =>
    /\ call.generation \in Generations /\ call.generation <= seq
    /\ call.shown.home = drive[call.generation].home
    /\ call.name \in {"confirm", "ready"} => plan[call.plan].sequence <= call.generation
    /\ call.name = "ready" => ~call.shown.mounted

Compared ==
  /\ call.name = "confirm" /\ call.step = "mint" => call.generation = plan[call.plan].sequence
  /\ call.name = "ready" /\ call.step = "launch" =>
       /\ call.generation = plan[call.plan].sequence
       /\ kind \notin {"fast-zero", "restore"} => ~call.shown.home

\* The helper, step by step.
Off == {"off", "refused"}
Installed == {"files", "parents", "policy", "image", "start"}
Untrusted == {"off", "files", "parents", "refused"}
Requested == Off \cup Installed
Before == Requested \cup {"main", "ready", "packet", "source", "layout", "hash", "node", "observe"}
Closed == Before \cup {"active", "open"}
Unidentified == Closed \cup {"identity"}
Uncommitted == Unidentified \cup {"observe-opened", "active-opened", "node-opened", "source-opened", "prepared"}

HelperSteps == Uncommitted \cup
  {"committed", "node-committed", "observe-committed", "active-committed", "source-committed", "writing"}

\* The program of a restore sends its COMMIT after the last look, the others start the helper then.
Unlaunched == IF kind = "restore" THEN Uncommitted ELSE Requested

HelperRecord ==
  [step : HelperSteps, plan : Slots, conf : Slots, request : [number : Numbers, sequence : Nat],
   fd : Nat, exclusive : BOOLEAN, images : SUBSET Layouts, plain : BOOLEAN, misjudged : BOOLEAN,
   host : [file : {"root", "user"}, parents : {"root", "user"},
           policy : {"narrow", "broad"}, program : {"package", "other"}]]

HelperTyped == helper \in HelperRecord

Bound ==
  /\ helper.step \notin Off => Authoritative(helper.plan) /\ ConfirmationFits(helper.plan, helper.conf)
  /\ helper.step \notin Requested => helper.request.sequence = plan[helper.plan].sequence
  /\ helper.step \notin Closed => helper.exclusive
  /\ helper.step \notin Unidentified => helper.fd = helper.request.sequence
  /\ helper.step \notin Before /\ Sourced =>
       helper.request.sequence \in Generations /\ ~drive[helper.request.sequence].home
  /\ helper.step \notin Unlaunched => launch.done /\ launch.plan = helper.plan

\* The drive that the helper claims is not mounted.
ClaimedIsUnmounted == Claimed => ~mounted

\* Only what others may write to is replaced.
Program ==
  /\ helper.host.program = "other" => helper.host.file = "user" \/ helper.host.parents = "user"
  /\ helper.step \notin {"off", "files", "refused"} => TrustedFile
  /\ helper.step \notin Untrusted => TrustedParents

HelperInv == HelperTyped /\ Bound /\ ClaimedIsUnmounted /\ Program

-----------------------------------------------------------------------------
(* The steps of a call. *)

\* What the steps of the calls keep.
CallInv == Typed /\ Receipts /\ Given /\ Seen /\ Compared /\ LaunchIsBound

IInv == CallInv /\ HelperInv

\* What is minted stays as it is, and so does the launch.
Kept ==
  /\ UNCHANGED world
  /\ \A s \in Slots : /\ plan[s].state = "minted" => plan'[s] = plan[s]
                      /\ conf[s].state = "minted" => conf'[s] = conf[s]
  /\ launch.done => launch' = launch

\* What a record of a drive says is of the kinds it may be.
LEMMA DeviceIsTyped == ASSUME NEW shown \in Records PROVE Device(shown) \in Records
BY DEF Device, Records

\* So is what lsblk shows.
LEMMA ShownIsTyped == Typed => Shown \in Records /\ seq \in Nat
<1> SUFFICES ASSUME Typed PROVE Shown \in Records /\ seq \in Nat
  OBVIOUS
<1>1. seq \in Nat /\ drive[seq] \in Drives
  BY DEF Typed, Generations
<1>2. \A d \in Drives : d.look \in {"ours", "other"} /\ d.number \in {"n1", "n2"}
  BY DEF Drives
<1>3. ASSUME NEW d \in Drives PROVE d.home \in BOOLEAN
  <2>1. CASE \E home \in BOOLEAN : d = [look |-> "ours", number |-> "n1", home |-> home]
    <3>1. PICK home \in BOOLEAN : d = [look |-> "ours", number |-> "n1", home |-> home]
      BY <2>1
    <3> QED BY <3>1, Zenon
  <2>2. CASE \E number \in {"n1", "n2"} : d = [look |-> "other", number |-> number, home |-> FALSE]
    <3>1. d.home = FALSE
      BY <2>2
    <3> QED BY <3>1
  <2> QED BY <2>1, <2>2, Zenon DEF Drives
<1>4. Shown \in Records
  BY <1>1, <1>2, <1>3 DEF Typed, Shown, Records, Numbers
<1> QED BY <1>1, <1>4

\* A look that expects a drive without mounts sees none.
LEMMA UnmountedIsSeen ==
  ASSUME NEW d \in Records, mounted \in BOOLEAN,
         PostUnmountMatches(d, Device(Shown)) \/ (Device(Shown) = d /\ ~d.mounted)
  PROVE  ~mounted
BY DEF PostUnmountMatches, Device, Shown, Records

\* The empty call is a call.
LEMMA NoCallIsTyped == NoCall \in CallRecord
BY DEF NoCall, CallRecord, CallSteps, Slots, Nowhere, Records, Numbers

\* So are the records of the drives that were discovered.
LEMMA DiscoveredIsTyped == ASSUME NEW d \in Discovered PROVE d \in Records
<1>1. PICK m \in BOOLEAN : d = [look |-> "ours", number |-> "n1", home |-> FALSE, mounted |-> m]
  BY DEF Discovered
<1> QED BY <1>1 DEF Records, Numbers

\* A call begins with receipts that fit together, and with nothing read.
LEMMA Beginning ==
  ASSUME NEW name \in {"build", "confirm", "authorize", "ready"}, NEW step \in CallSteps \ Looked,
         NEW p \in Slots, NEW c \in Slots, NEW r \in Slots, NEW device \in Records,
         name = "build" => plan[p].state = "none" /\ (kind = "restore" => ~device.mounted),
         name = "confirm" => conf[c].state = "none",
         name \in {"confirm", "authorize", "ready"} => Authoritative(p),
         name \in {"authorize", "ready"} => ConfirmationFits(p, c),
         name = "ready" /\ kind # "restore" => ReadyFits(p, c, r),
         name = "ready" /\ kind # "fast-zero" => ~device.mounted,
         CallInv, Begins(name, step, p, c, r, device)
  PROVE  CallInv' /\ Kept
<1>1. call' = [NoCall EXCEPT !.name = name, !.step = step, !.plan = p, !.conf = c, !.ready = r, !.device = device]
      /\ ~launch.done /\ UNCHANGED <<world, receipts, launch>>
  BY DEF Begins
<1>2. NoCall.sequence = 0 /\ Nowhere \in Records
  BY DEF NoCall, Nowhere, Records, Numbers
<1>3. call' \in CallRecord
  BY <1>1, <1>2 DEF CallRecord, CallSteps, NoCall, Slots
<1>4. Typed'
  BY <1>1, <1>3 DEF CallInv, Typed, world, receipts
<1>5. /\ call'.name = name /\ call'.step = step /\ call'.plan = p /\ call'.conf = c /\ call'.ready = r
      /\ call'.device = device /\ call'.sequence = 0
  BY <1>1 DEF NoCall
<1>6. Receipts' /\ LaunchIsBound'
  BY <1>1 DEF CallInv, Receipts, LaunchIsBound, world, receipts
<1>7. Given'
  BY <1>1, <1>5 DEF CallInv, Typed, PlanSlot, CallRecord, Generations, Given, Authoritative,
      ConfirmationFits, ReadyFits, world, receipts
<1>8. Seen' /\ Compared'
  BY <1>5 DEF Seen, Compared, Looked
<1>9. Kept
  BY <1>1 DEF Kept, world, receipts
<1> QED BY <1>6, <1>7, <1>8, <1>4, <1>9 DEF CallInv

\* The node adds nothing to what is known.
LEMMA ReadingTheNode ==
  ASSUME NEW name, NEW device, NEW from, NEW to \in CallSteps \ {"mint", "launch"}, to \in Looked => from \in Looked,
         CallInv, ReadsNode(name, device, from, to)
  PROVE  CallInv' /\ Kept
<1>1. call' = [call EXCEPT !.step = to] /\ call.step = from /\ UNCHANGED <<world, receipts, launch>>
  BY DEF ReadsNode, Continues, In
<1>2. call' \in CallRecord
  BY <1>1 DEF CallInv, Typed, CallRecord
<1>3. /\ call'.name = call.name /\ call'.plan = call.plan /\ call'.conf = call.conf /\ call'.ready = call.ready
      /\ call'.device = call.device /\ call'.sequence = call.sequence /\ call'.shown = call.shown
      /\ call'.generation = call.generation /\ call'.step = to
  BY <1>1 DEF CallInv, Typed, CallRecord
<1>4. Typed'
  BY <1>1, <1>2 DEF CallInv, Typed, world, receipts
<1>5. Receipts' /\ LaunchIsBound'
  BY <1>1 DEF CallInv, Receipts, LaunchIsBound, world, receipts
<1>6. Given'
  BY <1>1, <1>3 DEF CallInv, Given, Authoritative, ConfirmationFits, ReadyFits, world, receipts
<1>7. Seen' /\ Compared'
  BY <1>1, <1>3 DEF CallInv, Seen, Compared, world, receipts
<1>8. Kept
  BY <1>1 DEF Kept, world, receipts
<1> QED BY <1>4, <1>5, <1>6, <1>7, <1>8 DEF CallInv

\* The record is that of the drive that has the path now.
LEMMA ReadingTheRecord ==
  ASSUME NEW name, NEW from, NEW to \in CallSteps \ {"mint", "launch"}, name = "ready" => ~mounted,
         CallInv, ReadsLive(name, from, to)
  PROVE  CallInv' /\ Kept
<1>1. /\ call' = [call EXCEPT !.step = to, !.shown = Shown, !.generation = seq]
      /\ call.name = name /\ UNCHANGED <<world, receipts, launch>>
  BY DEF ReadsLive, In
<1>2. call' \in CallRecord
  BY <1>1, ShownIsTyped DEF CallInv, Typed, CallRecord
<1>3. /\ call'.name = call.name /\ call'.plan = call.plan /\ call'.conf = call.conf /\ call'.ready = call.ready
      /\ call'.device = call.device /\ call'.sequence = call.sequence /\ call'.shown = Shown
      /\ call'.generation = seq /\ call'.step = to
  BY <1>1, ShownIsTyped DEF CallInv, Typed, CallRecord
<1>4. Typed'
  BY <1>1, <1>2 DEF CallInv, Typed, world, receipts
<1>5. Receipts' /\ LaunchIsBound'
  BY <1>1 DEF CallInv, Receipts, LaunchIsBound, world, receipts
<1>6. Given'
  BY <1>1, <1>3 DEF CallInv, Given, Authoritative, ConfirmationFits, ReadyFits, world, receipts
<1>7. Shown.home = drive[seq].home /\ Shown.mounted = mounted
  BY DEF Shown
<1>8. Seen' /\ Compared'
  BY <1>1, <1>3, <1>7 DEF CallInv, Typed, CallRecord, Receipts, Given, Seen, Compared, world,
      receipts, Generations
<1>9. Kept
  BY <1>1 DEF Kept, world, receipts
<1> QED BY <1>4, <1>5, <1>6, <1>8, <1>9 DEF CallInv

\* The sequence is that of a drive that has the path no earlier than the record was read.
LEMMA ReadingTheSequence ==
  ASSUME NEW name, NEW from \in Looked, NEW to \in CallSteps,
         name = "confirm" /\ to = "mint" => seq = plan[call.plan].sequence,
         name = "ready" /\ to = "launch" =>
           seq = plan[call.plan].sequence /\ (kind \notin {"fast-zero", "restore"} => SourceResidency),
         CallInv, ReadsSequence(name, from, to)
  PROVE  CallInv' /\ Kept
<1>1. /\ call' = [call EXCEPT !.step = to, !.sequence = seq]
      /\ call.name = name /\ call.step = from /\ UNCHANGED <<world, receipts, launch>>
  BY DEF ReadsSequence, In
<1>2. call' \in CallRecord
  BY <1>1, ShownIsTyped DEF CallInv, Typed, CallRecord
<1>3. /\ call'.name = call.name /\ call'.plan = call.plan /\ call'.conf = call.conf /\ call'.ready = call.ready
      /\ call'.device = call.device /\ call'.sequence = seq /\ call'.shown = call.shown
      /\ call'.generation = call.generation /\ call'.step = to
  BY <1>1, ShownIsTyped DEF CallInv, Typed, CallRecord
<1>4. Typed'
  BY <1>1, <1>2 DEF CallInv, Typed, world, receipts
<1>5. Receipts' /\ LaunchIsBound'
  BY <1>1 DEF CallInv, Receipts, LaunchIsBound, world, receipts
<1>6. Given'
  BY <1>1, <1>3 DEF CallInv, Typed, PlanSlot, CallRecord, Generations, Given, Authoritative,
      ConfirmationFits, ReadyFits, world, receipts
<1>7. Seen'
  BY <1>1, <1>3 DEF CallInv, Seen, world, receipts
<1>8. Compared'
  BY <1>1, <1>3 DEF CallInv, Typed, PlanSlot, CallRecord, Seen, Compared, SourceResidency,
      world, receipts, Generations
<1>9. Kept
  BY <1>1 DEF Kept, world, receipts
<1> QED BY <1>4, <1>5, <1>6, <1>7, <1>8, <1>9 DEF CallInv

\* A plan is minted in an empty slot.
LEMMA MintingAPlan ==
  ASSUME NEW name, NEW from, name = "build", CallInv, MintsPlan(name, from)
  PROVE  CallInv' /\ Kept
<1>1. /\ plan' = [plan EXCEPT ![call.plan] =
                    [state |-> "minted", device |-> call.device, sequence |-> call.sequence]]
      /\ call.name = "build" /\ call' = NoCall /\ UNCHANGED <<world, conf, ready, launch>>
  BY DEF MintsPlan, In
<1>2. Typed'
  BY <1>1, NoCallIsTyped DEF CallInv, Typed, PlanSlot, CallRecord, States, world
<1>3. call'.name = "none" /\ call'.sequence = 0
  BY <1>1 DEF NoCall
<1>4. \A s \in Slots : plan[s].state = "minted" => plan'[s] = plan[s]
  BY <1>1 DEF CallInv, Typed, Given
<1>5. Receipts'
  BY <1>1, <1>4 DEF CallInv, Typed, PlanSlot, ConfirmationSlot, CallRecord, Receipts, Given, world
<1>6. Given' /\ Seen' /\ Compared'
  BY <1>1, <1>2, <1>3 DEF Given, Seen, Compared, Typed, Generations
<1>7. LaunchIsBound'
  BY <1>1 DEF CallInv, Given, LaunchIsBound, world
<1>8. Kept
  BY <1>1 DEF CallInv, Typed, CallRecord, Given, Kept, world, receipts
<1> QED BY <1>2, <1>5, <1>6, <1>7, <1>8 DEF CallInv

\* A confirmation is minted for the drive of its plan.
LEMMA MintingAConfirmation ==
  ASSUME NEW name, NEW from, name = "confirm", from = "mint", CallInv, MintsConfirmation(name, from)
  PROVE  CallInv' /\ Kept
<1>1. /\ conf' = [conf EXCEPT ![call.conf] =
                    [state |-> "minted", plan |-> call.plan, generation |-> call.generation]]
      /\ call.name = "confirm" /\ call.step = "mint" /\ call' = NoCall /\ UNCHANGED <<world, plan, ready, launch>>
  BY DEF MintsConfirmation, In
<1>2. Typed'
  BY <1>1, NoCallIsTyped DEF CallInv, Typed, ConfirmationSlot, CallRecord, States, world
<1>3. call'.name = "none" /\ call'.sequence = 0
  BY <1>1 DEF NoCall
<1>4. plan[call.plan].state = "minted" /\ call.generation = plan[call.plan].sequence
  BY <1>1 DEF CallInv, Given, Compared, Authoritative
<1>5. Receipts'
  BY <1>1, <1>4 DEF CallInv, Typed, ConfirmationSlot, CallRecord, Receipts, world
<1>6. Given' /\ Seen' /\ Compared'
  BY <1>1, <1>2, <1>3 DEF Given, Seen, Compared, Typed, Generations
<1>7. LaunchIsBound'
  BY <1>1 DEF CallInv, Given, LaunchIsBound, world
<1>8. Kept
  BY <1>1 DEF CallInv, Typed, CallRecord, Given, Kept, world, receipts
<1> QED BY <1>2, <1>5, <1>6, <1>7, <1>8 DEF CallInv

\* A receipt changes neither plans nor confirmations.
LEMMA MintingAReceipt ==
  ASSUME NEW name, NEW from, name = "authorize", CallInv, MintsReady(name, from)
  PROVE  CallInv' /\ Kept
<1>1. /\ ready' = [ready EXCEPT ![call.ready] =
                     [state |-> "minted", plan |-> call.plan, conf |-> call.conf, device |-> Device(call.shown)]]
      /\ call.name = "authorize" /\ call' = NoCall /\ UNCHANGED <<world, plan, conf, launch>>
  BY DEF MintsReady, In
<1>2. Device(call.shown) \in Records
  BY DeviceIsTyped DEF CallInv, Typed, CallRecord
<1>3. Typed'
  BY <1>1, <1>2, NoCallIsTyped DEF CallInv, Typed, ReadySlot, CallRecord, States, world
<1>4. call'.name = "none" /\ call'.sequence = 0
  BY <1>1 DEF NoCall
<1>5. Receipts'
  BY <1>1 DEF CallInv, Receipts, world
<1>6. Given' /\ Seen' /\ Compared'
  BY <1>1, <1>3, <1>4 DEF Given, Seen, Compared, Typed, Generations
<1>7. LaunchIsBound'
  BY <1>1 DEF CallInv, Given, LaunchIsBound, world
<1>8. Kept
  BY <1>1 DEF CallInv, Typed, CallRecord, Given, Kept, world, receipts
<1> QED BY <1>3, <1>5, <1>6, <1>7, <1>8 DEF CallInv

\* A launch is bound when the last look is.
LEMMA Launching ==
  ASSUME NEW name, NEW from, name = "ready", from = "launch", CallInv, Launches(name, from)
  PROVE  CallInv' /\ Kept
<1>1. /\ launch' = [done |-> TRUE, plan |-> call.plan, conf |-> call.conf, ready |-> call.ready,
                    generation |-> call.generation, mounted |-> call.shown.mounted, home |-> call.shown.home]
      /\ call.name = "ready" /\ call.step = "launch" /\ call' = NoCall /\ UNCHANGED <<world, receipts>>
  BY DEF Launches, In
<1>2. launch' \in LaunchRecord
  BY <1>1 DEF CallInv, Typed, CallRecord, Records, LaunchRecord
<1>3. Typed'
  BY <1>1, <1>2, NoCallIsTyped DEF CallInv, Typed, world, receipts
<1>4. call'.name = "none" /\ call'.sequence = 0
  BY <1>1 DEF NoCall
<1>5. Receipts'
  BY <1>1 DEF CallInv, Receipts, world, receipts
<1>6. Given' /\ Seen' /\ Compared'
  BY <1>1, <1>3, <1>4 DEF Given, Seen, Compared, Typed, Generations
<1>7. LaunchIsBound'
  <2>1. /\ plan[call.plan].state = "minted" /\ conf[call.conf].state = "minted" /\ conf[call.conf].plan = call.plan
        /\ conf[call.conf].generation = plan[call.plan].sequence
    BY <1>1 DEF CallInv, Typed, CallRecord, Receipts, Given, Authoritative, ConfirmationFits
  <2>2. kind # "restore" =>
          ready[call.ready].state = "minted" /\ ready[call.ready].plan = call.plan /\ ready[call.ready].conf = call.conf
    BY <1>1 DEF CallInv, Given, ReadyFits
  <2>3. /\ call.generation = plan[call.plan].sequence /\ ~call.shown.mounted
        /\ kind \notin {"fast-zero", "restore"} => ~drive[call.generation].home
    BY <1>1 DEF CallInv, Seen, Looked, Compared
  <2> QED BY <1>1, <2>1, <2>2, <2>3 DEF LaunchIsBound, world, receipts
<1>8. Kept
  BY <1>1 DEF CallInv, Typed, CallRecord, Given, Kept, world, receipts
<1> QED BY <1>3, <1>5, <1>6, <1>7, <1>8 DEF CallInv

-----------------------------------------------------------------------------
(* The calls. *)

\* build_..._plan of the raw, Syslinux, GRUB and Windows media.
LEMMA BuildPlanKeeps == CallInv /\ kind \notin {"fast-zero", "restore"} /\ BuildPlan => CallInv' /\ Kept
<1> SUFFICES ASSUME CallInv, kind \notin {"fast-zero", "restore"}, BuildPlan PROVE CallInv' /\ Kept
  OBVIOUS
<1> USE DEF Looked, CallSteps
<1>1. CASE \E p \in EmptyPlans : \E d \in Discovered :
             Begins("build", "node", p, 1, 1, d)
  <2>1. PICK p \in EmptyPlans, d \in Discovered :
               Begins("build", "node", p, 1, 1, d)
    BY <1>1
  <2>2. p \in Slots /\ plan[p].state = "none" /\ d \in Records /\ 1 \in Slots
    BY DiscoveredIsTyped, <2>1 DEF EmptyPlans, FirstEmpty, Used, Slots
  <2> QED BY <2>1, <2>2, Beginning
<1>2. CASE ReadsNode("build", call.device, "node", "live")
  BY <1>2, ReadingTheNode
<1>3. CASE ReadsSameLive("build", call.device, "live", "sequence")
  BY <1>3, ReadingTheRecord DEF ReadsSameLive
<1>4. CASE ReadsSequence("build", "sequence", "mint")
  BY <1>4, ReadingTheSequence
<1>5. CASE MintsPlan("build", "mint")
  BY <1>5, MintingAPlan
<1> QED BY <1>1, <1>2, <1>3, <1>4, <1>5 DEF BuildPlan

\* confirm_... of the same.
LEMMA ConfirmKeeps == CallInv /\ kind \notin {"fast-zero", "restore"} /\ Confirm => CallInv' /\ Kept
<1> SUFFICES ASSUME CallInv, kind \notin {"fast-zero", "restore"}, Confirm PROVE CallInv' /\ Kept
  OBVIOUS
<1> USE DEF Looked, CallSteps
<1>1. CASE \E p \in Slots : \E c \in EmptyConfirmations :
             StaticRelationships(p) /\ Begins("confirm", "node", p, c, 1, plan[p].device)
  <2>1. PICK p \in Slots, c \in EmptyConfirmations :
               StaticRelationships(p) /\ Begins("confirm", "node", p, c, 1, plan[p].device)
    BY <1>1
  <2>2. c \in Slots /\ conf[c].state = "none" /\ plan[p].device \in Records /\ 1 \in Slots /\ Authoritative(p)
    BY <2>1 DEF EmptyConfirmations, FirstEmpty, Used, Slots, CallInv, Typed, PlanSlot,
        StaticRelationships
  <2> QED BY <2>1, <2>2, Beginning
<1>2. CASE ReadsNode("confirm", call.device, "node", "live")
  BY <1>2, ReadingTheNode
<1>3. CASE ReadsSameLive("confirm", call.device, "live", "sequence")
  BY <1>3, ReadingTheRecord DEF ReadsSameLive
<1>4. CASE SourceResidency /\ ReadsSameSequence("confirm", plan[call.plan].sequence, "sequence", "mint")
  BY <1>4, ReadingTheSequence DEF ReadsSameSequence
<1>5. CASE MintsConfirmation("confirm", "mint")
  BY <1>5, MintingAConfirmation
<1> QED BY <1>1, <1>2, <1>3, <1>4, <1>5 DEF Confirm

\* authorize_unmounted_... of the same.
LEMMA AuthorizeUnmountedKeeps == CallInv /\ kind \notin {"fast-zero", "restore"} /\ AuthorizeUnmounted => CallInv' /\ Kept
<1> SUFFICES ASSUME CallInv, kind \notin {"fast-zero", "restore"}, AuthorizeUnmounted PROVE CallInv' /\ Kept
  OBVIOUS
<1> USE DEF Looked, CallSteps
<1>1. CASE \E p, c \in Slots : \E r \in EmptyReadies :
             StaticRelationships(p) /\ ConfirmationReceipt(p, c) /\ Begins("authorize", "node", p, c, r, plan[p].device)
  <2>1. PICK p \in Slots, c \in Slots, r \in EmptyReadies :
               StaticRelationships(p) /\ ConfirmationReceipt(p, c) /\ Begins("authorize", "node", p, c, r, plan[p].device)
    BY <1>1
  <2>2. r \in Slots /\ plan[p].device \in Records /\ Authoritative(p) /\ ConfirmationFits(p, c)
    BY <2>1 DEF EmptyReadies, FirstEmpty, CallInv, Typed, PlanSlot, StaticRelationships,
        ConfirmationReceipt
  <2> QED BY <2>1, <2>2, Beginning
<1>2. CASE ReadsNode("authorize", call.device, "node", "live")
  BY <1>2, ReadingTheNode
<1>3. CASE PostUnmountMatches(call.device, Device(Shown)) /\ ReadsLive("authorize", "live", "sequence")
  BY <1>3, ReadingTheRecord
<1>4. CASE SourceResidency /\ ReadsSameSequence("authorize", plan[call.plan].sequence, "sequence", "mint")
  BY <1>4, ReadingTheSequence DEF ReadsSameSequence
<1>5. CASE MintsReady("authorize", "mint")
  BY <1>5, MintingAReceipt
<1> QED BY <1>1, <1>2, <1>3, <1>4, <1>5 DEF AuthorizeUnmounted

\* validate_ready_... of the same, the last look.
LEMMA ValidateReadyKeeps == CallInv /\ kind \notin {"fast-zero", "restore"} /\ ValidateReady => CallInv' /\ Kept
<1> SUFFICES ASSUME CallInv, kind \notin {"fast-zero", "restore"}, ValidateReady PROVE CallInv' /\ Kept
  OBVIOUS
<1> USE DEF Looked, CallSteps
<1>1. CASE \E p, c, r \in Slots :
             StaticRelationships(p) /\ ConfirmationReceipt(p, c) /\ ReadyFits(p, c, r) /\ Begins("ready", "node", p, c, r, ready[r].device)
  <2>1. PICK p \in Slots, c \in Slots, r \in Slots :
               StaticRelationships(p) /\ ConfirmationReceipt(p, c) /\ ReadyFits(p, c, r) /\ Begins("ready", "node", p, c, r, ready[r].device)
    BY <1>1
  <2>2. ready[r].device \in Records /\ Authoritative(p) /\ ConfirmationFits(p, c) /\ ReadyFits(p, c, r) /\ ~ready[r].device.mounted
    BY <2>1 DEF CallInv, Typed, PlanSlot, ReadySlot, StaticRelationships, ConfirmationReceipt,
        ReadyFits, PostUnmountMatches, Records
  <2> QED BY <2>1, <2>2, Beginning
<1>2. CASE ReadsNode("ready", call.device, "node", "live")
  BY <1>2, ReadingTheNode
<1>3. CASE ReadsSameLive("ready", call.device, "live", "sequence")
  <2>1. call.device \in Records /\ mounted \in BOOLEAN
    BY DEF CallInv, Typed, CallRecord
  <2>2. ~call.device.mounted
    BY <1>3 DEF ReadsSameLive, ReadsLive, In, CallInv, Given
  <2>3. ~mounted
    BY <1>3, <2>1, <2>2, UnmountedIsSeen DEF ReadsSameLive
  <2> QED BY <1>3, <2>3, ReadingTheRecord DEF ReadsSameLive
<1>4. CASE SourceResidency /\ ReadsSameSequence("ready", plan[call.plan].sequence, "sequence", "launch")
  BY <1>4, ReadingTheSequence DEF ReadsSameSequence
<1>5. CASE Launches("ready", "launch")
  BY <1>5, Launching
<1> QED BY <1>1, <1>2, <1>3, <1>4, <1>5 DEF ValidateReady

\* The same four calls of an erasure with zeroes.
LEMMA BuildFastZeroPlanKeeps == CallInv /\ kind = "fast-zero" /\ BuildFastZeroPlan => CallInv' /\ Kept
<1> SUFFICES ASSUME CallInv, kind = "fast-zero", BuildFastZeroPlan PROVE CallInv' /\ Kept
  OBVIOUS
<1> USE DEF Looked, CallSteps
<1>1. CASE \E p \in EmptyPlans : \E d \in Discovered :
             Begins("build", "node", p, 1, 1, d)
  <2>1. PICK p \in EmptyPlans, d \in Discovered :
               Begins("build", "node", p, 1, 1, d)
    BY <1>1
  <2>2. p \in Slots /\ plan[p].state = "none" /\ d \in Records /\ 1 \in Slots
    BY DiscoveredIsTyped, <2>1 DEF EmptyPlans, FirstEmpty, Used, Slots
  <2> QED BY <2>1, <2>2, Beginning
<1>2. CASE ReadsNode("build", call.device, "node", "live")
  BY <1>2, ReadingTheNode
<1>3. CASE ReadsSameLive("build", call.device, "live", "sequence")
  BY <1>3, ReadingTheRecord DEF ReadsSameLive
<1>4. CASE ReadsSequence("build", "sequence", "node-again")
  BY <1>4, ReadingTheSequence
<1>5. CASE ReadsNode("build", call.device, "node-again", "live-again")
  BY <1>5, ReadingTheNode
<1>6. CASE ReadsSameLive("build", call.device, "live-again", "sequence-again")
  BY <1>6, ReadingTheRecord DEF ReadsSameLive
<1>7. CASE ReadsSameSequence("build", call.sequence, "sequence-again", "mint")
  BY <1>7, ReadingTheSequence DEF ReadsSameSequence
<1>8. CASE MintsPlan("build", "mint")
  BY <1>8, MintingAPlan
<1> QED BY <1>1, <1>2, <1>3, <1>4, <1>5, <1>6, <1>7, <1>8 DEF BuildFastZeroPlan, ObserveSelected

\* Its phrase.
LEMMA ConfirmFastZeroKeeps == CallInv /\ kind = "fast-zero" /\ ConfirmFastZero => CallInv' /\ Kept
<1> SUFFICES ASSUME CallInv, kind = "fast-zero", ConfirmFastZero PROVE CallInv' /\ Kept
  OBVIOUS
<1> USE DEF Looked, CallSteps
<1>1. CASE \E p \in Slots : \E c \in EmptyConfirmations :
             FastZeroPlanReceipt(p) /\ Begins("confirm", "node", p, c, 1, plan[p].device)
  <2>1. PICK p \in Slots, c \in EmptyConfirmations :
               FastZeroPlanReceipt(p) /\ Begins("confirm", "node", p, c, 1, plan[p].device)
    BY <1>1
  <2>2. c \in Slots /\ conf[c].state = "none" /\ plan[p].device \in Records /\ 1 \in Slots /\ Authoritative(p)
    BY <2>1 DEF EmptyConfirmations, FirstEmpty, Used, Slots, CallInv, Typed, PlanSlot,
        FastZeroPlanReceipt
  <2> QED BY <2>1, <2>2, Beginning
<1>2. CASE ReadsNode("confirm", call.device, "node", "live")
  BY <1>2, ReadingTheNode
<1>3. CASE ReadsSameLive("confirm", call.device, "live", "sequence")
  BY <1>3, ReadingTheRecord DEF ReadsSameLive
<1>4. CASE ReadsSameSequence("confirm", plan[call.plan].sequence, "sequence", "mint")
  BY <1>4, ReadingTheSequence DEF ReadsSameSequence
<1>5. CASE MintsConfirmation("confirm", "mint")
  BY <1>5, MintingAConfirmation
<1> QED BY <1>1, <1>2, <1>3, <1>4, <1>5 DEF ConfirmFastZero, ObserveSelected

\* Its receipt.
LEMMA AuthorizeUnmountedFastZeroKeeps == CallInv /\ kind = "fast-zero" /\ AuthorizeUnmountedFastZero => CallInv' /\ Kept
<1> SUFFICES ASSUME CallInv, kind = "fast-zero", AuthorizeUnmountedFastZero PROVE CallInv' /\ Kept
  OBVIOUS
<1> USE DEF Looked, CallSteps
<1>1. CASE \E p, c \in Slots : \E r \in EmptyReadies :
             FastZeroConfirmationReceipt(p, c) /\ Begins("authorize", "live", p, c, r, plan[p].device)
  <2>1. PICK p \in Slots, c \in Slots, r \in EmptyReadies :
               FastZeroConfirmationReceipt(p, c) /\ Begins("authorize", "live", p, c, r, plan[p].device)
    BY <1>1
  <2>2. r \in Slots /\ plan[p].device \in Records /\ Authoritative(p) /\ ConfirmationFits(p, c)
    BY <2>1 DEF EmptyReadies, FirstEmpty, CallInv, Typed, PlanSlot,
        FastZeroConfirmationReceipt, FastZeroPlanReceipt
  <2> QED BY <2>1, <2>2, Beginning
<1>2. CASE PostUnmountMatches(plan[call.plan].device, Device(Shown)) /\ ReadsLive("authorize", "live", "sequence")
  BY <1>2, ReadingTheRecord
<1>3. CASE ReadsSameSequence("authorize", plan[call.plan].sequence, "sequence", "live-again")
  BY <1>3, ReadingTheSequence DEF ReadsSameSequence
<1>4. CASE PostUnmountMatches(plan[call.plan].device, Device(Shown)) /\ ReadsLive("authorize", "live-again", "sequence-again")
  BY <1>4, ReadingTheRecord
<1>5. CASE ReadsSameSequence("authorize", plan[call.plan].sequence, "sequence-again", "mint")
  BY <1>5, ReadingTheSequence DEF ReadsSameSequence
<1>6. CASE MintsReady("authorize", "mint")
  BY <1>6, MintingAReceipt
<1> QED BY <1>1, <1>2, <1>3, <1>4, <1>5, <1>6 DEF AuthorizeUnmountedFastZero, ObservePath

\* Its last look.
LEMMA ValidateReadyFastZeroKeeps == CallInv /\ kind = "fast-zero" /\ ValidateReadyFastZero => CallInv' /\ Kept
<1> SUFFICES ASSUME CallInv, kind = "fast-zero", ValidateReadyFastZero PROVE CallInv' /\ Kept
  OBVIOUS
<1> USE DEF Looked, CallSteps
<1>1. CASE \E p, c, r \in Slots :
             FastZeroConfirmationReceipt(p, c) /\ ReadyFits(p, c, r) /\ Begins("ready", "live", p, c, r, ready[r].device)
  <2>1. PICK p \in Slots, c \in Slots, r \in Slots :
               FastZeroConfirmationReceipt(p, c) /\ ReadyFits(p, c, r) /\ Begins("ready", "live", p, c, r, ready[r].device)
    BY <1>1
  <2>2. ready[r].device \in Records /\ Authoritative(p) /\ ConfirmationFits(p, c) /\ ReadyFits(p, c, r)
    BY <2>1 DEF CallInv, Typed, PlanSlot, ReadySlot, FastZeroConfirmationReceipt,
        FastZeroPlanReceipt
  <2> QED BY <2>1, <2>2, Beginning
<1>2. CASE PostUnmountMatches(plan[call.plan].device, Device(Shown)) /\ ReadsLive("ready", "live", "sequence")
  <2>1. ~mounted
    BY <1>2, UnmountedIsSeen DEF CallInv, Typed, PlanSlot, CallRecord
  <2> QED BY <1>2, <2>1, ReadingTheRecord
<1>3. CASE ReadsSameSequence("ready", plan[call.plan].sequence, "sequence", "launch")
  BY <1>3, ReadingTheSequence DEF ReadsSameSequence
<1>4. CASE Launches("ready", "launch")
  BY <1>4, Launching
<1> QED BY <1>1, <1>2, <1>3, <1>4 DEF ValidateReadyFastZero, ObservePath

\* The three calls of "zero and format".
LEMMA BuildRestorePlanKeeps == CallInv /\ kind = "restore" /\ BuildRestorePlan => CallInv' /\ Kept
<1> SUFFICES ASSUME CallInv, kind = "restore", BuildRestorePlan PROVE CallInv' /\ Kept
  OBVIOUS
<1> USE DEF Looked, CallSteps
<1>1. CASE \E p \in EmptyPlans : \E d \in Discovered :
             Unmounted(d) /\ Begins("build", "node", p, 1, 1, d)
  <2>1. PICK p \in EmptyPlans, d \in Discovered :
               Unmounted(d) /\ Begins("build", "node", p, 1, 1, d)
    BY <1>1
  <2>2. p \in Slots /\ plan[p].state = "none" /\ d \in Records /\ 1 \in Slots /\ ~d.mounted
    BY <2>1, DiscoveredIsTyped DEF EmptyPlans, FirstEmpty, Used, Slots, Unmounted
  <2> QED BY <2>1, <2>2, Beginning
<1>2. CASE ReadsNode("build", call.device, "node", "live")
  BY <1>2, ReadingTheNode
<1>3. CASE ReadsSameLive("build", call.device, "live", "sequence")
  BY <1>3, ReadingTheRecord DEF ReadsSameLive
<1>4. CASE ReadsSequence("build", "sequence", "mint")
  BY <1>4, ReadingTheSequence
<1>5. CASE MintsPlan("build", "mint")
  BY <1>5, MintingAPlan
<1> QED BY <1>1, <1>2, <1>3, <1>4, <1>5 DEF BuildRestorePlan, ObserveTarget

\* Its phrase.
LEMMA ConfirmRestoreKeeps == CallInv /\ kind = "restore" /\ ConfirmRestore => CallInv' /\ Kept
<1> SUFFICES ASSUME CallInv, kind = "restore", ConfirmRestore PROVE CallInv' /\ Kept
  OBVIOUS
<1> USE DEF Looked, CallSteps
<1>1. CASE \E p \in Slots : \E c \in EmptyConfirmations :
             ValidateRestorePlan(p) /\ Begins("confirm", "node", p, c, 1, plan[p].device)
  <2>1. PICK p \in Slots, c \in EmptyConfirmations :
               ValidateRestorePlan(p) /\ Begins("confirm", "node", p, c, 1, plan[p].device)
    BY <1>1
  <2>2. c \in Slots /\ conf[c].state = "none" /\ plan[p].device \in Records /\ 1 \in Slots /\ Authoritative(p)
    BY <2>1 DEF EmptyConfirmations, FirstEmpty, Used, Slots, CallInv, Typed, PlanSlot,
        ValidateRestorePlan
  <2> QED BY <2>1, <2>2, Beginning
<1>2. CASE ReadsNode("confirm", call.device, "node", "live")
  BY <1>2, ReadingTheNode
<1>3. CASE ReadsSameLive("confirm", call.device, "live", "sequence")
  BY <1>3, ReadingTheRecord DEF ReadsSameLive
<1>4. CASE ReadsSameSequence("confirm", plan[call.plan].sequence, "sequence", "mint")
  BY <1>4, ReadingTheSequence DEF ReadsSameSequence
<1>5. CASE MintsConfirmation("confirm", "mint")
  BY <1>5, MintingAConfirmation
<1> QED BY <1>1, <1>2, <1>3, <1>4, <1>5 DEF ConfirmRestore, ObserveTarget

\* Its last look, at COMMIT.
LEMMA ConfirmRestoreCommitKeeps == CallInv /\ kind = "restore" /\ ConfirmRestoreCommit => CallInv' /\ Kept
<1> SUFFICES ASSUME CallInv, kind = "restore", ConfirmRestoreCommit PROVE CallInv' /\ Kept
  OBVIOUS
<1> USE DEF Looked, CallSteps
<1>1. CASE \E p, c \in Slots :
             ValidateConfirmedRestore(p, c) /\ Begins("ready", "node", p, c, 1, plan[p].device)
  <2>1. PICK p \in Slots, c \in Slots :
               ValidateConfirmedRestore(p, c) /\ Begins("ready", "node", p, c, 1, plan[p].device)
    BY <1>1
  <2>2. plan[p].device \in Records /\ 1 \in Slots /\ Authoritative(p) /\ ConfirmationFits(p, c) /\ ~plan[p].device.mounted
    BY <2>1 DEF Slots, CallInv, Typed, PlanSlot, Receipts, Authoritative,
        ValidateConfirmedRestore, ValidateRestorePlan
  <2> QED BY <2>1, <2>2, Beginning
<1>2. CASE ReadsNode("ready", call.device, "node", "live")
  BY <1>2, ReadingTheNode
<1>3. CASE ReadsSameLive("ready", call.device, "live", "sequence")
  <2>1. call.device \in Records /\ mounted \in BOOLEAN
    BY DEF CallInv, Typed, CallRecord
  <2>2. ~call.device.mounted
    BY <1>3 DEF ReadsSameLive, ReadsLive, In, CallInv, Given
  <2>3. ~mounted
    BY <1>3, <2>1, <2>2, UnmountedIsSeen DEF ReadsSameLive
  <2> QED BY <1>3, <2>3, ReadingTheRecord DEF ReadsSameLive
<1>4. CASE ReadsSameSequence("ready", plan[call.plan].sequence, "sequence", "launch")
  BY <1>4, ReadingTheSequence DEF ReadsSameSequence
<1>5. CASE Launches("ready", "launch")
  BY <1>5, Launching
<1> QED BY <1>1, <1>2, <1>3, <1>4, <1>5 DEF ConfirmRestoreCommit, ObserveTarget

\* All calls.
LEMMA CallsKeep == CallInv /\ Calls => CallInv' /\ Kept
<1> SUFFICES ASSUME CallInv, Calls PROVE CallInv' /\ Kept
  OBVIOUS
<1>1. CASE kind \notin {"fast-zero", "restore"} /\ (BuildPlan \/ Confirm \/ AuthorizeUnmounted \/ ValidateReady)
  BY <1>1, BuildPlanKeeps, ConfirmKeeps, AuthorizeUnmountedKeeps, ValidateReadyKeeps
<1>2. CASE kind = "fast-zero" /\ FastZeroCalls
  BY <1>2, BuildFastZeroPlanKeeps, ConfirmFastZeroKeeps, AuthorizeUnmountedFastZeroKeeps,
     ValidateReadyFastZeroKeeps DEF FastZeroCalls
<1>3. CASE kind = "restore" /\ RestoreCalls
  BY <1>3, BuildRestorePlanKeeps, ConfirmRestoreKeeps, ConfirmRestoreCommitKeeps DEF RestoreCalls
<1> QED BY <1>1, <1>2, <1>3
    DEF Calls, RawCalls, SyslinuxCalls, BuildSyslinuxPlan, ConfirmSyslinux, AuthorizeUnmountedSyslinux,
        ValidateReadySyslinux, GrubCalls, BuildGrubPlan, ConfirmGrub, AuthorizeUnmountedGrub,
        ValidateReadyGrub, WindowsCalls, BuildWindowsPlan, ConfirmWindows, AuthorizeUnmountedWindows,
        ValidateReadyWindows

\* A call that fails mints nothing.
LEMMA RaisesKeeps == CallInv /\ Raises => CallInv' /\ Kept
<1> SUFFICES ASSUME CallInv, Raises PROVE CallInv' /\ Kept
  OBVIOUS
<1>1. call' = NoCall /\ call.name # "none" /\ UNCHANGED <<world, receipts, launch>>
  BY DEF Raises
<1>2. call'.name = "none" /\ call'.sequence = 0
  BY <1>1 DEF NoCall
<1>3. Typed'
  BY <1>1, NoCallIsTyped DEF CallInv, Typed, world, receipts
<1>4. Receipts' /\ LaunchIsBound'
  BY <1>1 DEF CallInv, Receipts, LaunchIsBound, world, receipts
<1>5. Given' /\ Seen' /\ Compared'
  BY <1>2, <1>3 DEF Given, Seen, Compared, Typed, Generations
<1>6. Kept
  BY <1>1 DEF Kept, receipts
<1> QED BY <1>3, <1>4, <1>5, <1>6 DEF CallInv

-----------------------------------------------------------------------------
(* The environment. *)

\* A copy of a receipt counts for nothing.
LEMMA ClonedKeeps == CallInv /\ Cloned => CallInv' /\ Kept
<1> SUFFICES ASSUME CallInv, Cloned PROVE CallInv' /\ Kept
  OBVIOUS
<1>1. call.name = "none" /\ ~launch.done /\ UNCHANGED <<world, call, launch>>
  BY DEF Cloned
<1>2. /\ plan' = plan \/ (plan[2].state = "none" /\ plan' = [plan EXCEPT ![2] = [plan[1] EXCEPT !.state = "clone"]])
      /\ conf' = conf \/ (conf[2].state = "none" /\ conf' = [conf EXCEPT ![2] = [conf[1] EXCEPT !.state = "clone"]])
      /\ ready' = ready \/ (ready[2].state = "none" /\ ready' = [ready EXCEPT ![2] = [ready[1] EXCEPT !.state = "clone"]])
  BY DEF Cloned
<1>3. plan' \in [Slots -> PlanSlot] /\ conf' \in [Slots -> ConfirmationSlot] /\ ready' \in [Slots -> ReadySlot]
  <2>1. plan' \in [Slots -> PlanSlot]
    BY <1>2 DEF CallInv, Typed, PlanSlot, States, Slots
  <2>2. conf' \in [Slots -> ConfirmationSlot]
    BY <1>2 DEF CallInv, Typed, ConfirmationSlot, States, Slots
  <2>3. ready' \in [Slots -> ReadySlot]
    BY <1>2 DEF CallInv, Typed, ReadySlot, States, Slots
  <2> QED BY <2>1, <2>2, <2>3
<1>4. Typed'
  BY <1>1, <1>3 DEF CallInv, Typed, world
<1>5. Kept
  BY <1>1, <1>2 DEF CallInv, Typed, Slots, Kept
<1>6. \A s \in Slots : /\ plan'[s].sequence \in {plan[1].sequence, plan[s].sequence}
                       /\ plan'[s].state = "minted" => plan'[s] = plan[s]
                       /\ conf'[s].state = "minted" => conf'[s] = conf[s]
  BY <1>2 DEF CallInv, Typed, PlanSlot, ConfirmationSlot, Slots
<1>7. Receipts'
  BY <1>1, <1>5, <1>6 DEF CallInv, Typed, ConfirmationSlot, Slots, Receipts, Kept, world
<1>8. Given' /\ Seen' /\ Compared'
  BY <1>1 DEF CallInv, Given, Seen, Compared, world
<1>9. LaunchIsBound'
  BY <1>1 DEF LaunchIsBound
<1> QED BY <1>4, <1>5, <1>7, <1>8, <1>9 DEF CallInv

\* The input is no part of the binding.
LEMMA InputChangesKeeps == CallInv /\ InputChanges => CallInv' /\ UNCHANGED <<kind, drive, seq, mounted, receipts, launch>>
<1> SUFFICES ASSUME CallInv, InputChanges PROVE CallInv' /\ UNCHANGED <<kind, drive, seq, mounted, receipts, launch>>
  OBVIOUS
<1>1. input' = "changed" /\ UNCHANGED <<kind, drive, seq, mounted, receipts, call, launch>>
  BY DEF InputChanges
<1>2. Typed' /\ Receipts' /\ LaunchIsBound'
  BY <1>1 DEF CallInv, Typed, Receipts, LaunchIsBound, receipts
<1>3. Given' /\ Seen' /\ Compared'
  BY <1>1 DEF CallInv, Given, Seen, Compared, Authoritative, ConfirmationFits, ReadyFits, receipts
<1> QED BY <1>1, <1>2, <1>3 DEF CallInv

\* A mount is seen by the next look only.
LEMMA MountChangesKeeps == CallInv /\ MountChanges => CallInv' /\ UNCHANGED <<kind, drive, seq, input, receipts, launch>>
<1> SUFFICES ASSUME CallInv, MountChanges PROVE CallInv' /\ UNCHANGED <<kind, drive, seq, input, receipts, launch>>
  OBVIOUS
<1>1. mounted' = ~mounted /\ UNCHANGED <<kind, drive, seq, input, receipts, call, launch>>
  BY DEF MountChanges
<1>2. mounted' \in BOOLEAN
  BY <1>1 DEF CallInv, Typed
<1>3. Typed'
  BY <1>1, <1>2 DEF CallInv, Typed, receipts
<1>4. Receipts' /\ LaunchIsBound'
  BY <1>1 DEF CallInv, Receipts, LaunchIsBound, receipts
<1>5. Given' /\ Seen' /\ Compared'
  BY <1>1 DEF CallInv, Given, Seen, Compared, Authoritative, ConfirmationFits, ReadyFits, receipts
<1> QED BY <1>1, <1>3, <1>4, <1>5 DEF CallInv

\* Another drive has a greater sequence than all that was read.
LEMMA ExchangedKeeps == CallInv /\ Exchanged => CallInv' /\ UNCHANGED <<kind, drive, input, receipts, launch>>
<1> SUFFICES ASSUME CallInv, Exchanged PROVE CallInv' /\ UNCHANGED <<kind, drive, input, receipts, launch>>
  OBVIOUS
<1>1. seq < MaxGeneration /\ seq' = seq + 1 /\ mounted' = FALSE /\ UNCHANGED <<kind, drive, input, receipts, call, launch>>
  BY DEF Exchanged
<1>2. seq \in Nat /\ seq' \in Generations
  BY <1>1, AuthorizationAssumption DEF CallInv, Typed, Generations
<1>3. Typed'
  BY <1>1, <1>2 DEF CallInv, Typed, receipts
<1>4. Receipts'
  BY <1>1, <1>2 DEF CallInv, Typed, PlanSlot, Receipts, receipts
<1>5. LaunchIsBound'
  BY <1>1 DEF CallInv, LaunchIsBound, receipts
<1>6. Given' /\ Seen' /\ Compared'
  BY <1>1, <1>2 DEF CallInv, Typed, CallRecord, Generations, Given, Seen, Compared,
      Authoritative, ConfirmationFits, ReadyFits, receipts
<1> QED BY <1>1, <1>3, <1>4, <1>5, <1>6 DEF CallInv

-----------------------------------------------------------------------------
(* The helper. *)

\* Whatever else happens does not touch what the helper goes by.
LEMMA HelperIsLeftAlone ==
  ASSUME CallInv, HelperInv, UNCHANGED <<kind, drive, helper>>,
         \A s \in Slots : /\ plan[s].state = "minted" => plan'[s] = plan[s]
                          /\ conf[s].state = "minted" => conf'[s] = conf[s],
         launch.done => launch' = launch,
         ClaimedIsUnmounted'
  PROVE  HelperInv'
<1>1. HelperTyped' /\ Program'
  BY DEF HelperInv, HelperTyped, Program, TrustedFile, TrustedParents
<1>2. helper.plan \in Slots /\ helper.conf \in Slots
  BY DEF HelperInv, HelperTyped, HelperRecord
<1>3. helper.step \notin Off => plan'[helper.plan] = plan[helper.plan] /\ conf'[helper.conf] = conf[helper.conf]
  BY <1>2 DEF HelperInv, Bound, Authoritative, ConfirmationFits
<1>4. Bound'
  BY <1>3 DEF HelperInv, Bound, Authoritative, ConfirmationFits, Sourced, Unlaunched,
      Requested, Before, Closed,
              Unidentified, Uncommitted, Off
<1> QED BY <1>1, <1>4 DEF HelperInv

\* The program and the environment, while the helper does nothing.
LEMMA AuthorizesKeeps == CallInv /\ HelperInv /\ Authorizes => CallInv' /\ HelperInv'
<1> SUFFICES ASSUME CallInv, HelperInv, Authorizes PROVE CallInv' /\ HelperInv'
  OBVIOUS
<1>1. UNCHANGED helper
  BY DEF Authorizes
<1>2. CASE Calls \/ Raises \/ Cloned
  <2>1. CallInv' /\ Kept
    BY <1>2, CallsKeep, RaisesKeeps, ClonedKeeps
  <2>2. ClaimedIsUnmounted'
    BY <1>1, <2>1 DEF HelperInv, ClaimedIsUnmounted, Claimed, Kept, world
  <2>3. UNCHANGED <<kind, drive>>
    BY <2>1 DEF Kept, world
  <2> QED BY <1>1, <2>1, <2>2, <2>3, HelperIsLeftAlone DEF Kept
<1>3. CASE Exchanged
  <2>1. CallInv' /\ UNCHANGED <<kind, drive, input, receipts, launch>>
    BY <1>3, ExchangedKeeps
  <2>2. ClaimedIsUnmounted'
    BY <1>3 DEF ClaimedIsUnmounted, Exchanged
  <2> QED BY <1>1, <2>1, <2>2, HelperIsLeftAlone DEF receipts
<1>4. CASE InputChanges
  <2>1. CallInv' /\ UNCHANGED <<kind, drive, seq, mounted, receipts, launch>>
    BY <1>4, InputChangesKeeps
  <2>2. ClaimedIsUnmounted'
    BY <1>1, <2>1 DEF HelperInv, ClaimedIsUnmounted, Claimed
  <2> QED BY <1>1, <2>1, <2>2, HelperIsLeftAlone DEF receipts
<1>5. CASE ~Claimed /\ MountChanges
  <2>1. CallInv' /\ UNCHANGED <<kind, drive, seq, input, receipts, launch>>
    BY <1>5, MountChangesKeeps
  <2>2. ClaimedIsUnmounted'
    BY <1>1, <1>5, <2>1 DEF ClaimedIsUnmounted, Claimed
  <2> QED BY <1>1, <2>1, <2>2, HelperIsLeftAlone DEF receipts
<1> QED BY <1>2, <1>3, <1>4, <1>5 DEF Authorizes

\* The helper touches no receipt.
LEMMA NothingChanges == CallInv /\ UNCHANGED authorizationVars => CallInv'
<1> SUFFICES ASSUME CallInv, UNCHANGED authorizationVars PROVE CallInv'
  OBVIOUS
<1> USE DEF authorizationVars, world, receipts
<1>1. Typed' /\ Receipts' /\ LaunchIsBound'
  BY DEF CallInv, Typed, Receipts, LaunchIsBound
<1>2. Given' /\ Seen' /\ Compared'
  BY DEF CallInv, Given, Seen, Compared, Authoritative, ConfirmationFits, ReadyFits
<1> QED BY <1>1, <1>2 DEF CallInv

\* A step of the helper that leaves all but its place alone.
LEMMA Going ==
  ASSUME NEW from \in HelperSteps \ Off, NEW to \in HelperSteps \ Off,
         from \in Requested => to \in Requested,
         from \in Closed => to \in Closed,
         from \in Unidentified => to \in Unidentified \/ helper.fd = helper.request.sequence,
         from \in Before => to \in Before
           \/ (Sourced => helper.request.sequence \in Generations /\ ~drive[helper.request.sequence].home),
         from \in Unlaunched => to \in Unlaunched \/ (launch.done /\ launch.plan = helper.plan),
         from = "files" => to = "files" \/ TrustedFile,
         from \in Untrusted => to \in Untrusted \/ TrustedParents,
         CallInv, HelperInv, Goes(from, to)
  PROVE  CallInv' /\ HelperInv'
<1> USE DEF Off
<1>1. helper.step = from /\ helper' = [helper EXCEPT !.step = to] /\ UNCHANGED authorizationVars
  BY DEF Goes, Becomes
<1>2. helper' \in HelperRecord
  BY <1>1 DEF HelperInv, HelperTyped, HelperRecord
<1>3. /\ helper'.step = to /\ helper'.plan = helper.plan /\ helper'.conf = helper.conf
      /\ helper'.request = helper.request /\ helper'.fd = helper.fd /\ helper'.exclusive = helper.exclusive
      /\ helper'.host = helper.host
  BY <1>1 DEF HelperInv, HelperTyped, HelperRecord
<1>4. UNCHANGED <<kind, drive, seq, mounted, plan, conf, launch>>
  BY <1>1 DEF authorizationVars, world, receipts
<1>5. Bound'
  BY <1>1, <1>3, <1>4 DEF HelperInv, Bound, Authoritative, ConfirmationFits, Sourced, Unlaunched
<1>6. ClaimedIsUnmounted' /\ Program'
  BY <1>1, <1>3, <1>4 DEF HelperInv, ClaimedIsUnmounted, Claimed, Program, TrustedFile, TrustedParents
<1>7. CallInv'
  BY <1>1, NothingChanges
<1> QED BY <1>2, <1>5, <1>6, <1>7 DEF HelperInv, HelperTyped

\* The steps whose effect is more than that.
LEMMA RunsKeeps == CallInv /\ HelperInv /\ Runs("files") => CallInv' /\ HelperInv'
<1> SUFFICES ASSUME CallInv, HelperInv, Runs("files") PROVE CallInv' /\ HelperInv'
  OBVIOUS
<1>1. PICK p \in Slots, c \in Slots, host \in Hosts :
        /\ Authoritative(p) /\ ConfirmationFits(p, c)
        /\ Becomes("off", "files", [helper EXCEPT !.plan = p, !.conf = c, !.host = host])
  BY DEF Runs
<1>2. /\ helper' = [[helper EXCEPT !.plan = p, !.conf = c, !.host = host] EXCEPT !.step = "files"]
      /\ helper.step = "off" /\ UNCHANGED authorizationVars
  BY <1>1 DEF Becomes
<1>3. /\ host \in [file : {"root", "user"}, parents : {"root", "user"}, policy : {"narrow", "broad"},
                   program : {"package", "other"}]
      /\ host.program = "package"
  BY DEF Hosts, Host
<1>4. helper' \in HelperRecord
  BY <1>2, <1>3 DEF HelperInv, HelperTyped, HelperRecord, HelperSteps, Off, Installed,
      Untrusted, Requested, Before, Closed, Unidentified, Uncommitted, Unlaunched
<1>5. /\ helper'.step = "files" /\ helper'.plan = p /\ helper'.conf = c /\ helper'.fd = helper.fd
      /\ helper'.exclusive = helper.exclusive /\ helper'.host = host
  BY <1>2 DEF HelperInv, HelperTyped, HelperRecord
<1>6. UNCHANGED <<kind, drive, seq, mounted, plan, conf, launch>>
  BY <1>2 DEF authorizationVars, world, receipts
<1>7. Bound'
  BY <1>1, <1>5, <1>6 DEF Bound, Authoritative, ConfirmationFits, HelperSteps, Off, Installed,
      Untrusted, Requested, Before, Closed, Unidentified, Uncommitted, Unlaunched
<1>8. ClaimedIsUnmounted' /\ Program'
  BY <1>3, <1>5, <1>6 DEF HelperInv, ClaimedIsUnmounted, Claimed, Program, Untrusted
<1>9. CallInv'
  BY <1>2, NothingChanges
<1> QED BY <1>4, <1>7, <1>8, <1>9 DEF HelperInv, HelperTyped

\* The request says what the plan says of the drive.
LEMMA StartingKeeps ==
  ASSUME kind # "restore" => launch.done /\ launch.plan = helper.plan, CallInv, HelperInv,
         Becomes("start", "main", [helper EXCEPT !.request = DeviceRequest(helper.plan)])
  PROVE  CallInv' /\ HelperInv'
<1>1. /\ helper' = [[helper EXCEPT !.request = DeviceRequest(helper.plan)] EXCEPT !.step = "main"]
      /\ helper.step = "start" /\ UNCHANGED authorizationVars
  BY DEF Becomes
<1>2. helper.plan \in Slots /\ DeviceRequest(helper.plan) \in [number : Numbers, sequence : Nat]
  BY DEF HelperInv, HelperTyped, HelperRecord, DeviceRequest, CallInv, Typed, PlanSlot, Records
<1>3. DeviceRequest(helper.plan).sequence = plan[helper.plan].sequence
  BY DEF DeviceRequest
<1>4. helper' \in HelperRecord
  BY <1>1, <1>2 DEF HelperInv, HelperTyped, HelperRecord, HelperSteps, Off, Installed,
      Untrusted, Requested, Before, Closed, Unidentified, Uncommitted, Unlaunched
<1>5. /\ helper'.step = "main" /\ helper'.plan = helper.plan /\ helper'.conf = helper.conf
      /\ helper'.request = DeviceRequest(helper.plan) /\ helper'.fd = helper.fd
      /\ helper'.exclusive = helper.exclusive /\ helper'.host = helper.host
  BY <1>1 DEF HelperInv, HelperTyped, HelperRecord
<1>6. UNCHANGED <<kind, drive, seq, mounted, plan, conf, launch>>
  BY <1>1 DEF authorizationVars, world, receipts
<1>7. Bound'
  BY <1>1, <1>3, <1>5, <1>6 DEF HelperInv, Bound, Authoritative, ConfirmationFits,
      HelperSteps, Off, Installed, Untrusted, Requested, Before, Closed, Unidentified,
      Uncommitted, Unlaunched
<1>8. ClaimedIsUnmounted' /\ Program'
  BY <1>1, <1>5, <1>6 DEF HelperInv, ClaimedIsUnmounted, Claimed, Program, TrustedFile,
      TrustedParents, HelperSteps, Off, Installed, Untrusted, Requested, Before, Closed,
      Unidentified, Uncommitted, Unlaunched
<1>9. CallInv'
  BY <1>1, NothingChanges
<1> QED BY <1>4, <1>7, <1>8, <1>9 DEF HelperInv, HelperTyped

\* The drive that has the path is claimed; nobody has mounted it.
LEMMA OpeningKeeps == CallInv /\ HelperInv /\ OpenExclusively => CallInv' /\ HelperInv'
<1> SUFFICES ASSUME CallInv, HelperInv, OpenExclusively PROVE CallInv' /\ HelperInv'
  OBVIOUS
<1>1. /\ helper' = [[helper EXCEPT !.fd = seq, !.exclusive = TRUE] EXCEPT !.step = "identity"]
      /\ helper.step = "open" /\ ~mounted /\ UNCHANGED authorizationVars
  BY DEF OpenExclusively, Becomes
<1>2. seq \in Nat
  BY ShownIsTyped DEF CallInv
<1>3. helper' \in HelperRecord
  BY <1>1, <1>2 DEF HelperInv, HelperTyped, HelperRecord, HelperSteps, Off, Installed,
      Untrusted, Requested, Before, Closed, Unidentified, Uncommitted, Unlaunched
<1>4. /\ helper'.step = "identity" /\ helper'.plan = helper.plan /\ helper'.conf = helper.conf
      /\ helper'.request = helper.request /\ helper'.exclusive /\ helper'.host = helper.host
  BY <1>1 DEF HelperInv, HelperTyped, HelperRecord
<1>5. UNCHANGED <<kind, drive, seq, mounted, plan, conf, launch>>
  BY <1>1 DEF authorizationVars, world, receipts
<1>6. Bound'
  BY <1>1, <1>4, <1>5 DEF HelperInv, Bound, Authoritative, ConfirmationFits, Sourced,
      HelperSteps, Off, Installed, Untrusted, Requested, Before, Closed, Unidentified,
      Uncommitted, Unlaunched
<1>7. ClaimedIsUnmounted' /\ Program'
  BY <1>1, <1>4, <1>5 DEF HelperInv, ClaimedIsUnmounted, Claimed, Program, TrustedFile,
      TrustedParents, HelperSteps, Off, Installed, Untrusted, Requested, Before, Closed,
      Unidentified, Uncommitted, Unlaunched
<1>8. CallInv'
  BY <1>1, NothingChanges
<1> QED BY <1>3, <1>6, <1>7, <1>8 DEF HelperInv, HelperTyped

\* What was refused is closed, and forgotten.
LEMMA RefusingKeeps ==
  ASSUME NEW plain \in BOOLEAN, NEW misjudged \in BOOLEAN, CallInv, Refused(plain, misjudged)
  PROVE  CallInv' /\ HelperInv'
<1>1. /\ helper' = [NoHelper EXCEPT !.step = "refused", !.plain = plain, !.misjudged = misjudged]
      /\ UNCHANGED authorizationVars
  BY DEF Refused
<1>2. helper' \in HelperRecord
  BY <1>1 DEF NoHelper, Host, Slots, HelperRecord, Numbers, HelperSteps, Off, Installed,
      Untrusted, Requested, Before, Closed, Unidentified, Uncommitted, Unlaunched
<1>3. helper'.step = "refused" /\ helper'.fd = 0 /\ ~helper'.exclusive /\ helper'.host.program = "package"
  BY <1>1 DEF NoHelper, Host
<1>4. Bound'
  BY <1>3 DEF Bound, Off, Installed, Requested, Before, Closed, Unidentified, Uncommitted, Unlaunched
<1>5. ClaimedIsUnmounted' /\ Program'
  BY <1>3 DEF ClaimedIsUnmounted, Claimed, Program, Untrusted
<1>6. CallInv'
  BY <1>1, NothingChanges
<1> QED BY <1>2, <1>4, <1>5, <1>6 DEF HelperInv, HelperTyped

\* A program is replaced only where somebody else may write.
LEMMA ProgramReplacedKeeps == CallInv /\ HelperInv /\ ProgramReplaced => CallInv' /\ HelperInv'
<1> SUFFICES ASSUME CallInv, HelperInv, ProgramReplaced PROVE CallInv' /\ HelperInv'
  OBVIOUS
<1>1. /\ helper.host.file = "user" \/ helper.host.parents = "user"
      /\ helper' = [helper EXCEPT !.host.program = "other"] /\ UNCHANGED authorizationVars
  BY DEF ProgramReplaced
<1>2. helper' \in HelperRecord
  BY <1>1 DEF HelperInv, HelperTyped, HelperRecord
<1>3. /\ helper'.step = helper.step /\ helper'.plan = helper.plan /\ helper'.conf = helper.conf
      /\ helper'.request = helper.request /\ helper'.fd = helper.fd /\ helper'.exclusive = helper.exclusive
      /\ helper'.host.file = helper.host.file /\ helper'.host.parents = helper.host.parents
  BY <1>1 DEF HelperInv, HelperTyped, HelperRecord
<1>4. UNCHANGED <<kind, drive, seq, mounted, plan, conf, launch>>
  BY <1>1 DEF authorizationVars, world, receipts
<1>5. Bound'
  BY <1>3, <1>4 DEF HelperInv, Bound, Authoritative, ConfirmationFits, Sourced, Unlaunched
<1>6. ClaimedIsUnmounted' /\ Program'
  BY <1>1, <1>3, <1>4 DEF HelperInv, ClaimedIsUnmounted, Claimed, Program, TrustedFile, TrustedParents
<1>7. CallInv'
  BY <1>1, NothingChanges
<1> QED BY <1>2, <1>5, <1>6, <1>7 DEF HelperInv, HelperTyped

\* The look at the installation.
LEMMA ResolvingKeeps ==
  ASSUME NEW to \in {"image", "start"}, CallInv, HelperInv, ResolveHelperInstallation(to)
  PROVE  CallInv' /\ HelperInv'
<1> USE DEF HelperSteps, Off, Installed, Untrusted, Requested, Before, Closed, Unidentified, Uncommitted, Unlaunched
<1>1. CASE TrustedFile /\ Looks("files", "parents")
  BY <1>1, Going DEF Looks
<1>2. CASE TrustedParents /\ Looks("parents", "policy")
  BY <1>2, Going DEF Looks
<1>3. CASE ValidatePolicy /\ Looks("policy", to)
  BY <1>3, Going DEF Looks
<1> QED BY <1>1, <1>2, <1>3 DEF ResolveHelperInstallation

\* The look at the layout of the image.
LEMMA ImageLayoutKeeps == CallInv /\ HelperInv /\ ImageLayout => CallInv' /\ HelperInv'
<1> SUFFICES ASSUME CallInv, HelperInv, ImageLayout PROVE CallInv' /\ HelperInv'
  OBVIOUS
<1>1. PICK image \in helper.images :
        \/ image.laid /\ Becomes("layout", "hash", [helper EXCEPT !.plain = image.plain])
        \/ ~image.laid /\ Refused(image.plain, input = "bound")
  BY DEF ImageLayout
<1>2. image.plain \in BOOLEAN /\ (input = "bound") \in BOOLEAN
  BY DEF HelperInv, HelperTyped, HelperRecord, Layouts
<1>3. CASE Becomes("layout", "hash", [helper EXCEPT !.plain = image.plain])
  <2>1. /\ helper' = [[helper EXCEPT !.plain = image.plain] EXCEPT !.step = "hash"]
        /\ helper.step = "layout" /\ UNCHANGED authorizationVars
    BY <1>3 DEF Becomes
  <2>2. helper' \in HelperRecord
    BY <2>1, <1>2 DEF HelperInv, HelperTyped, HelperRecord, HelperSteps, Off, Installed,
        Untrusted, Requested, Before, Closed, Unidentified, Uncommitted, Unlaunched
  <2>3. /\ helper'.step = "hash" /\ helper'.plan = helper.plan /\ helper'.conf = helper.conf
        /\ helper'.request = helper.request /\ helper'.fd = helper.fd
        /\ helper'.exclusive = helper.exclusive /\ helper'.host = helper.host
    BY <2>1 DEF HelperInv, HelperTyped, HelperRecord
  <2>4. UNCHANGED <<kind, drive, seq, mounted, plan, conf, launch>>
    BY <2>1 DEF authorizationVars, world, receipts
  <2>5. Bound'
    BY <2>1, <2>3, <2>4 DEF HelperInv, Bound, Authoritative, ConfirmationFits, Off, Installed,
        Untrusted, Requested, Before, Closed, Unidentified, Uncommitted, Unlaunched
  <2>6. ClaimedIsUnmounted' /\ Program'
    BY <2>1, <2>3, <2>4 DEF HelperInv, ClaimedIsUnmounted, Claimed, Program, TrustedFile, TrustedParents, Untrusted
  <2>7. CallInv'
    BY <2>1, NothingChanges
  <2> QED BY <2>2, <2>5, <2>6, <2>7 DEF HelperInv, HelperTyped
<1>4. CASE Refused(image.plain, input = "bound")
  BY <1>2, <1>4, RefusingKeeps
<1> QED BY <1>1, <1>3, <1>4

\* The looks at the target, before and after it is open.
LEMMA LooksAtTheTargetKeep ==
  ASSUME CallInv, HelperInv, kind # "restore",
         \/ NodeIsTarget("node", "observe") \/ Observed("observe", "active") \/ Inactive("active", "open")
         \/ OpenedIdentity("identity", "observe-opened")
         \/ Observed("observe-opened", "active-opened") \/ Inactive("active-opened", "node-opened")
         \/ NodeIsTarget("node-opened", "source-opened") \/ SourceUnchanged("source-opened", "prepared")
         \/ Commit
         \/ OpenedIdentity("committed", "node-committed") \/ NodeIsTarget("node-committed", "observe-committed")
         \/ Observed("observe-committed", "active-committed")
         \/ Inactive("active-committed", "source-committed")
         \/ SourceUnchanged("source-committed", "writing")
  PROVE  CallInv' /\ HelperInv'
<1> USE DEF HelperSteps, Off, Installed, Untrusted, Requested, Before, Closed, Unidentified, Uncommitted, Unlaunched
<1>1. CASE Observed("observe", "active")
  <2>1. Sourced => helper.request.sequence \in Generations /\ ~drive[helper.request.sequence].home
    BY <1>1 DEF Observed, CallInv, Typed
  <2> QED BY <1>1, <2>1, Going DEF Observed
<1>2. CASE OpenedIdentity("identity", "observe-opened")
  <2>1. helper.fd = helper.request.sequence
    BY <1>2 DEF OpenedIdentity
  <2> QED BY <1>2, <2>1, Going DEF OpenedIdentity
<1>3. CASE NodeIsTarget("node", "observe") \/ Inactive("active", "open")
  BY <1>3, Going DEF NodeIsTarget, Inactive
<1>4. CASE \/ Observed("observe-opened", "active-opened") \/ Inactive("active-opened", "node-opened")
           \/ NodeIsTarget("node-opened", "source-opened") \/ SourceUnchanged("source-opened", "prepared")
           \/ Commit
  BY <1>4, Going DEF Observed, NodeIsTarget, Inactive, SourceUnchanged, Commit
<1>5. CASE \/ OpenedIdentity("committed", "node-committed") \/ NodeIsTarget("node-committed", "observe-committed")
           \/ Observed("observe-committed", "active-committed")
           \/ Inactive("active-committed", "source-committed")
           \/ SourceUnchanged("source-committed", "writing")
  BY <1>5, Going DEF OpenedIdentity, Observed, NodeIsTarget, Inactive, SourceUnchanged
<1> QED BY <1>1, <1>2, <1>3, <1>4, <1>5

\* The helper of the five that hand a descriptor or nothing over.
LEMMA DeviceHelperEntersKeeps ==
  CallInv /\ HelperInv /\ kind # "restore" /\ DeviceHelperEnters => CallInv' /\ HelperInv'
<1> SUFFICES ASSUME CallInv, HelperInv, kind # "restore", DeviceHelperEnters PROVE CallInv' /\ HelperInv'
  OBVIOUS
<1>1. CASE Runs("files")
  BY <1>1, RunsKeeps
<1>2. CASE RunRaw \/ RunSyslinux \/ RunGrubRescue \/ RunWindows \/ ResolveFastZeroHelper
  <2>1. CASE ResolveHelperInstallation("image") \/ ResolveHelperInstallation("start")
    BY <2>1, ResolvingKeeps
  <2>2. CASE Goes("image", "start")
    BY <2>2, Going DEF HelperSteps, Off, Installed, Untrusted, Requested, Before, Closed,
        Unidentified, Uncommitted, Unlaunched
  <2> QED BY <1>2, <2>1, <2>2
      DEF RunRaw, RunSyslinux, RunGrubRescue, RunWindows, ResolveFastZeroHelper, ResolveRawHelper,
          ResolveSyslinuxHelper, ResolveGrubRescueHelper, ResolveWindowsHelper, ValidatePrepared,
          ValidatePreparedSyslinux, ValidatePreparedGrubRescue, ValidatePreparedWindows, Looks
<1>3. CASE DeviceHelperStarts
  BY <1>3, StartingKeeps DEF DeviceHelperStarts
<1>4. CASE HardenProcess \/ ReceiveRequest \/ ReceiveTargetOnlyRequest
  BY <1>4, Going DEF HardenProcess, ReceiveRequest, ReceiveTargetOnlyRequest, HelperSteps,
      Off, Installed, Untrusted, Requested, Before, Closed, Unidentified, Uncommitted,
      Unlaunched
<1>5. CASE \/ UnpackHelperRequest \/ UnpackWindowsHelperRequest \/ UnpackGrubRescueHelperRequest
           \/ UnpackRawHelperRequest \/ UnpackFastZeroHelperRequest
  BY <1>5, Going DEF UnpackHelperRequest, UnpackWindowsHelperRequest,
      UnpackGrubRescueHelperRequest, UnpackRawHelperRequest, UnpackFastZeroHelperRequest,
      Unpacks, HelperSteps, Off, Installed, Untrusted, Requested, Before, Closed,
      Unidentified, Uncommitted, Unlaunched
<1>6. CASE SourceStatus \/ SourceHash
  BY <1>6, Going DEF SourceStatus, SourceHash, HelperSteps, Off, Installed, Untrusted,
      Requested, Before, Closed, Unidentified, Uncommitted, Unlaunched
<1>7. CASE ImageLayout
  BY <1>7, ImageLayoutKeeps
<1>8. CASE OpenExclusively
  BY <1>8, OpeningKeeps
<1> QED BY <1>1, <1>2, <1>3, <1>4, <1>5, <1>6, <1>7, <1>8, LooksAtTheTargetKeep DEF DeviceHelperEnters

\* The helper of a restore.
LEMMA RestoreHelperEntersKeeps ==
  CallInv /\ HelperInv /\ kind = "restore" /\ RestoreHelperEnters => CallInv' /\ HelperInv'
<1> SUFFICES ASSUME CallInv, HelperInv, kind = "restore", RestoreHelperEnters PROVE CallInv' /\ HelperInv'
  OBVIOUS
<1> USE DEF HelperSteps, Off, Installed, Untrusted, Requested, Before, Closed, Unidentified, Uncommitted, Unlaunched
<1>1. CASE Runs("files")
  BY <1>1, RunsKeeps
<1>2. CASE ResolveRestoreInstallation
  <2>1. CASE TrustedFile /\ TrustedParents /\ Looks("files", "policy")
    BY <2>1, Going DEF Looks
  <2>2. CASE ValidatePolicy /\ Looks("policy", "start")
    BY <2>2, Going DEF Looks
  <2> QED BY <1>2, <2>1, <2>2 DEF ResolveRestoreInstallation
<1>3. CASE RestoreHelperStarts
  BY <1>3, StartingKeeps DEF RestoreHelperStarts, RestoreRequest, DeviceRequest
<1>4. CASE HardenRootProcess \/ ReceiveRestoreRequest
  BY <1>4, Going DEF HardenRootProcess, ReceiveRestoreRequest
<1>5. CASE NodeIsTarget("node", "observe") \/ RestoreTopology("observe", "active", "open")
  BY <1>5, Going DEF NodeIsTarget, RestoreTopology, RestoreObserved, RestoreInactive, Sourced
<1>6. CASE OpenExclusively
  BY <1>6, OpeningKeeps
<1>7. CASE RestoreTarget("identity", "observe-opened")
  <2>1. helper.fd = helper.request.sequence
    BY <1>7 DEF RestoreTarget
  <2> QED BY <1>7, <2>1, Going DEF RestoreTarget
<1>8. CASE RestoreTopology("observe-opened", "active-opened", "node-opened") \/ NodeIsTarget("node-opened", "prepared")
  BY <1>8, Going DEF RestoreTopology, RestoreObserved, RestoreInactive, NodeIsTarget
<1>9. CASE RestoreCommit
  BY <1>9, Going DEF RestoreCommit
<1>10. CASE \/ RestoreTarget("committed", "observe-committed")
            \/ RestoreTopology("observe-committed", "active-committed", "writing")
  BY <1>10, Going DEF RestoreTarget, RestoreTopology, RestoreObserved, RestoreInactive
<1> QED BY <1>1, <1>2, <1>3, <1>4, <1>5, <1>6, <1>7, <1>8, <1>9, <1>10 DEF RestoreHelperEnters

\* A failure closes the drive.
LEMMA RefusesKeeps == CallInv /\ HelperInv /\ Refuses => CallInv' /\ HelperInv'
<1> SUFFICES ASSUME CallInv, HelperInv, Refuses PROVE CallInv' /\ HelperInv'
  OBVIOUS
<1> QED BY RefusingKeeps DEF Refuses

-----------------------------------------------------------------------------
(* The theorems. *)

\* Nothing is minted, read, launched or claimed at first.
LEMMA Initially == Init => IInv
<1> SUFFICES ASSUME Init PROVE IInv
  OBVIOUS
<1>1. /\ kind \in Kinds /\ drive \in [Generations -> Drives] /\ seq = 1 /\ mounted \in BOOLEAN /\ input = "bound"
      /\ plan = [s \in Slots |-> NoPlan] /\ conf = [s \in Slots |-> NoConfirmation]
      /\ ready = [s \in Slots |-> NoReady] /\ call = NoCall /\ launch = NoLaunch
  BY DEF Init, AuthorizationInit, Kinds
<1>2. Nowhere \in Records /\ 1 \in Slots
  BY DEF Nowhere, Records, Numbers, Slots
<1>3. NoPlan \in PlanSlot /\ NoConfirmation \in ConfirmationSlot /\ NoReady \in ReadySlot /\ NoLaunch \in LaunchRecord
  BY <1>2 DEF NoPlan, NoConfirmation, NoReady, NoLaunch, PlanSlot, ConfirmationSlot,
      ReadySlot, LaunchRecord, States
<1>4. seq \in Generations
  BY <1>1, AuthorizationAssumption DEF Generations
<1>5. Typed
  BY <1>1, <1>3, <1>4, NoCallIsTyped DEF Typed
<1>6. Receipts
  BY <1>1 DEF Receipts, NoPlan, NoConfirmation
<1>7. Given /\ Seen /\ Compared /\ LaunchIsBound
  BY <1>1 DEF Given, Seen, Compared, LaunchIsBound, NoCall, NoLaunch
<1>8. helper = [NoHelper EXCEPT !.images = Built] /\ Built \in SUBSET Layouts
  BY DEF Init, EntryInit, Built
<1>9. helper \in HelperRecord
  BY <1>2, <1>8 DEF NoHelper, Host, HelperRecord, Numbers, HelperSteps, Off, Installed,
      Untrusted, Requested, Before, Closed, Unidentified, Uncommitted, Unlaunched
<1>10. helper.step = "off" /\ helper.fd = 0 /\ helper.host.program = "package"
  BY <1>8 DEF NoHelper, Host
<1>11. Bound /\ ClaimedIsUnmounted /\ Program
  BY <1>1, <1>10 DEF Bound, ClaimedIsUnmounted, Claimed, Program, HelperSteps, Off, Installed,
      Untrusted, Requested, Before, Closed, Unidentified, Uncommitted, Unlaunched
<1> QED BY <1>5, <1>6, <1>7, <1>9, <1>11 DEF IInv, CallInv, HelperInv, HelperTyped

\* Every step keeps the invariant.
LEMMA Steps == IInv /\ [Next]_vars => IInv'
<1> SUFFICES ASSUME IInv, [Next]_vars PROVE IInv'
  OBVIOUS
<1> USE DEF IInv
<1>1. CASE Authorizes
  BY <1>1, AuthorizesKeeps
<1>2. CASE HelperEnters
  BY <1>2, DeviceHelperEntersKeeps, RestoreHelperEntersKeeps, ProgramReplacedKeeps,
      RefusesKeeps DEF HelperEnters
<1>3. CASE UNCHANGED vars
  <2>1. CallInv' /\ UNCHANGED helper /\ UNCHANGED authorizationVars
    BY <1>3, NothingChanges DEF vars
  <2>2. ClaimedIsUnmounted'
    BY <2>1 DEF HelperInv, ClaimedIsUnmounted, Claimed, authorizationVars, world
  <2> QED BY <2>1, <2>2, HelperIsLeftAlone DEF authorizationVars, world, receipts
<1> QED BY <1>1, <1>2, <1>3 DEF Next

\* The receipts, the call, the launch and the helper are bound to each other at all times.
THEOREM Inductive == Spec => []IInv
BY Initially, Steps, PTL DEF Spec

\* The helper is launched only for the drive that the phrase was accepted for.
THEOREM Launch == Spec => []LaunchIsBound
<1>1. IInv => LaunchIsBound
  BY DEF IInv, CallInv
<1> QED BY <1>1, Inductive, PTL

\* The helper writes only to that drive, unmounted and claimed, and is the installed program.
THEOREM Write == Spec => []WriteIsBound
<1>1. IInv => WriteIsBound
  <2> SUFFICES ASSUME IInv, helper.step = "writing"
               PROVE  /\ helper.fd = conf[helper.conf].generation /\ conf[helper.conf].plan = helper.plan
                      /\ ~(mounted /\ seq = helper.fd)
                      /\ launch.done /\ launch.plan = helper.plan
                      /\ helper.host.program = "package"
                      /\ kind \notin {"fast-zero", "restore"} => ~drive[helper.fd].home
    BY DEF WriteIsBound
  <2> USE DEF HelperSteps, Off, Installed, Untrusted, Requested, Before, Closed, Unidentified, Uncommitted, Unlaunched
  <2>1. /\ Authoritative(helper.plan) /\ ConfirmationFits(helper.plan, helper.conf)
        /\ helper.request.sequence = plan[helper.plan].sequence /\ helper.exclusive
        /\ helper.fd = helper.request.sequence /\ launch.done /\ launch.plan = helper.plan
    BY DEF IInv, HelperInv, Bound
  <2>2. helper.fd = conf[helper.conf].generation
    BY <2>1 DEF IInv, HelperInv, HelperTyped, HelperRecord, CallInv, Receipts, ConfirmationFits
  <2>3. ~(mounted /\ seq = helper.fd)
    BY <2>1 DEF IInv, HelperInv, ClaimedIsUnmounted, Claimed
  <2>4. helper.host.program = "package"
    BY DEF IInv, HelperInv, HelperTyped, HelperRecord, Program, TrustedFile, TrustedParents
  <2>5. kind \notin {"fast-zero", "restore"} => ~drive[helper.fd].home
    BY <2>1 DEF IInv, HelperInv, Bound, CallInv, Typed, Kinds, Sourced
  <2> QED BY <2>1, <2>2, <2>3, <2>4, <2>5 DEF ConfirmationFits
<1> QED BY <1>1, Inductive, PTL
==================================================================================
