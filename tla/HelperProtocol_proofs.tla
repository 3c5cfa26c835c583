-------------------------- MODULE HelperProtocol_proofs --------------------------
(***************************************************************************)
(* Proofs about HelperProtocol, for every set of runners, size of image    *)
(* and of guard, capacity of the channel, and with or without the final    *)
(* verification: what a runner reports is true of the medium, the decision *)
(* is one and final, the progress of the Syslinux, Windows and GRUB        *)
(* helpers is always accepted, and what helper and runner do together      *)
(* implements the abstract activation of a medium.                         *)
(***************************************************************************)
EXTENDS HelperProtocol, SequenceTheorems, TLAPS

-----------------------------------------------------------------------------
(* The script. *)

Views == {"intact", "opened", "inert", "arming", "active"}
Items == ProgressPackets \union {Prepare} \union {Medium(v) : v \in Views}

\* Where the activation begins, and what the medium shows before an item of the script.
Body == Size - GuardSize - 1
Arm == IF kind = "raw" /\ Body = 0 THEN 8 ELSE 10
ViewAt(i) ==
  IF i <= 4 THEN "intact" ELSE IF i = 5 THEN "opened" ELSE IF i <= Arm THEN "inert"
  ELSE IF kind = "raw" /\ i = Arm + 1 THEN "arming" ELSE "active"

\* PREPARED is the third item, and the medium items lead along ViewAt to the end.
ScriptIsOrdered ==
  /\ Script \in Seq(Items)
  /\ Len(Script) > Arm + 1
  /\ \A i \in 1..Len(Script) :
       /\ Script[i].kind = "prepare" <=> i = 3
       /\ Script[i].kind = "medium" =>
            i >= 4 /\ Script[i] = Medium(ViewAt(i + 1)) /\ ViewAt(i) # ViewAt(i + 1)
       /\ Script[i].kind = "progress" => i # 3 /\ ViewAt(i) = ViewAt(i + 1)

Before(p, q) ==
  /\ PhaseOrder[p.phase] <= PhaseOrder[q.phase]
  /\ p.phase = q.phase => p.done <= q.done
IsProgress(i) == Script[i].kind = "progress"

\* The progress of the other helpers: phase after phase, forward, with the totals that the
\* runner expects, and only the validation of the source before PREPARED.
ProgressIsOrdered ==
  \A i \in 1..Len(Script) : IsProgress(i) =>
    /\ Script[i].total = ExpectedTotals[Script[i].phase]
    /\ Script[i].phase = "source-validation" <=> i <= 2
    /\ \A j \in 1..Len(Script) : i <= j /\ IsProgress(j) => Before(Script[i], Script[j])

-----------------------------------------------------------------------------
(* The invariant. *)

NotDecided == {"authenticating", "await-request", "transaction", "await-control"}
Committed == {"mutating", "recovering", "result"}
Over == {"finally", "done"}

Orders == {"REQUEST", "COMMIT", "CANCEL"}

Typed ==
  /\ kind \in Kinds \intersect {"raw", "syslinux", "grub"}
  /\ hpc \in HelperStates
  /\ position \in 1..(Len(Script) + 1)
  /\ connected \in BOOLEAN
  /\ exit \in Exits /\ (exit = "none" <=> Alive)
  /\ view \in Views
  /\ rpc \in RunnerStates
  /\ {closed, cancelled, terminating, requestSent, commitSent, cancelSent,
      preparedSeen, mutationSeen, succeeded} \subseteq BOOLEAN
  /\ phaseDone \in [Phases -> -1..Size]
  /\ phaseIndex \in -1..3
  /\ report \in ReportValues

Queues ==
  /\ toRunner \in Seq(Packets) /\ Len(toRunner) <= Capacity
  /\ toHelper \in Seq(Orders) /\ Len(toHelper) <= 2

\* The helper follows its script, and the medium shows what the script says.
Followed ==
  /\ hpc \in {"authenticating", "await-request"} => position = 1
  /\ hpc = "transaction" => position <= 3
  /\ hpc = "await-control" => position = 3
  /\ hpc \in Committed => position >= 4
  /\ hpc = "result" => position = Len(Script) + 1
  /\ hpc \in NotDecided => view = "intact"
  /\ hpc = "mutating" => view = ViewAt(position)
  /\ hpc = "result" \/ exit = "success" => view = "active"
  /\ exit \in {"cancelled", "refused"} => view = "intact"

\* What is on its way to the helper was decided, once.
Decided ==
  /\ OneDecision
  /\ terminating => cancelled
  /\ rpc \in {"handshake", "transfer"} => toHelper = <<>>
  /\ rpc \in {"handshake", "transfer", "mark"} => ~requestSent
  /\ ~requestSent => ~commitSent /\ ~cancelSent
  /\ rpc \in {"top", "send-cancel", "select", "poll", "wait", "outcome"} => requestSent
  /\ rpc = "send-cancel" => ~commitSent /\ ~cancelSent
  /\ commitSent => preparedSeen
  /\ \A i, j \in DOMAIN toHelper :
       i < j => toHelper[i] = "REQUEST" /\ toHelper[j] # "REQUEST"
  /\ \A i \in DOMAIN toHelper : toHelper[i] = "COMMIT" => commitSent
  /\ \A i \in DOMAIN toHelper : toHelper[i] = "CANCEL" => cancelSent

Told ==
  /\ report = "none" <=> rpc \notin Over
  /\ report \in {"cancelled", "no-commit"} => ~commitSent
  /\ report = "success" => exit = "success"
  /\ QuarantineIsKept

Sent(i) == toRunner[i].kind
IsReport(i) == Sent(i) = "progress"

\* The reports in the channel were sent in the order of the script, and the last ones that
\* the runner has seen came before them.
Reported ==
  /\ \A i \in DOMAIN toRunner : IsReport(i) =>
       \E k \in 1..(position - 1) : Script[k] = toRunner[i]
  /\ \A i, j \in DOMAIN toRunner :
       i < j /\ IsReport(i) /\ IsReport(j) => Before(toRunner[i], toRunner[j])
  /\ \A i \in DOMAIN toRunner : IsReport(i) =>
       /\ phaseIndex <= PhaseOrder[toRunner[i].phase]
       /\ phaseDone[toRunner[i].phase] <= toRunner[i].done
  /\ phaseIndex # -1 =>
       \E k \in 1..(position - 1) : IsProgress(k) /\ PhaseOrder[Script[k].phase] = phaseIndex
  /\ \A p \in Phases : phaseDone[p] # -1 =>
       \E k \in 1..(position - 1) :
         IsProgress(k) /\ Script[k].phase = p /\ Script[k].done = phaseDone[p]

\* MUTATION_STARTED comes between the validation of the source and every other phase.
Announced ==
  /\ rpc = "handshake" =>
       hpc \notin {"transaction", "await-control"} \union Committed
       /\ \A i \in DOMAIN toRunner : Sent(i) = "ready"
  /\ hpc \in NotDecided =>
       ~mutationSeen /\ \A i \in DOMAIN toRunner : Sent(i) # "mutation-started"
  /\ rpc \notin Over =>
       /\ \A j \in DOMAIN toRunner : IsReport(j) =>
            IF toRunner[j].phase = "source-validation"
              THEN ~mutationSeen /\ \A i \in 1..(j - 1) : Sent(i) # "mutation-started"
              ELSE mutationSeen \/ \E i \in 1..(j - 1) : Sent(i) = "mutation-started"
       /\ connected /\ hpc = "mutating" =>
            mutationSeen \/ \E i \in DOMAIN toRunner : Sent(i) = "mutation-started"

IInv ==
  /\ Typed /\ Queues /\ Followed /\ Decided /\ Told
  /\ kind # "raw" => Reported /\ Announced /\ EveryProgressIsAccepted

-----------------------------------------------------------------------------
(* Sequences, and the two scripts. *)

LEMMA Joined ==
  ASSUME NEW s \in Seq(Items), NEW t \in Seq(Items)
  PROVE  \A m, n \in Nat : Len(s) = m /\ Len(t) = n =>
           /\ s \o t \in Seq(Items) /\ Len(s \o t) = m + n
           /\ \A i \in 1..(m + n) : (s \o t)[i] = IF i <= m THEN s[i] ELSE t[i - m]
OBVIOUS

LEMMA Sizes ==
  /\ Size \in Nat /\ Size >= 2 /\ Body \in 0..Size /\ Size - 1 \in 0..Size
  /\ Capacity \in Nat /\ FinalVerification \in BOOLEAN
BY SizeAssumption, ParameterAssumption DEF Body

LEMMA ProgressIs ==
  ASSUME NEW p \in Phases, NEW n \in 0..Size, NEW d \in 0..n
  PROVE  Progress(p, d, n) \in ProgressPackets /\ Progress(p, d, n) \in Items
BY Sizes DEF Progress, ProgressPackets, Items

LEMMA MediumIs ==
  /\ Prepare \in Items /\ \A v \in Views : Medium(v) \in Items
  /\ Prepare.kind = "prepare"
  /\ \A v : Medium(v).kind = "medium" /\ Medium(v).view = v
BY DEF Items, Prepare, Medium

LEMMA LoopIs ==
  ASSUME NEW p \in Phases, NEW n \in 0..Size
  PROVE  /\ Loop(p, n) \in Seq(Items)
         /\ n = 0 => Len(Loop(p, n)) = 1 /\ Loop(p, n)[1] = Progress(p, 0, 0)
         /\ n # 0 => /\ Len(Loop(p, n)) = 2
                     /\ Loop(p, n)[1] = Progress(p, 0, n) /\ Loop(p, n)[2] = Progress(p, n, n)
<1>1. Progress(p, 0, n) \in Items /\ Progress(p, n, n) \in Items
  BY ProgressIs, Sizes
<1>2. QED
  BY <1>1, Sizes DEF Loop

LEMMA PhasesAre == Phases = {"source-validation", "writing", "preactivation-readback", "readback"}
BY DEF Phases

\* What all scripts begin with.
Front == Loop("source-validation", Size) \o <<Prepare, Medium("opened"), Medium("inert")>>

LEMMA FrontIs ==
  /\ Front \in Seq(Items) /\ Len(Front) = 5
  /\ Front[1] = Progress("source-validation", 0, Size)
  /\ Front[2] = Progress("source-validation", Size, Size)
  /\ Front[3] = Prepare /\ Front[4] = Medium("opened") /\ Front[5] = Medium("inert")
<1> DEFINE s == Loop("source-validation", Size)
           t == <<Prepare, Medium("opened"), Medium("inert")>>
<1>1. /\ s \in Seq(Items) /\ Len(s) = 2
      /\ s[1] = Progress("source-validation", 0, Size)
      /\ s[2] = Progress("source-validation", Size, Size)
  BY LoopIs, PhasesAre, Sizes
<1>2. /\ t \in Seq(Items) /\ Len(t) = 3
      /\ t[1] = Prepare /\ t[2] = Medium("opened") /\ t[3] = Medium("inert")
  BY MediumIs DEF Views
<1> HIDE DEF s, t
<1>3. /\ s \o t \in Seq(Items) /\ Len(s \o t) = 5
      /\ \A i \in 1..5 : (s \o t)[i] = IF i <= 2 THEN s[i] ELSE t[i - 2]
  <2>1. s \in Seq(Items) /\ t \in Seq(Items)
    BY <1>1, <1>2
  <2>2. Len(s) = 2 /\ Len(t) = 3
    BY <1>1, <1>2
  <2>3. \A m, n \in Nat : Len(s) = m /\ Len(t) = n =>
          /\ s \o t \in Seq(Items) /\ Len(s \o t) = m + n
          /\ \A i \in 1..(m + n) : (s \o t)[i] = IF i <= m THEN s[i] ELSE t[i - m]
    BY <2>1, Joined
  <2>4. QED
    BY <2>2, <2>3
<1>4. QED
  BY <1>1, <1>2, <1>3 DEF Front, s, t

LEMMA MbrItems ==
  /\ MbrScript \in Seq(Items) /\ Len(MbrScript) = 12
  /\ \A i \in 1..5 : MbrScript[i] = Front[i]
  /\ MbrScript[6] = Progress("writing", 0, Size)
  /\ MbrScript[7] = Progress("writing", Size, Size)
  /\ MbrScript[8] = Progress("preactivation-readback", 0, Size - 1)
  /\ MbrScript[9] = Progress("preactivation-readback", Size - 1, Size - 1)
  /\ MbrScript[10] = Medium("active")
  /\ MbrScript[11] = Progress("readback", 0, Size)
  /\ MbrScript[12] = Progress("readback", Size, Size)
<1> DEFINE w == Loop("writing", Size)
           p == Loop("preactivation-readback", Size - 1)
           a == <<Medium("active")>>
           r == Loop("readback", Size)
<1>1. /\ w \in Seq(Items) /\ Len(w) = 2
      /\ w[1] = Progress("writing", 0, Size) /\ w[2] = Progress("writing", Size, Size)
  BY LoopIs, PhasesAre, Sizes
<1>2. /\ p \in Seq(Items) /\ Len(p) = 2
      /\ p[1] = Progress("preactivation-readback", 0, Size - 1)
      /\ p[2] = Progress("preactivation-readback", Size - 1, Size - 1)
  BY LoopIs, PhasesAre, Sizes
<1>3. a \in Seq(Items) /\ Len(a) = 1 /\ a[1] = Medium("active")
  BY MediumIs DEF Views
<1>4. /\ r \in Seq(Items) /\ Len(r) = 2
      /\ r[1] = Progress("readback", 0, Size) /\ r[2] = Progress("readback", Size, Size)
  BY LoopIs, PhasesAre, Sizes
<1>5. MbrScript = (((Front \o w) \o p) \o a) \o r
  BY DEF MbrScript, Front
<1> HIDE DEF w, p, a, r
<1>6. /\ Front \o w \in Seq(Items) /\ Len(Front \o w) = 7
      /\ \A i \in 1..7 : (Front \o w)[i] = IF i <= 5 THEN Front[i] ELSE w[i - 5]
  <2>1. Front \in Seq(Items) /\ w \in Seq(Items)
    BY <1>1, FrontIs
  <2>2. Len(Front) = 5 /\ Len(w) = 2
    BY <1>1, FrontIs
  <2>3. \A m, n \in Nat : Len(Front) = m /\ Len(w) = n =>
          /\ Front \o w \in Seq(Items) /\ Len(Front \o w) = m + n
          /\ \A i \in 1..(m + n) : (Front \o w)[i] = IF i <= m THEN Front[i] ELSE w[i - m]
    BY <2>1, Joined
  <2>4. QED
    BY <2>2, <2>3
<1> DEFINE fw == Front \o w
<1> HIDE DEF fw
<1>7. /\ fw \o p \in Seq(Items) /\ Len(fw \o p) = 9
      /\ \A i \in 1..9 : (fw \o p)[i] = IF i <= 7 THEN fw[i] ELSE p[i - 7]
  <2>1. fw \in Seq(Items) /\ p \in Seq(Items)
    BY <1>2, <1>6 DEF fw
  <2>2. Len(fw) = 7 /\ Len(p) = 2
    BY <1>2, <1>6 DEF fw
  <2>3. \A m, n \in Nat : Len(fw) = m /\ Len(p) = n =>
          /\ fw \o p \in Seq(Items) /\ Len(fw \o p) = m + n
          /\ \A i \in 1..(m + n) : (fw \o p)[i] = IF i <= m THEN fw[i] ELSE p[i - m]
    BY <2>1, Joined
  <2>4. QED
    BY <2>2, <2>3
<1> DEFINE fp == fw \o p
<1> HIDE DEF fp
<1>8. /\ fp \o a \in Seq(Items) /\ Len(fp \o a) = 10
      /\ \A i \in 1..10 : (fp \o a)[i] = IF i <= 9 THEN fp[i] ELSE a[i - 9]
  <2>1. fp \in Seq(Items) /\ a \in Seq(Items)
    BY <1>3, <1>7 DEF fp
  <2>2. Len(fp) = 9 /\ Len(a) = 1
    BY <1>3, <1>7 DEF fp
  <2>3. \A m, n \in Nat : Len(fp) = m /\ Len(a) = n =>
          /\ fp \o a \in Seq(Items) /\ Len(fp \o a) = m + n
          /\ \A i \in 1..(m + n) : (fp \o a)[i] = IF i <= m THEN fp[i] ELSE a[i - m]
    BY <2>1, Joined
  <2>4. QED
    BY <2>2, <2>3
<1> DEFINE fa == fp \o a
<1> HIDE DEF fa
<1>9. /\ fa \o r \in Seq(Items) /\ Len(fa \o r) = 12
      /\ \A i \in 1..12 : (fa \o r)[i] = IF i <= 10 THEN fa[i] ELSE r[i - 10]
  <2>1. fa \in Seq(Items) /\ r \in Seq(Items)
    BY <1>4, <1>8 DEF fa
  <2>2. Len(fa) = 10 /\ Len(r) = 2
    BY <1>4, <1>8 DEF fa
  <2>3. \A m, n \in Nat : Len(fa) = m /\ Len(r) = n =>
          /\ fa \o r \in Seq(Items) /\ Len(fa \o r) = m + n
          /\ \A i \in 1..(m + n) : (fa \o r)[i] = IF i <= m THEN fa[i] ELSE r[i - m]
    BY <2>1, Joined
  <2>4. QED
    BY <2>2, <2>3
<1>10. MbrScript = fa \o r
  BY <1>5 DEF fa, fp, fw
<1>11. /\ \A i \in 1..7 : fw[i] = IF i <= 5 THEN Front[i] ELSE w[i - 5]
       /\ \A i \in 1..9 : fp[i] = IF i <= 7 THEN fw[i] ELSE p[i - 7]
       /\ \A i \in 1..10 : fa[i] = IF i <= 9 THEN fp[i] ELSE a[i - 9]
  BY <1>6, <1>7, <1>8 DEF fw, fp, fa
<1>12. /\ \A i \in 1..5 : MbrScript[i] = Front[i]
       /\ MbrScript[6] = w[1] /\ MbrScript[7] = w[2] /\ MbrScript[8] = p[1]
       /\ MbrScript[9] = p[2] /\ MbrScript[10] = a[1] /\ MbrScript[11] = r[1]
       /\ MbrScript[12] = r[2]
  <2>1. \A i \in 1..12 : MbrScript[i] = IF i <= 10 THEN fa[i] ELSE r[i - 10]
    BY <1>9, <1>10
  <2>2. /\ \A i \in 1..5 : fa[i] = Front[i]
        /\ fa[6] = w[1] /\ fa[7] = w[2] /\ fa[8] = p[1] /\ fa[9] = p[2] /\ fa[10] = a[1]
    BY <1>11
  <2>3. QED
    BY <2>1, <2>2
<1>13. QED
  BY <1>1, <1>2, <1>3, <1>4, <1>9, <1>10, <1>12

\* The raw script, with everything between the medium items but the progress in them.
LEMMA RawItems ==
  LET arm == IF Body = 0 THEN 8 ELSE 10 IN
  /\ RawScript \in Seq(Items) /\ Len(RawScript) >= arm + 2
  /\ \A i \in 1..5 : RawScript[i] = Front[i]
  /\ RawScript[arm] = Medium("arming") /\ RawScript[arm + 1] = Medium("active")
  /\ \A i \in 6..Len(RawScript) : i \notin {arm, arm + 1} => RawScript[i] \in ProgressPackets
<1> DEFINE arm == IF Body = 0 THEN 8 ELSE 10
           h == <<Prepare, Medium("opened"), Medium("inert"), Progress("writing", 0, Size)>>
           b == IF Body = 0 THEN <<>> ELSE <<Progress("writing", Size - 1, Size)>>
           p == Loop("preactivation-readback", Body)
           a == <<Medium("arming"), Medium("active"), Progress("writing", Size, Size)>>
           r == IF FinalVerification THEN Loop("readback", Size) ELSE <<>>
           s == Loop("source-validation", Size)
<1>1. /\ s \in Seq(Items) /\ Len(s) = 2
      /\ s[1] = Front[1] /\ s[2] = Front[2]
  BY LoopIs, PhasesAre, Sizes, FrontIs, SMTT(30)
<1>2. /\ h \in Seq(Items) /\ Len(h) = 4
      /\ h[1] = Front[3] /\ h[2] = Front[4] /\ h[3] = Front[5]
      /\ h[4] \in ProgressPackets
  BY MediumIs, ProgressIs, PhasesAre, Sizes, FrontIs DEF Views
<1>3. /\ b \in Seq(Items) /\ Len(b) = (IF Body = 0 THEN 0 ELSE 1)
      /\ \A i \in 1..Len(b) : b[i] \in ProgressPackets
  BY ProgressIs, PhasesAre, Sizes
<1>4. /\ p \in Seq(Items) /\ Len(p) = (IF Body = 0 THEN 1 ELSE 2)
      /\ \A i \in 1..Len(p) : p[i] \in ProgressPackets
  <2>1. /\ Progress("preactivation-readback", 0, Body) \in ProgressPackets
        /\ Progress("preactivation-readback", Body, Body) \in ProgressPackets
    BY ProgressIs, PhasesAre, Sizes
  <2>2. p \in Seq(Items) /\ "preactivation-readback" \in Phases
    BY LoopIs, PhasesAre, Sizes
  <2>3. CASE Body = 0
    <3>1. Len(p) = 1 /\ p[1] = Progress("preactivation-readback", 0, Body)
      BY <2>2, <2>3, LoopIs, Sizes
    <3>2. QED
      BY <2>1, <2>2, <2>3, <3>1
  <2>4. CASE Body # 0
    <3>1. /\ Len(p) = 2 /\ p[1] = Progress("preactivation-readback", 0, Body)
          /\ p[2] = Progress("preactivation-readback", Body, Body)
      BY <2>2, <2>4, LoopIs, Sizes
    <3>2. QED
      BY <2>1, <2>2, <2>4, <3>1
  <2>5. QED
    BY <2>3, <2>4
<1>5. /\ a \in Seq(Items) /\ Len(a) = 3
      /\ a[1] = Medium("arming") /\ a[2] = Medium("active") /\ a[3] \in ProgressPackets
  BY MediumIs, ProgressIs, PhasesAre, Sizes DEF Views
<1>6. /\ r \in Seq(Items) /\ Len(r) = (IF FinalVerification THEN 2 ELSE 0)
      /\ \A i \in 1..Len(r) : r[i] \in ProgressPackets
  <2>1. CASE FinalVerification
    <3>1. /\ r \in Seq(Items) /\ Len(r) = 2
          /\ r[1] = Progress("readback", 0, Size) /\ r[2] = Progress("readback", Size, Size)
      BY <2>1, LoopIs, PhasesAre, Sizes
    <3>2. /\ Progress("readback", 0, Size) \in ProgressPackets
          /\ Progress("readback", Size, Size) \in ProgressPackets
      BY ProgressIs, PhasesAre, Sizes
    <3>3. QED
      BY <2>1, <3>1, <3>2
  <2>2. CASE ~FinalVerification
    <3>1. r = <<>>
      BY <2>2
    <3>2. QED
      BY <2>2, <3>1
  <2>3. QED
    BY <2>1, <2>2
<1>7. RawScript = ((((s \o h) \o b) \o p) \o a) \o r
  BY DEF RawScript, Body
<1> HIDE DEF h, b, p, a, r, s
<1> DEFINE u1 == s \o h
           u2 == u1 \o b
           u3 == u2 \o p
           u4 == u3 \o a
           u5 == u4 \o r
<1>8. /\ u1 \in Seq(Items) /\ Len(u1) = 6
      /\ \A i \in 1..6 : u1[i] = IF i <= 2 THEN s[i] ELSE h[i - 2]
  <2>1. s \in Seq(Items) /\ h \in Seq(Items)
    BY <1>1, <1>2
  <2>2. Len(s) = 2 /\ Len(h) = 4
    BY <1>1, <1>2
  <2>3. \A m, n \in Nat : Len(s) = m /\ Len(h) = n =>
          /\ s \o h \in Seq(Items) /\ Len(s \o h) = m + n
          /\ \A i \in 1..(m + n) : (s \o h)[i] = IF i <= m THEN s[i] ELSE h[i - m]
    BY <2>1, Joined
  <2>4. QED
    BY <2>2, <2>3
<1> HIDE DEF u1
<1>9. /\ u2 \in Seq(Items) /\ Len(u2) = (IF Body = 0 THEN 6 ELSE 7)
      /\ \A i \in 1..(IF Body = 0 THEN 6 ELSE 7) : u2[i] = IF i <= 6 THEN u1[i] ELSE b[i - 6]
  <2>1. u1 \in Seq(Items) /\ b \in Seq(Items)
    BY <1>8, <1>3
  <2>2. Len(u1) = 6 /\ Len(b) = (IF Body = 0 THEN 0 ELSE 1)
    BY <1>8, <1>3
  <2>3. \A m, n \in Nat : Len(u1) = m /\ Len(b) = n =>
          /\ u1 \o b \in Seq(Items) /\ Len(u1 \o b) = m + n
          /\ \A i \in 1..(m + n) : (u1 \o b)[i] = IF i <= m THEN u1[i] ELSE b[i - m]
    BY <2>1, Joined
  <2>4. QED
    BY <2>2, <2>3
<1> HIDE DEF u2
<1>10. /\ u3 \in Seq(Items) /\ Len(u3) = (IF Body = 0 THEN 7 ELSE 9)
       /\ LET l == IF Body = 0 THEN 6 ELSE 7
              m == IF Body = 0 THEN 7 ELSE 9
          IN  \A i \in 1..m : u3[i] = IF i <= l THEN u2[i] ELSE p[i - l]
  <2>1. u2 \in Seq(Items) /\ p \in Seq(Items)
    BY <1>9, <1>4
  <2>2. Len(u2) = (IF Body = 0 THEN 6 ELSE 7) /\ Len(p) = (IF Body = 0 THEN 1 ELSE 2)
    BY <1>9, <1>4
  <2>3. \A m, n \in Nat : Len(u2) = m /\ Len(p) = n =>
          /\ u2 \o p \in Seq(Items) /\ Len(u2 \o p) = m + n
          /\ \A i \in 1..(m + n) : (u2 \o p)[i] = IF i <= m THEN u2[i] ELSE p[i - m]
    BY <2>1, Joined
  <2>4. QED
    BY <2>2, <2>3
<1> HIDE DEF u3
<1>11. /\ u4 \in Seq(Items) /\ Len(u4) = (IF Body = 0 THEN 10 ELSE 12)
       /\ LET l == IF Body = 0 THEN 7 ELSE 9
              m == IF Body = 0 THEN 10 ELSE 12
          IN  \A i \in 1..m : u4[i] = IF i <= l THEN u3[i] ELSE a[i - l]
  <2>1. u3 \in Seq(Items) /\ a \in Seq(Items)
    BY <1>10, <1>5
  <2>2. Len(u3) = (IF Body = 0 THEN 7 ELSE 9) /\ Len(a) = 3
    BY <1>10, <1>5
  <2>3. \A m, n \in Nat : Len(u3) = m /\ Len(a) = n =>
          /\ u3 \o a \in Seq(Items) /\ Len(u3 \o a) = m + n
          /\ \A i \in 1..(m + n) : (u3 \o a)[i] = IF i <= m THEN u3[i] ELSE a[i - m]
    BY <2>1, Joined
  <2>4. QED
    BY <2>2, <2>3, SMTT(30)
<1> HIDE DEF u4
<1>12. /\ u5 \in Seq(Items)
       /\ LET l == IF Body = 0 THEN 10 ELSE 12
              m == IF FinalVerification THEN l + 2 ELSE l
          IN  /\ Len(u5) = m
              /\ \A i \in 1..m : u5[i] = IF i <= l THEN u4[i] ELSE r[i - l]
  <2>1. u4 \in Seq(Items) /\ r \in Seq(Items)
    BY <1>11, <1>6
  <2>2. Len(u4) = (IF Body = 0 THEN 10 ELSE 12) /\ Len(r) = (IF FinalVerification THEN 2 ELSE 0)
    BY <1>11, <1>6
  <2>3. \A m, n \in Nat : Len(u4) = m /\ Len(r) = n =>
          /\ u4 \o r \in Seq(Items) /\ Len(u4 \o r) = m + n
          /\ \A i \in 1..(m + n) : (u4 \o r)[i] = IF i <= m THEN u4[i] ELSE r[i - m]
    BY <2>1, Joined
  <2>4. QED
    BY <2>2, <2>3
<1>13. RawScript = u5
  BY <1>7 DEF u1, u2, u3, u4
<1> HIDE DEF u5
<1>14. Len(u3) = arm - 1
  BY <1>9, <1>10, <1>3, <1>4
<1>15. /\ \A i \in 1..5 : u1[i] = Front[i]
       /\ u1[6] \in ProgressPackets
  BY <1>1, <1>2, <1>8
<1>16. /\ \A i \in 1..5 : u3[i] = Front[i]
       /\ \A i \in 6..(arm - 1) : u3[i] \in ProgressPackets
  <2>1. /\ \A i \in 1..5 : u2[i] = Front[i]
        /\ \A i \in 6..Len(u2) : u2[i] \in ProgressPackets
    BY <1>3, <1>9, <1>15
  <2>2. QED
    BY <1>3, <1>4, <1>9, <1>10, <1>14, <2>1, SMTT(30)
<1> HIDE DEF arm
<1>17. /\ \A i \in 1..5 : u4[i] = Front[i]
       /\ \A i \in 6..(arm - 1) : u4[i] \in ProgressPackets
       /\ u4[arm] = Medium("arming") /\ u4[arm + 1] = Medium("active")
       /\ u4[arm + 2] \in ProgressPackets /\ Len(u4) = arm + 2
  <2>1. CASE Body = 0
    <3>1. /\ arm = 8 /\ Len(u4) = 10
          /\ \A i \in 1..10 : u4[i] = IF i <= 7 THEN u3[i] ELSE a[i - 7]
      BY <1>11, <2>1 DEF arm
    <3>2. QED
      BY <1>5, <1>16, <3>1
  <2>2. CASE Body # 0
    <3>1. /\ arm = 10 /\ Len(u4) = 12
          /\ \A i \in 1..12 : u4[i] = IF i <= 9 THEN u3[i] ELSE a[i - 9]
      BY <1>11, <2>2 DEF arm
    <3>2. QED
      BY <1>5, <1>16, <3>1
  <2>3. QED
    BY <2>1, <2>2
<1>18. arm \in {8, 10}
  BY DEF arm
<1>19. /\ Len(u5) >= arm + 2
       /\ \A i \in 1..5 : u5[i] = Front[i]
       /\ u5[arm] = Medium("arming") /\ u5[arm + 1] = Medium("active")
       /\ \A i \in 6..Len(u5) : i \notin {arm, arm + 1} => u5[i] \in ProgressPackets
  <2>1. PICK m \in {arm + 2, arm + 4} :
          /\ Len(u5) = m /\ Len(r) = m - (arm + 2)
          /\ \A i \in 1..m : u5[i] = IF i <= arm + 2 THEN u4[i] ELSE r[i - (arm + 2)]
    <3>1. (IF Body = 0 THEN 10 ELSE 12) = arm + 2
      BY DEF arm
    <3> DEFINE l == IF Body = 0 THEN 10 ELSE 12
               m == IF FinalVerification THEN l + 2 ELSE l
    <3>2. Len(u5) = m /\ \A i \in 1..m : u5[i] = IF i <= l THEN u4[i] ELSE r[i - l]
      BY <1>12
    <3>3. l = arm + 2
      BY <3>1
    <3>4. m \in {arm + 2, arm + 4} /\ Len(r) = m - (arm + 2)
      BY <1>6, <1>18, <3>3
    <3> HIDE DEF l, m
    <3>5. QED
      BY <3>2, <3>3, <3>4
  <2>2. QED
    BY <1>6, <1>17, <1>18, <2>1
<1>20. QED
  BY <1>12, <1>13, <1>19 DEF arm

LEMMA Ordered == kind \in {"raw", "syslinux", "grub"} => ScriptIsOrdered
<1> SUFFICES ASSUME kind \in {"raw", "syslinux", "grub"} PROVE ScriptIsOrdered
  OBVIOUS
<1>1. \A p \in ProgressPackets : p.kind = "progress"
  BY DEF ProgressPackets
<1>2. /\ Front[1] \in ProgressPackets /\ Front[2] \in ProgressPackets
  BY FrontIs, ProgressIs, PhasesAre, Sizes
<1>3. CASE kind = "raw"
  <2>1. Script = RawScript /\ Arm = IF Body = 0 THEN 8 ELSE 10
    BY <1>3 DEF Script, Arm
  <2>2. /\ Script \in Seq(Items) /\ Len(Script) >= Arm + 2 /\ Arm \in {8, 10}
        /\ \A i \in 1..5 : Script[i] = Front[i]
        /\ Script[Arm] = Medium("arming") /\ Script[Arm + 1] = Medium("active")
        /\ \A i \in 6..Len(Script) : i \notin {Arm, Arm + 1} => Script[i] \in ProgressPackets
    BY <2>1, RawItems
  <2>3. Len(Script) \in Nat
    BY <2>2
  <2> HIDE DEF Arm
  <2>4. ASSUME NEW i \in 1..Len(Script)
        PROVE  /\ Script[i].kind = "prepare" <=> i = 3
               /\ Script[i].kind = "medium" =>
                    i >= 4 /\ Script[i] = Medium(ViewAt(i + 1)) /\ ViewAt(i) # ViewAt(i + 1)
               /\ Script[i].kind = "progress" => i # 3 /\ ViewAt(i) = ViewAt(i + 1)
    <3>1. CASE i \in {1, 2, 3, 4, 5}
      BY <1>1, <1>2, <1>3, <2>2, <3>1, FrontIs, MediumIs DEF ViewAt
    <3>2. CASE i \in {Arm, Arm + 1}
      BY <1>3, <2>2, <3>2, MediumIs DEF ViewAt
    <3>3. CASE i \notin {1, 2, 3, 4, 5, Arm, Arm + 1}
      <4>1. Script[i].kind = "progress"
        BY <1>1, <2>2, <3>3
      <4>2. QED
        BY <1>3, <2>2, <3>3, <4>1 DEF ViewAt
    <3>4. QED
      BY <3>1, <3>2, <3>3
  <2>5. QED
    BY <2>2, <2>3, <2>4 DEF ScriptIsOrdered
<1>4. CASE kind # "raw"
  <2>1. Script = MbrScript /\ Arm = 10
    BY <1>4 DEF Script, Arm
  <2>2. /\ MbrScript[6] \in ProgressPackets /\ MbrScript[7] \in ProgressPackets
        /\ MbrScript[8] \in ProgressPackets /\ MbrScript[9] \in ProgressPackets
        /\ MbrScript[11] \in ProgressPackets /\ MbrScript[12] \in ProgressPackets
    BY MbrItems, ProgressIs, PhasesAre, Sizes
  <2>4. ASSUME NEW i \in 1..12
        PROVE  /\ MbrScript[i].kind = "prepare" <=> i = 3
               /\ MbrScript[i].kind = "medium" =>
                    i >= 4 /\ MbrScript[i] = Medium(ViewAt(i + 1)) /\ ViewAt(i) # ViewAt(i + 1)
               /\ MbrScript[i].kind = "progress" => i # 3 /\ ViewAt(i) = ViewAt(i + 1)
    <3>1. CASE i \in {1, 2, 3, 4, 5}
      BY <1>1, <1>2, <1>4, <2>1, <3>1, FrontIs, MbrItems, MediumIs DEF ViewAt
    <3>2. CASE i = 10
      BY <1>4, <2>1, <3>2, MbrItems, MediumIs DEF ViewAt
    <3>3. CASE i \in {6, 7, 8, 9, 11, 12}
      <4>1. MbrScript[i].kind = "progress"
        BY <1>1, <2>2, <3>3
      <4>2. QED
        BY <1>4, <2>1, <3>3, <4>1 DEF ViewAt
    <3>4. QED
      BY <3>1, <3>2, <3>3
  <2>5. QED
    BY <2>1, <2>4, MbrItems DEF ScriptIsOrdered
<1>5. QED
  BY <1>3, <1>4

LEMMA ReportsOrdered == kind \in {"syslinux", "grub"} => ProgressIsOrdered
<1> SUFFICES ASSUME kind \in {"syslinux", "grub"} PROVE ProgressIsOrdered
  OBVIOUS
<1>1. Script = MbrScript
  BY DEF Script
<1>2. ExpectedTotals = [p \in Phases |-> IF p # "preactivation-readback" THEN Size ELSE Size - 1]
  BY DEF ExpectedTotals
<1>3. \A p, d, n : Progress(p, d, n).phase = p /\ Progress(p, d, n).done = d
                   /\ Progress(p, d, n).total = n
  BY DEF Progress
<1>4. \A i \in 1..12 : MbrScript[i].kind = "progress" => i \notin {3, 4, 5, 10}
  BY MbrItems, FrontIs, MediumIs
<1>5. \A i \in {1, 2, 6, 7, 8, 9, 11, 12} :
        /\ MbrScript[i].total = ExpectedTotals[MbrScript[i].phase]
        /\ MbrScript[i].phase = "source-validation" <=> i <= 2
        /\ PhaseOrder[MbrScript[i].phase]
             = IF i <= 2 THEN 0 ELSE IF i <= 7 THEN 1 ELSE IF i <= 9 THEN 2 ELSE 3
        /\ MbrScript[i].done
             = IF i \in {1, 6, 8, 11} THEN 0 ELSE IF i = 9 THEN Size - 1 ELSE Size
  BY <1>2, <1>3, MbrItems, FrontIs, PhasesAre DEF PhaseOrder
<1>6. \A i, j \in {1, 2, 6, 7, 8, 9, 11, 12} : i <= j => Before(MbrScript[i], MbrScript[j])
  <2> TAKE i, j \in {1, 2, 6, 7, 8, 9, 11, 12}
  <2> HAVE i <= j
  <2>1. PhaseOrder[MbrScript[i].phase] <= PhaseOrder[MbrScript[j].phase]
    BY <1>5
  <2>2. ASSUME MbrScript[i].phase = MbrScript[j].phase
        PROVE  MbrScript[i].done <= MbrScript[j].done
    BY <1>5, <2>2, Sizes
  <2>3. QED
    BY <2>1, <2>2 DEF Before
<1>7. QED
  BY <1>1, <1>4, <1>5, <1>6, MbrItems DEF ProgressIsOrdered, IsProgress

-----------------------------------------------------------------------------
(* The steps. *)

HelperActs ==
  \/ HelperReady \/ AuthenticationFails \/ HelperReceivesRequest \/ RequestFails
  \/ PreflightProgress \/ PreflightFails \/ PrepareMutation \/ BeginMutation \/ NoCommit
  \/ MutationProgress \/ MediumStep \/ MutationFails \/ Deactivate \/ HelperFails
  \/ SendSuccess \/ HelperExits \/ HelperKilled
ElseActs ==
  \/ UserCancels \/ CancelTerminates \/ ApplicationDies \/ HandshakeKill
RunnerActs ==
  \/ ReceiveReady \/ HandshakeEnds \/ HandshakeStalls \/ TransferRequest \/ MarkRequestSent
  \/ ReadFlags \/ SendCancel \/ SelectTimesOut \/ ReceiveFails \/ EndOfChannel
  \/ PollProcess \/ Stall \/ ReceivePrepared \/ ReceiveMutationStarted \/ ReceiveProgress
  \/ ReceiveSuccess \/ WaitForExit \/ WaitTimesOut \/ Conclude \/ Return
  \/ QuarantinedReturn
Acts == (HelperActs \/ ElseActs \/ RunnerActs) /\ kind' = kind

LEMMA NextIsActs == ProtocolNext => Acts
BY DEF ProtocolNext, Acts, HelperActs, ElseActs, RunnerActs, HelperRuns, RawRunner, Runner, HandshakePolls, Polls,
       Answers, Concludes, HandshakeDeadline, Deadline, ExitDeadline, SyslinuxRunner,
       SyslinuxPolls, SyslinuxInvokes, SyslinuxConcludes, GrubRunner, GrubPolls, GrubInvokes,
       GrubConcludes, Others

LEMMA SameScript ==
  ASSUME kind' = kind
  PROVE  Script' = Script /\ Arm' = Arm /\ \A i : ViewAt(i)' = ViewAt(i)
BY DEF Script, RawScript, MbrScript, Arm, Body, ViewAt

\* A channel with one more packet in it, and with one less.
LEMMA Sending ==
  ASSUME NEW S, NEW q \in Seq(S), NEW p \in S
  PROVE  /\ Append(q, p) \in Seq(S) /\ Len(Append(q, p)) = Len(q) + 1
         /\ Len(q) \in Nat /\ DOMAIN q = 1..Len(q)
         /\ DOMAIN Append(q, p) = 1..(Len(q) + 1)
         /\ \A i \in 1..Len(q) : Append(q, p)[i] = q[i]
         /\ Append(q, p)[Len(q) + 1] = p
OBVIOUS

LEMMA Taking ==
  ASSUME NEW S, NEW q \in Seq(S), q # <<>>
  PROVE  /\ Tail(q) \in Seq(S) /\ Len(Tail(q)) = Len(q) - 1 /\ Len(q) \in Nat \ {0}
         /\ DOMAIN q = 1..Len(q) /\ DOMAIN Tail(q) = 1..(Len(q) - 1)
         /\ \A i \in 1..(Len(q) - 1) : Tail(q)[i] = q[i + 1]
         /\ Head(q) = q[1] /\ Head(q) \in S
OBVIOUS

LEMMA ItemIs ==
  ASSUME IInv, position <= Len(Script)
  PROVE  /\ Script[position] \in Items /\ position \in 1..Len(Script)
         /\ Script[position].kind = "progress" => Script[position] \in ProgressPackets
         /\ Script[position].kind = "medium" =>
              Script[position].view \in Views /\ ViewAt(position + 1) = Script[position].view
<1>1. ScriptIsOrdered /\ position \in 1..Len(Script)
  BY Ordered DEF IInv, Typed, ScriptIsOrdered
<1>2. Script[position] \in Items
  BY <1>1 DEF ScriptIsOrdered
<1>3. /\ Prepare.kind = "prepare" /\ \A v \in Views : Medium(v).kind = "medium"
      /\ \A p \in ProgressPackets : p.kind = "progress"
  BY DEF Prepare, Medium, ProgressPackets
<1>4. Script[position].kind = "medium" => ViewAt(position + 1) = Script[position].view
  <2>1. \A v : Medium(v).view = v
    BY DEF Medium
  <2>2. Script[position].kind = "medium" => Script[position] = Medium(ViewAt(position + 1))
    BY <1>1 DEF ScriptIsOrdered
  <2>3. QED
    BY <2>1, <2>2
<1>5. QED
  BY <1>1, <1>2, <1>3, <1>4 DEF Items, Medium

LEMMA PacketIs ==
  /\ \A k \in {"ready", "prepared", "mutation-started", "success"} : [kind |-> k] \in Packets
  /\ ProgressPackets \subseteq Packets
BY DEF Packets

LEMMA Progressed ==
  ASSUME IInv, Receiving("progress")
  PROVE  /\ Head(toRunner) \in ProgressPackets
         /\ Head(toRunner).phase \in Phases /\ Head(toRunner).done \in 0..Size
         /\ PhaseOrder[Head(toRunner).phase] \in 0..3
<1>1. Head(toRunner) \in Packets
  BY Taking DEF IInv, Queues, Receiving
<1>2. Head(toRunner) \in ProgressPackets
  BY <1>1 DEF Receiving, Packets
<1>3. QED
  BY <1>2 DEF ProgressPackets, PhaseOrder, Phases

LEMMA AtPrepare ==
  ASSUME IInv, hpc = "await-control"
  PROVE  position = 3 /\ position + 1 \in 1..Len(Script)
BY Ordered DEF IInv, Typed, Followed, ScriptIsOrdered, Arm

\* What the steps keep: the types.
LEMMA TypedStep ==
  ASSUME IInv, Acts
  PROVE  Typed'
<1>1. Typed /\ kind' = kind /\ Script' = Script /\ Len(Script) \in Nat
  BY SameScript, Ordered DEF Acts, IInv, Typed, ScriptIsOrdered
<1> USE <1>1 DEF Typed, Alive, HelperStates, RunnerStates, Exits, ReportValues, Views
<1>2. CASE
      \/ HelperReady \/ AuthenticationFails \/ HelperReceivesRequest \/ RequestFails
      \/ PreflightProgress \/ PreflightFails \/ PrepareMutation \/ NoCommit \/ MediumStep
      \/ MutationFails \/ Deactivate \/ HelperFails \/ SendSuccess \/ HelperExits
      \/ HelperKilled
  BY <1>2, ItemIs DEF HelperReady, runnerVars, userVars, flags, seen, Exit, CanSend,
      AuthenticationFails, HelperReceivesRequest, RequestFails, PreflightProgress, AtItem,
      PollCancels, PollIsQuiet, Reset, PreflightFails, PrepareMutation, NoCommit, MediumStep,
      MutationFails, Deactivate, HelperFails, SendSuccess, HelperExits, HelperKilled
<1>3. CASE UserCancels \/ ApplicationDies \/ HandshakeKill
  BY <1>3 DEF UserCancels, helperVars, flags, seen, ApplicationDies, HandshakeKill,
      runnerVars, userVars, Exit
<1>4. CASE
      \/ ReceiveReady \/ HandshakeEnds \/ HandshakeStalls \/ TransferRequest
      \/ MarkRequestSent
  BY <1>4 DEF ReceiveReady, helperVars, userVars, flags, seen, RunnerEnds, HandshakeEnds,
      HandshakeStalls, TransferRequest, MarkRequestSent
<1>5. CASE ReadFlags
  BY <1>5 DEF ReadFlags, helperVars, userVars, flags, seen, RunnerOnly
<1>6. CASE SendCancel
  BY <1>6, ZenonT(60) DEF SendCancel, helperVars, userVars, seen, RunnerEnds
<1>7. CASE SelectTimesOut \/ ReceiveFails \/ EndOfChannel \/ PollProcess \/ Stall
  BY <1>7, ZenonT(60)
  DEF SelectTimesOut, helperVars, userVars, flags, seen, RunnerOnly, ReceiveFails,
      RunnerEnds, Broken, EndOfChannel, PollProcess, Stall
<1>8. CASE ReceivePrepared \/ ReceiveMutationStarted \/ ReceiveSuccess
  BY <1>8 DEF ReceivePrepared, helperVars, userVars, RunnerEnds, Receiving, Continue, Broken,
      ReceiveMutationStarted, ReceiveSuccess
<1>9. CASE WaitForExit \/ WaitTimesOut \/ Conclude \/ Return \/ QuarantinedReturn
  BY <1>9, ZenonT(60)
  DEF WaitForExit, helperVars, userVars, flags, seen, RunnerOnly, WaitTimesOut, Exit,
      RunnerEnds, MayStop, Conclude, Broken, Return, Returning, QuarantinedReturn, Quarantine
<1>10. CASE BeginMutation
  <2>1. connected' \in BOOLEAN
    BY <1>10, AtPrepare DEF BeginMutation
  <2>2. QED
    BY <1>10, AtPrepare, <2>1 DEF BeginMutation, runnerVars, userVars, flags, seen
<1>11. CASE MutationProgress
  <2>1. connected' \in BOOLEAN
    BY <1>11, ItemIs DEF MutationProgress
  <2>2. QED
    BY <1>11, ItemIs, <2>1 DEF MutationProgress, AtItem, runnerVars, userVars, flags, seen
<1>12. CASE CancelTerminates
  <2>1. CASE hpc' = "exited" /\ exit' = "killed"
    BY <1>12, <2>1, ZenonT(60) DEF CancelTerminates, flags, seen
  <2>2. UNCHANGED <<position, connected, view, rpc, closed, cancelled, flags, seen, report>>
        /\ terminating' = FALSE
    BY <1>12 DEF CancelTerminates
  <2>3. CASE hpc' = hpc /\ exit' = exit
    <3>1. exit' \in Exits /\ (exit' = "none" <=> Alive')
      BY <2>3
    <3>2. {closed', cancelled', terminating', requestSent', commitSent', cancelSent',
           preparedSeen', mutationSeen', succeeded'} \subseteq BOOLEAN
      BY <2>2 DEF flags, seen
    <3>3. QED
      BY <2>2, <2>3, <3>1, <3>2 DEF flags, seen
  <2>4. QED
    BY <1>12, <2>1, <2>3 DEF CancelTerminates, Exit
<1>13. CASE ReceiveProgress
  <2>1. phaseDone' \in [Phases -> -1..Size] /\ phaseIndex' \in -1..3
    BY <1>13, Progressed DEF ReceiveProgress, Receiving
  <2>2. QED
    BY <1>13, Progressed, <2>1, ZenonT(60)
    DEF ReceiveProgress, helperVars, userVars, RunnerEnds, Receiving,
        Continue, Broken
<1>14. QED
  BY <1>2, <1>3, <1>4, <1>5, <1>6, <1>7, <1>8, <1>9, <1>10, <1>11, <1>12, <1>13 DEF Acts,
      HelperActs, ElseActs, RunnerActs

LEMMA QueuesStep ==
  ASSUME IInv, Acts
  PROVE  Queues'
<1>1. Queues /\ Capacity \in Nat /\ Decided
  BY ParameterAssumption DEF IInv
<1>2. /\ CanSend => Len(toRunner) + 1 <= Capacity
      /\ toRunner # <<>> => Tail(toRunner) \in Seq(Packets) /\ Len(Tail(toRunner)) <= Capacity
      /\ toHelper # <<>> => Tail(toHelper) \in Seq(Orders) /\ Len(Tail(toHelper)) <= 2
  BY <1>1, Taking DEF Queues, CanSend
<1>3. \A p \in Packets : CanSend =>
        Append(toRunner, p) \in Seq(Packets) /\ Len(Append(toRunner, p)) <= Capacity
  BY <1>1, <1>2, Sending DEF Queues
<1>4. \A q \in Orders : ~commitSent /\ ~cancelSent =>
        Append(toHelper, q) \in Seq(Orders) /\ Len(Append(toHelper, q)) <= 2
  <2>1. ~commitSent /\ ~cancelSent => Len(toHelper) <= 1
    <3>1. SUFFICES ASSUME ~commitSent, ~cancelSent, 1 < Len(toHelper) PROVE FALSE
      BY <1>1, Sending DEF Queues
    <3>2. 1 \in DOMAIN toHelper /\ Len(toHelper) \in DOMAIN toHelper
      BY <1>1, <3>1 DEF Queues
    <3>3. toHelper[Len(toHelper)] \in {"COMMIT", "CANCEL"}
      BY <1>1, <3>1, <3>2 DEF Queues, Decided, Orders
    <3>4. QED
      BY <1>1, <3>1, <3>2, <3>3 DEF Decided
  <2>2. QED
    BY <1>1, <2>1, Sending DEF Queues
<1>5. /\ rpc = "transfer" \/ rpc = "send-cancel" => ~commitSent /\ ~cancelSent
      /\ ~preparedSeen => ~commitSent
  BY <1>1 DEF Decided
<1> USE <1>1 DEF Queues
<1>6. CASE
      \/ AuthenticationFails \/ RequestFails \/ PreflightFails \/ NoCommit \/ MediumStep
      \/ MutationFails \/ Deactivate \/ HelperFails \/ HelperExits \/ HelperKilled
  BY <1>6 DEF AuthenticationFails, runnerVars, userVars, flags, seen, Exit, RequestFails,
      PreflightFails, NoCommit, Reset, MediumStep, AtItem, MutationFails, Deactivate,
      HelperFails, HelperExits, HelperKilled, Alive
<1>7. CASE UserCancels \/ CancelTerminates \/ ApplicationDies \/ HandshakeKill
  BY <1>7 DEF UserCancels, helperVars, flags, seen, Alive, CancelTerminates, Exit,
      ApplicationDies, HandshakeKill, runnerVars, userVars
<1>8. CASE HandshakeEnds \/ HandshakeStalls \/ MarkRequestSent
  BY <1>8 DEF HandshakeEnds, helperVars, userVars, flags, seen, Alive, RunnerEnds, HandshakeStalls,
      MarkRequestSent
<1>9. CASE ReadFlags
  BY <1>9 DEF ReadFlags, helperVars, userVars, flags, seen, Alive, RunnerOnly
<1>10. CASE SelectTimesOut \/ ReceiveFails \/ EndOfChannel \/ PollProcess \/ Stall
  BY <1>10 DEF SelectTimesOut, helperVars, userVars, flags, seen, Alive, RunnerOnly,
      ReceiveFails, RunnerEnds, Broken, EndOfChannel, PollProcess, Stall
<1>11. CASE WaitForExit \/ WaitTimesOut \/ Conclude \/ Return \/ QuarantinedReturn
  BY <1>11 DEF WaitForExit, helperVars, userVars, flags, seen, Alive, RunnerOnly,
      WaitTimesOut, Exit, RunnerEnds, MayStop, Conclude, Broken, Return, Returning,
      QuarantinedReturn, Quarantine
<1>12. CASE HelperReady
  BY <1>12, <1>3, PacketIs DEF HelperReady, runnerVars, userVars, flags, seen, Exit, Send
<1>13. CASE HelperReceivesRequest
  BY <1>13, <1>2 DEF HelperReceivesRequest, runnerVars, userVars, flags, seen
<1>14. CASE PreflightProgress
  BY <1>14, <1>3, PacketIs, ItemIs DEF PreflightProgress, runnerVars, userVars, flags, seen,
      Exit, Send, AtItem, PollCancels, PollIsQuiet, Reset
<1>15. CASE PrepareMutation
  BY <1>15, <1>3, PacketIs DEF PrepareMutation, runnerVars, userVars, flags, seen, Exit, Send,
      AtItem, PollCancels, PollIsQuiet, Reset
<1>16. CASE BeginMutation
  BY <1>16, <1>3, PacketIs, <1>2 DEF BeginMutation, runnerVars, userVars, flags, seen, Send
<1>17. CASE MutationProgress
  BY <1>17, <1>3, PacketIs, ItemIs DEF MutationProgress, runnerVars, userVars, flags, seen,
      Send, AtItem
<1>18. CASE SendSuccess
  BY <1>18, <1>3, PacketIs DEF SendSuccess, runnerVars, userVars, flags, seen, Send
<1>19. CASE ReceiveReady
  BY <1>19, <1>2 DEF ReceiveReady, helperVars, userVars, flags, seen, RunnerEnds
<1>20. CASE TransferRequest
  BY <1>20, <1>4, <1>5 DEF TransferRequest, helperVars, userVars, flags, seen, Alive, RunnerEnds,
      Orders
<1>21. CASE SendCancel
  BY <1>21, <1>4, <1>5 DEF SendCancel, helperVars, userVars, seen, Alive, RunnerEnds, Orders
<1>22. CASE ReceivePrepared
  BY <1>22, <1>2, <1>4, <1>5 DEF ReceivePrepared, helperVars, userVars, Alive, RunnerEnds,
      Receiving, Continue, Broken, Orders
<1>23. CASE ReceiveMutationStarted
  BY <1>23, <1>2 DEF ReceiveMutationStarted, helperVars, userVars, Alive, RunnerEnds, Receiving,
      Continue, Broken
<1>24. CASE ReceiveProgress
  BY <1>24, <1>2 DEF ReceiveProgress, helperVars, userVars, Alive, RunnerEnds, Receiving, Continue,
      Broken
<1>25. CASE ReceiveSuccess
  BY <1>25, <1>2 DEF ReceiveSuccess, helperVars, userVars, Alive, Receiving, Broken
<1>26. QED
  BY <1>6, <1>7, <1>8, <1>9, <1>10, <1>11, <1>12, <1>13, <1>14, <1>15, <1>16, <1>17, <1>18,
      <1>19, <1>20, <1>21, <1>22, <1>23, <1>24, <1>25 DEF Acts, HelperActs, ElseActs,
      RunnerActs

\* What the script says of an item.
LEMMA AtItemIs ==
  ASSUME IInv
  PROVE  /\ AtItem("prepare") => position = 3
         /\ AtItem("progress") => position # 3 /\ ViewAt(position + 1) = ViewAt(position)
         /\ AtItem("medium") =>
              position >= 4 /\ Script[position].view = ViewAt(position + 1)
         /\ position > Len(Script) => position = Len(Script) + 1 /\ ViewAt(position) = "active"
         /\ ViewAt(4) = "intact" /\ position \in Nat
<1>1. ScriptIsOrdered /\ Typed
  BY Ordered DEF IInv, Typed
<1>2. position \in Nat \ {0} /\ Len(Script) \in Nat /\ position <= Len(Script) + 1
      /\ Arm \in {8, 10}
  BY <1>1 DEF Typed, ScriptIsOrdered, Arm
<1>3. position > Len(Script) => position = Len(Script) + 1 /\ ViewAt(position) = "active"
  BY <1>1, <1>2 DEF ScriptIsOrdered, ViewAt
<1>4. AtItem("medium") => Script[position].view = ViewAt(position + 1)
  BY <1>2, ItemIs DEF AtItem
<1>5. AtItem("prepare") => position = 3
  BY <1>1, <1>2 DEF ScriptIsOrdered, AtItem
<1>6. AtItem("progress") => position # 3 /\ ViewAt(position + 1) = ViewAt(position)
  BY <1>1, <1>2 DEF ScriptIsOrdered, AtItem
<1>7. AtItem("medium") => position >= 4
  BY <1>1, <1>2 DEF ScriptIsOrdered, AtItem
<1>8. ViewAt(4) = "intact"
  BY DEF ViewAt
<1>9. QED
  BY <1>2, <1>3, <1>4, <1>5, <1>6, <1>7, <1>8

LEMMA FollowedStep ==
  ASSUME IInv, Acts
  PROVE  Followed'
<1>1. /\ Followed /\ kind' = kind /\ Len(Script)' = Len(Script)
      /\ \A i : ViewAt(i)' = ViewAt(i)
      /\ position \in Nat /\ hpc \in HelperStates /\ (exit = "none" <=> Alive)
      /\ Len(Script) \in Nat /\ Len(Script) > 4
  BY SameScript, Ordered DEF Acts, IInv, Typed, ScriptIsOrdered, Arm
<1> USE <1>1 DEF Followed, NotDecided, Committed, HelperStates, Alive
<1>2. CASE
      \/ HelperReady \/ AuthenticationFails \/ HelperReceivesRequest \/ RequestFails
      \/ PreflightProgress \/ PreflightFails \/ PrepareMutation \/ NoCommit \/ MutationFails
      \/ Deactivate \/ HelperFails \/ SendSuccess \/ HelperExits \/ HelperKilled
  BY <1>2, AtItemIs DEF HelperReady, runnerVars, userVars, flags, seen, Exit,
      AuthenticationFails, HelperReceivesRequest, RequestFails, PreflightProgress,
      PollCancels, PreflightFails, PrepareMutation, NoCommit, MutationFails, Deactivate,
      HelperFails, SendSuccess, HelperExits, HelperKilled
<1>3. CASE UserCancels \/ CancelTerminates \/ ApplicationDies \/ HandshakeKill
  BY <1>3 DEF UserCancels, helperVars, flags, seen, CancelTerminates, Exit, ApplicationDies,
      HandshakeKill, runnerVars, userVars
<1>4. CASE
      \/ ReceiveReady \/ HandshakeEnds \/ HandshakeStalls \/ TransferRequest
      \/ MarkRequestSent \/ ReadFlags \/ SendCancel \/ SelectTimesOut \/ ReceiveFails
      \/ EndOfChannel \/ PollProcess \/ Stall
  BY <1>4 DEF ReceiveReady, helperVars, userVars, flags, seen, RunnerEnds, HandshakeEnds,
      HandshakeStalls, TransferRequest, MarkRequestSent, ReadFlags, RunnerOnly, SendCancel,
      SelectTimesOut, ReceiveFails, EndOfChannel, PollProcess, Stall
<1>5. CASE
      \/ ReceivePrepared \/ ReceiveMutationStarted \/ ReceiveProgress \/ ReceiveSuccess
      \/ WaitForExit \/ WaitTimesOut \/ Conclude \/ Return \/ QuarantinedReturn
  BY <1>5 DEF ReceivePrepared, helperVars, userVars, RunnerEnds, Receiving, Continue,
      ReceiveMutationStarted, ReceiveProgress, ReceiveSuccess, WaitForExit, flags, seen,
      RunnerOnly, WaitTimesOut, Exit, MayStop, Conclude, Return, Returning, QuarantinedReturn,
      Quarantine
<1>6. CASE BeginMutation
  <2>1. view' = ViewAt(position') /\ position' >= 4
    BY <1>6, AtItemIs DEF BeginMutation
  <2>2. QED
    BY <1>6, <2>1 DEF BeginMutation
<1>7. CASE MutationProgress
  <2>1. view' = ViewAt(position') /\ position' >= 4
    BY <1>7, AtItemIs DEF MutationProgress
  <2>2. QED
    BY <1>7, <2>1 DEF MutationProgress
<1>8. CASE MediumStep
  <2>1. view' = ViewAt(position') /\ position' >= 4
    BY <1>8, AtItemIs, SameScript DEF MediumStep
  <2>2. QED
    BY <1>8, <2>1 DEF MediumStep
<1>9. QED
  BY <1>2, <1>3, <1>4, <1>5, <1>6, <1>7, <1>8 DEF Acts, HelperActs, ElseActs, RunnerActs

LEMMA DecidedStep ==
  ASSUME IInv, Acts
  PROVE  Decided'
<1>1. /\ Decided /\ view \in Views /\ rpc \in RunnerStates /\ hpc \in HelperStates
      /\ {requestSent, commitSent, cancelSent, cancelled, terminating, preparedSeen}
           \subseteq BOOLEAN
      /\ hpc \in NotDecided => view = "intact"
  BY DEF IInv, Typed, Followed
<1>2. Queues
  BY DEF IInv
<1>3. /\ DOMAIN toHelper = 1..Len(toHelper) /\ Len(toHelper) \in Nat
      /\ toHelper # <<>> =>
           /\ DOMAIN Tail(toHelper) = 1..(Len(toHelper) - 1)
           /\ \A i \in 1..(Len(toHelper) - 1) : Tail(toHelper)[i] = toHelper[i + 1]
           /\ Head(toHelper) = toHelper[1] /\ 1 \in DOMAIN toHelper
  BY <1>2, Taking DEF Queues
<1>4. \A o \in Orders :
        /\ DOMAIN Append(toHelper, o) = 1..(Len(toHelper) + 1)
        /\ \A i \in 1..Len(toHelper) : Append(toHelper, o)[i] = toHelper[i]
        /\ Append(toHelper, o)[Len(toHelper) + 1] = o
  BY <1>2, Sending DEF Queues
<1>5. toHelper # <<>> =>
        /\ \A i, j \in DOMAIN Tail(toHelper) :
             i < j => Tail(toHelper)[i] = "REQUEST" /\ Tail(toHelper)[j] # "REQUEST"
        /\ \A i \in DOMAIN Tail(toHelper) : Tail(toHelper)[i] = "COMMIT" => commitSent
        /\ \A i \in DOMAIN Tail(toHelper) : Tail(toHelper)[i] = "CANCEL" => cancelSent
        /\ Head(toHelper) = "COMMIT" => commitSent
  BY <1>1, <1>3 DEF Decided
<1>6. /\ rpc \in {"transfer", "send-cancel"} => ~commitSent /\ ~cancelSent
      /\ ~preparedSeen => ~commitSent
  BY <1>1 DEF Decided
<1>7. ASSUME NEW o \in Orders, ~commitSent, ~cancelSent, o = "REQUEST" => toHelper = <<>>
      PROVE  LET q == Append(toHelper, o) IN
             /\ \A i, j \in DOMAIN q : i < j => q[i] = "REQUEST" /\ q[j] # "REQUEST"
             /\ \A i \in DOMAIN q : q[i] = "COMMIT" => o = "COMMIT"
             /\ \A i \in DOMAIN q : q[i] = "CANCEL" => o = "CANCEL"
  <2> DEFINE q == Append(toHelper, o)
  <2>1. \A i \in DOMAIN toHelper : toHelper[i] = "REQUEST"
    BY <1>1, <1>2, <1>7 DEF Decided, Queues, Orders
  <2>2. Len(toHelper) <= 1 /\ (o = "REQUEST" => Len(toHelper) = 0)
    BY <1>1, <1>3, <1>7, <2>1 DEF Decided
  <2>3. /\ DOMAIN q = 1..(Len(toHelper) + 1) /\ q[Len(toHelper) + 1] = o
        /\ \A i \in 1..Len(toHelper) : q[i] = "REQUEST"
    BY <1>3, <1>4, <2>1
  <2> HIDE DEF q
  <2>4. QED
    BY <1>3, <2>2, <2>3 DEF q
<1> USE <1>1 DEF Decided, OneDecision, NotDecided, Committed, Over, RunnerStates, HelperStates
<1>8. CASE
      \/ HelperReady \/ AuthenticationFails \/ RequestFails \/ PreflightProgress
      \/ PreflightFails \/ PrepareMutation \/ NoCommit \/ MutationProgress \/ MediumStep
      \/ MutationFails \/ Deactivate \/ HelperFails \/ SendSuccess \/ HelperExits
      \/ HelperKilled
  BY <1>8 DEF HelperReady, runnerVars, userVars, flags, seen, Exit, AuthenticationFails,
      RequestFails, PreflightProgress, PollCancels, PreflightFails, PrepareMutation, NoCommit,
      MutationProgress, MediumStep, MutationFails, Deactivate, HelperFails, SendSuccess,
      HelperExits, HelperKilled, Alive
<1>9. CASE CancelTerminates \/ ApplicationDies \/ HandshakeKill
  BY <1>9 DEF CancelTerminates, flags, seen, Exit, Alive, ApplicationDies, helperVars,
      HandshakeKill, runnerVars, userVars
<1>10. CASE
      \/ ReceiveReady \/ HandshakeEnds \/ HandshakeStalls \/ MarkRequestSent \/ ReadFlags
      \/ SelectTimesOut \/ ReceiveFails \/ EndOfChannel \/ PollProcess \/ Stall
  BY <1>10 DEF ReceiveReady, helperVars, userVars, flags, seen, RunnerEnds, HandshakeEnds,
      HandshakeStalls, MarkRequestSent, ReadFlags, RunnerOnly, SelectTimesOut, ReceiveFails,
      EndOfChannel, PollProcess, Stall
<1>11. CASE
      \/ ReceiveMutationStarted \/ ReceiveProgress \/ ReceiveSuccess \/ WaitForExit
      \/ WaitTimesOut \/ Conclude \/ Return \/ QuarantinedReturn
  BY <1>11 DEF ReceiveMutationStarted, helperVars, userVars, RunnerEnds, Receiving, Continue,
      ReceiveProgress, ReceiveSuccess, WaitForExit, flags, seen, RunnerOnly, WaitTimesOut,
      Exit, MayStop, Conclude, Return, Returning, Alive, QuarantinedReturn, Quarantine
<1>12. CASE HelperReceivesRequest
  BY <1>12, <1>5 DEF HelperReceivesRequest, runnerVars, userVars, flags, seen
<1>13. CASE BeginMutation
  BY <1>13, <1>5 DEF BeginMutation, runnerVars, userVars, flags, seen
<1>14. CASE UserCancels
  BY <1>14 DEF UserCancels, helperVars, flags, seen, Alive
<1>15. CASE TransferRequest
  BY <1>15, <1>6, <1>7 DEF TransferRequest, helperVars, userVars, flags, seen, RunnerEnds, Orders
<1>16. CASE SendCancel
  BY <1>16, <1>6, <1>7 DEF SendCancel, helperVars, userVars, seen, RunnerEnds, Orders
<1>17. CASE ReceivePrepared
  BY <1>17, <1>6, <1>7, ZenonT(60)
  DEF ReceivePrepared, helperVars, userVars, RunnerEnds, Receiving, Continue,
      Orders
<1>18. QED
  BY <1>8, <1>9, <1>10, <1>11, <1>12, <1>13, <1>14, <1>15, <1>16, <1>17 DEF Acts, HelperActs,
      ElseActs, RunnerActs

LEMMA ToldStep ==
  ASSUME IInv, Acts
  PROVE  Told'
<1>1. /\ Told /\ Decided /\ kind' = kind /\ exit \in Exits /\ (exit = "none" <=> Alive)
      /\ rpc \in RunnerStates /\ report \in ReportValues
      /\ commitSent \in BOOLEAN /\ commitSent' \in BOOLEAN
  BY TypedStep DEF Acts, IInv, Typed
<1>2. /\ rpc = "finally" /\ ~requestSent => ~commitSent
      /\ rpc \in {"handshake", "transfer", "mark"} => ~commitSent
  BY <1>1 DEF Decided
<1> USE <1>1 DEF Told, QuarantineIsKept, RunnerStates, ReportValues, Exits, Alive, Over
<1>3. CASE
      \/ HelperReady \/ AuthenticationFails \/ HelperReceivesRequest \/ RequestFails
      \/ PreflightProgress \/ PreflightFails \/ PrepareMutation \/ BeginMutation \/ NoCommit
      \/ MutationProgress \/ MediumStep \/ MutationFails \/ Deactivate \/ HelperFails
      \/ SendSuccess \/ HelperExits \/ HelperKilled
  BY <1>3 DEF HelperReady, runnerVars, userVars, flags, seen, Exit, AuthenticationFails,
      HelperReceivesRequest, RequestFails, PreflightProgress, PollCancels, PreflightFails,
      PrepareMutation, BeginMutation, NoCommit, MutationProgress, MediumStep, MutationFails,
      Deactivate, HelperFails, SendSuccess, HelperExits, HelperKilled
<1>4. CASE UserCancels \/ CancelTerminates \/ ApplicationDies \/ HandshakeKill
  BY <1>4 DEF UserCancels, helperVars, flags, seen, CancelTerminates, Exit, ApplicationDies,
      HandshakeKill, runnerVars, userVars
<1>5. CASE
      \/ ReceiveReady \/ HandshakeEnds \/ HandshakeStalls \/ TransferRequest
      \/ MarkRequestSent \/ ReadFlags \/ SendCancel \/ SelectTimesOut \/ ReceiveFails
      \/ EndOfChannel \/ PollProcess \/ Stall
  BY <1>5, <1>2 DEF ReceiveReady, helperVars, userVars, flags, seen, RunnerEnds, HandshakeEnds,
      HandshakeStalls, TransferRequest, MarkRequestSent, ReadFlags, RunnerOnly, SendCancel,
      SelectTimesOut, ReceiveFails, Broken, EndOfChannel, PollProcess, Stall
<1>6. CASE
      \/ ReceivePrepared \/ ReceiveMutationStarted \/ ReceiveProgress \/ ReceiveSuccess
      \/ WaitForExit \/ WaitTimesOut \/ Conclude \/ Return \/ QuarantinedReturn
  BY <1>6, <1>2 DEF ReceivePrepared, helperVars, userVars, RunnerEnds, Receiving, Continue, Broken,
      ReceiveMutationStarted, ReceiveProgress, ReceiveSuccess, WaitForExit, flags, seen,
      RunnerOnly, WaitTimesOut, Exit, MayStop, Conclude, Return, Returning, QuarantinedReturn,
      Quarantine
<1>7. QED
  BY <1>3, <1>4, <1>5, <1>6 DEF Acts, HelperActs, ElseActs, RunnerActs

\* The reports in the channel, and the last ones that were seen.
LEMMA ReportFacts ==
  ASSUME IInv, kind # "raw"
  PROVE  /\ ScriptIsOrdered /\ ProgressIsOrdered /\ Reported /\ Queues
         /\ \A k \in 1..(position - 1) :
              k \in 1..Len(Script)
              /\ (IsProgress(k) => Script[k] \in ProgressPackets)
         /\ position \in Nat \ {0} /\ position <= Len(Script) + 1 /\ Len(Script) \in Nat
         /\ phaseDone \in [Phases -> -1..Size] /\ phaseIndex \in -1..3
         /\ Len(toRunner) \in Nat /\ DOMAIN toRunner = 1..Len(toRunner)
         /\ \A i \in 1..Len(toRunner) :
              toRunner[i] \in Packets /\ (IsReport(i) => toRunner[i] \in ProgressPackets)
<1>1. ScriptIsOrdered /\ ProgressIsOrdered /\ Reported /\ Queues
  BY Ordered, ReportsOrdered DEF IInv, Typed
<1>2. /\ position \in Nat \ {0} /\ position <= Len(Script) + 1 /\ Len(Script) \in Nat
      /\ phaseDone \in [Phases -> -1..Size] /\ phaseIndex \in -1..3
  BY <1>1 DEF IInv, Typed, ScriptIsOrdered
<1>3. /\ Len(toRunner) \in Nat /\ DOMAIN toRunner = 1..Len(toRunner)
      /\ \A i \in 1..Len(toRunner) : toRunner[i] \in Packets
  BY <1>1 DEF Queues
<1>4. \A p \in Packets : p.kind = "progress" => p \in ProgressPackets
  BY DEF Packets
<1>5. \A k \in 1..(position - 1) : k \in 1..Len(Script)
  BY <1>2
<1>6. \A k \in 1..Len(Script) : IsProgress(k) => Script[k] \in ProgressPackets
  <2>1. \A p \in Items : p.kind = "progress" => p \in ProgressPackets
    BY MediumIs DEF Items
  <2>2. QED
    BY <1>1, <2>1 DEF ScriptIsOrdered, IsProgress
<1>7. QED
  BY <1>1, <1>2, <1>3, <1>4, <1>5, <1>6 DEF IsReport, Sent

LEMMA ProgressTypes ==
  ASSUME NEW p \in ProgressPackets
  PROVE  /\ p.phase \in Phases /\ p.done \in 0..Size /\ PhaseOrder[p.phase] \in 0..3
         /\ p.kind = "progress"
BY DEF ProgressPackets, PhaseOrder, Phases

LEMMA ReportedKept ==
  ASSUME IInv, kind # "raw", Script' = Script, UNCHANGED <<toRunner, phaseDone, phaseIndex>>,
         position' \in {position, position + 1}
  PROVE  Reported'
BY ReportFacts DEF Reported, IsReport, Sent, IsProgress, Before

LEMMA ReportedSent ==
  ASSUME IInv, kind # "raw", Script' = Script, UNCHANGED <<phaseDone, phaseIndex>>,
         position' \in {position, position + 1},
         NEW p \in Packets, p.kind # "progress", toRunner' = Append(toRunner, p)
  PROVE  Reported'
<1>1. /\ Len(toRunner') = Len(toRunner) + 1 /\ DOMAIN toRunner' = 1..(Len(toRunner) + 1)
      /\ \A i \in 1..Len(toRunner) : toRunner'[i] = toRunner[i]
      /\ toRunner'[Len(toRunner) + 1] = p
  BY ReportFacts, Sending DEF Queues
<1>2. \A i \in DOMAIN toRunner' : toRunner'[i].kind = "progress" =>
        i \in DOMAIN toRunner /\ toRunner'[i] = toRunner[i]
  BY <1>1, ReportFacts
<1>3. \A i \in DOMAIN toRunner' : toRunner'[i].kind = "progress" =>
        /\ \E k \in 1..(position - 1) : Script[k] = toRunner'[i]
        /\ phaseIndex <= PhaseOrder[toRunner'[i].phase]
        /\ phaseDone[toRunner'[i].phase] <= toRunner'[i].done
  BY <1>2, ReportFacts DEF Reported, IsReport, Sent
<1>4. \A i, j \in DOMAIN toRunner' :
        i < j /\ toRunner'[i].kind = "progress" /\ toRunner'[j].kind = "progress" =>
          Before(toRunner'[i], toRunner'[j])
  BY <1>2, ReportFacts DEF Reported, IsReport, Sent
<1>5. \A k \in 1..(position - 1) : k \in 1..(position' - 1)
  BY ReportFacts
<1>6. QED
  BY <1>3, <1>4, <1>5, ReportFacts, SMTT(30) DEF Reported, IsReport, Sent, IsProgress, Before

LEMMA ReportedReports ==
  ASSUME IInv, kind # "raw", Script' = Script, UNCHANGED <<phaseDone, phaseIndex>>,
         AtItem("progress"), position' = position + 1,
         toRunner' = Append(toRunner, Script[position])
  PROVE  Reported'
<1> DEFINE p == Script[position]
<1>1. position \in 1..Len(Script) /\ IsProgress(position) /\ p \in ProgressPackets
  BY ItemIs, ReportFacts DEF AtItem, IsProgress
<1>2. /\ Len(toRunner') = Len(toRunner) + 1 /\ DOMAIN toRunner' = 1..(Len(toRunner) + 1)
      /\ \A i \in 1..Len(toRunner) : toRunner'[i] = toRunner[i]
      /\ toRunner'[Len(toRunner) + 1] = p
  BY <1>1, ReportFacts, Sending DEF Queues, Packets
<1>3. \A k \in 1..(position - 1) : IsProgress(k) => Before(Script[k], p)
  BY <1>1, ReportFacts DEF ProgressIsOrdered
<1>4. /\ phaseIndex <= PhaseOrder[p.phase] /\ phaseDone[p.phase] <= p.done
  <2>1. PhaseOrder[p.phase] \in 0..3 /\ p.phase \in Phases /\ p.done \in 0..Size
    BY <1>1, ProgressTypes
  <2>2. phaseIndex # -1 => phaseIndex <= PhaseOrder[p.phase]
    BY <1>3, ReportFacts DEF Reported, Before
  <2>3. phaseDone[p.phase] # -1 => phaseDone[p.phase] <= p.done
    BY <1>3, <2>1, ReportFacts DEF Reported, Before
  <2>4. QED
    BY <2>1, <2>2, <2>3, ReportFacts, Sizes, SMTT(30)
<1> HIDE DEF p
<1>5. \A i \in DOMAIN toRunner' :
        \/ i \in DOMAIN toRunner /\ toRunner'[i] = toRunner[i] /\ i < Len(toRunner) + 1
        \/ i = Len(toRunner) + 1 /\ toRunner'[i] = p
  BY <1>2, ReportFacts
<1>6. \A i \in DOMAIN toRunner : IsReport(i) => Before(toRunner[i], p)
  <2>1. ASSUME NEW i \in DOMAIN toRunner, IsReport(i)
        PROVE  Before(toRunner[i], p)
    <3>1. PICK k \in 1..(position - 1) : Script[k] = toRunner[i]
      BY <2>1, ReportFacts DEF Reported
    <3>2. IsProgress(k)
      BY <2>1, <3>1 DEF IsProgress, IsReport, Sent
    <3>3. QED
      BY <1>3, <3>1, <3>2
  <2>2. QED
    BY <2>1
<1>7. \A i \in DOMAIN toRunner' : toRunner'[i].kind = "progress" =>
        \E k \in 1..position : Script[k] = toRunner'[i]
  BY <1>1, <1>5, ReportFacts DEF Reported, IsReport, Sent, p
<1>8. \A i, j \in DOMAIN toRunner' :
        i < j /\ toRunner'[i].kind = "progress" /\ toRunner'[j].kind = "progress" =>
          Before(toRunner'[i], toRunner'[j])
  BY <1>5, <1>6, ReportFacts DEF Reported, IsReport, Sent
<1>9. \A i \in DOMAIN toRunner' : toRunner'[i].kind = "progress" =>
        phaseIndex <= PhaseOrder[toRunner'[i].phase]
        /\ phaseDone[toRunner'[i].phase] <= toRunner'[i].done
  BY <1>4, <1>5, ReportFacts DEF Reported, IsReport, Sent
<1>10. \A k \in 1..(position - 1) : k \in 1..position
  BY ReportFacts
<1>11. position' - 1 = position
  BY ReportFacts
<1>12. QED
  BY <1>7, <1>8, <1>9, <1>10, <1>11, ReportFacts, SMTT(30)
     DEF Reported, IsReport, Sent, IsProgress, Before

LEMMA Rest ==
  ASSUME IInv, toRunner # <<>>, toRunner' = Tail(toRunner)
  PROVE  /\ DOMAIN toRunner' = 1..(Len(toRunner) - 1) /\ Head(toRunner) = toRunner[1]
         /\ Len(toRunner) \in Nat \ {0} /\ DOMAIN toRunner = 1..Len(toRunner)
         /\ \A i \in DOMAIN toRunner' :
              i + 1 \in DOMAIN toRunner /\ toRunner'[i] = toRunner[i + 1] /\ 1 < i + 1
<1>1. Queues
  BY DEF IInv
<1>2. QED
  BY <1>1, Taking DEF Queues

LEMMA ReportedTaken ==
  ASSUME IInv, kind # "raw", Script' = Script, position' = position,
         toRunner # <<>>, toRunner' = Tail(toRunner), UNCHANGED <<phaseDone, phaseIndex>>
  PROVE  Reported'
<1>1. \A i, j \in DOMAIN toRunner' : i < j => i + 1 < j + 1
  BY Rest
<1>2. QED
  BY <1>1, Rest, ReportFacts, SMTT(60) DEF Reported, IsReport, Sent, IsProgress, Before

LEMMA ReportedSeen ==
  ASSUME IInv, kind # "raw", Script' = Script, position' = position,
         toRunner # <<>>, toRunner' = Tail(toRunner), Head(toRunner).kind = "progress",
         phaseDone' = [phaseDone EXCEPT ![Head(toRunner).phase] = Head(toRunner).done],
         phaseIndex' = PhaseOrder[Head(toRunner).phase]
  PROVE  Reported'
<1> DEFINE p == Head(toRunner)
<1>1. p = toRunner[1] /\ 1 \in DOMAIN toRunner /\ IsReport(1) /\ p \in ProgressPackets
  BY Rest, ReportFacts DEF IsReport, Sent
<1>2. PICK k \in 1..(position - 1) : Script[k] = p
  BY <1>1, ReportFacts DEF Reported
<1>3. IsProgress(k) /\ p.phase \in Phases
  BY <1>1, <1>2, ProgressTypes DEF IsProgress
<1> HIDE DEF p
<1>4. \A i \in DOMAIN toRunner' : toRunner'[i].kind = "progress" => Before(p, toRunner'[i])
  BY <1>1, Rest, ReportFacts DEF Reported, IsReport, Sent
<1>5. /\ phaseIndex' = PhaseOrder[p.phase]
      /\ \A q \in Phases : phaseDone'[q] = IF q = p.phase THEN p.done ELSE phaseDone[q]
  BY <1>1, ReportFacts DEF p
<1>6. \A i \in DOMAIN toRunner' : toRunner'[i].kind = "progress" =>
        /\ phaseIndex' <= PhaseOrder[toRunner'[i].phase]
        /\ phaseDone'[toRunner'[i].phase] <= toRunner'[i].done
  <2>1. ASSUME NEW i \in DOMAIN toRunner', toRunner'[i].kind = "progress"
        PROVE  /\ phaseIndex' <= PhaseOrder[toRunner'[i].phase]
               /\ phaseDone'[toRunner'[i].phase] <= toRunner'[i].done
    <3>1. Before(p, toRunner'[i])
      BY <1>4, <2>1
    <3>2. /\ toRunner'[i].phase \in Phases
          /\ phaseDone[toRunner'[i].phase] <= toRunner'[i].done
      BY <2>1, Rest, ReportFacts, ProgressTypes DEF Reported, IsReport, Sent
    <3>3. QED
      BY <1>5, <3>1, <3>2 DEF Before
  <2>2. QED
    BY <2>1
<1>7. \A q \in Phases : phaseDone'[q] # -1 =>
        \E n \in 1..(position - 1) :
          IsProgress(n) /\ Script[n].phase = q /\ Script[n].done = phaseDone'[q]
  BY <1>2, <1>3, <1>5, ReportFacts, SMTT(30) DEF Reported
<1>8. \A i, j \in DOMAIN toRunner' : i < j => i + 1 < j + 1
  BY Rest
<1>9. \A i \in DOMAIN toRunner' : toRunner'[i].kind = "progress" =>
        \E n \in 1..(position - 1) : Script[n] = toRunner'[i]
  BY Rest, ReportFacts DEF Reported, IsReport, Sent
<1>10. \A i, j \in DOMAIN toRunner' :
         i < j /\ toRunner'[i].kind = "progress" /\ toRunner'[j].kind = "progress" =>
           Before(toRunner'[i], toRunner'[j])
  BY <1>8, Rest, ReportFacts DEF Reported, IsReport, Sent
<1>11. \E n \in 1..(position - 1) : IsProgress(n) /\ PhaseOrder[Script[n].phase] = phaseIndex'
  BY <1>2, <1>3, <1>5
<1>12. QED
  BY <1>6, <1>7, <1>9, <1>10, <1>11 DEF Reported, IsReport, Sent, IsProgress, Before

LEMMA ReportedStep ==
  ASSUME IInv, Acts, kind # "raw"
  PROVE  Reported'
<1>1. Script' = Script /\ IInv /\ kind # "raw"
  BY SameScript DEF Acts
<1>2. CASE
      \/ AuthenticationFails \/ HelperReceivesRequest \/ RequestFails \/ PreflightFails
      \/ NoCommit \/ MediumStep \/ MutationFails \/ Deactivate \/ HelperFails \/ HelperExits
      \/ HelperKilled
  <2>1. /\ UNCHANGED <<toRunner, phaseDone, phaseIndex>>
        /\ position' \in {position, position + 1}
    BY <1>2 DEF AuthenticationFails, runnerVars, userVars, flags, seen, Exit,
        HelperReceivesRequest, RequestFails, PreflightFails, NoCommit, MediumStep,
        MutationFails, Deactivate, HelperFails, HelperExits, HelperKilled
  <2>2. QED
    BY <1>1, <2>1, ReportedKept
<1>3. CASE UserCancels \/ CancelTerminates \/ ApplicationDies \/ HandshakeKill
  <2>1. /\ UNCHANGED <<toRunner, phaseDone, phaseIndex>>
        /\ position' \in {position, position + 1}
    BY <1>3 DEF UserCancels, helperVars, flags, seen, CancelTerminates, Exit, ApplicationDies,
        HandshakeKill, runnerVars, userVars
  <2>2. QED
    BY <1>1, <2>1, ReportedKept
<1>4. CASE
      \/ HandshakeEnds \/ HandshakeStalls \/ TransferRequest \/ MarkRequestSent \/ ReadFlags
      \/ SendCancel \/ SelectTimesOut \/ ReceiveFails \/ EndOfChannel \/ PollProcess
      \/ Stall
  <2>1. /\ UNCHANGED <<toRunner, phaseDone, phaseIndex>>
        /\ position' \in {position, position + 1}
    BY <1>4 DEF HandshakeEnds, helperVars, userVars, flags, seen, RunnerEnds, HandshakeStalls,
        TransferRequest, MarkRequestSent, ReadFlags, RunnerOnly, SendCancel, SelectTimesOut,
        ReceiveFails, EndOfChannel, PollProcess, Stall
  <2>2. QED
    BY <1>1, <2>1, ReportedKept
<1>5. CASE WaitForExit \/ WaitTimesOut \/ Conclude \/ Return \/ QuarantinedReturn
  <2>1. /\ UNCHANGED <<toRunner, phaseDone, phaseIndex>>
        /\ position' \in {position, position + 1}
    BY <1>5 DEF WaitForExit, helperVars, userVars, flags, seen, RunnerOnly, WaitTimesOut,
        Exit, RunnerEnds, MayStop, Conclude, Return, Returning, QuarantinedReturn, Quarantine
  <2>2. QED
    BY <1>1, <2>1, ReportedKept
<1>6. CASE HelperReady
  <2>1. /\ UNCHANGED <<phaseDone, phaseIndex>> /\ position' \in {position, position + 1}
        /\ toRunner' \in {toRunner, Append(toRunner, [kind |-> "ready"])}
    BY <1>6 DEF HelperReady, runnerVars, userVars, flags, seen, Exit, Send
  <2>2. QED
    BY <1>1, <2>1, ReportedKept, ReportedSent, PacketIs
<1>7. CASE PreflightProgress
  <2>1. /\ UNCHANGED <<phaseDone, phaseIndex>>
        /\ \/ toRunner' = toRunner /\ position' \in {position, position + 1}
           \/ /\ toRunner' = Append(toRunner, Script[position]) /\ position' = position + 1
              /\ AtItem("progress")
    BY <1>7 DEF PreflightProgress, runnerVars, userVars, flags, seen, Exit, Send, PollCancels
  <2>2. QED
    BY <1>1, <2>1, ReportedKept, ReportedReports
<1>8. CASE PrepareMutation
  <2>1. /\ UNCHANGED <<phaseDone, phaseIndex>> /\ position' \in {position, position + 1}
        /\ toRunner' \in {toRunner, Append(toRunner, [kind |-> "prepared"])}
    BY <1>8 DEF PrepareMutation, runnerVars, userVars, flags, seen, Exit, Send, PollCancels
  <2>2. QED
    BY <1>1, <2>1, ReportedKept, ReportedSent, PacketIs
<1>9. CASE BeginMutation
  <2>1. /\ UNCHANGED <<phaseDone, phaseIndex>> /\ position' \in {position, position + 1}
        /\ toRunner' \in {toRunner, Append(toRunner, [kind |-> "mutation-started"])}
    BY <1>9 DEF BeginMutation, runnerVars, userVars, flags, seen, Send
  <2>2. QED
    BY <1>1, <2>1, ReportedKept, ReportedSent, PacketIs
<1>10. CASE MutationProgress
  <2>1. /\ UNCHANGED <<phaseDone, phaseIndex>>
        /\ \/ toRunner' = toRunner /\ position' \in {position, position + 1}
           \/ /\ toRunner' = Append(toRunner, Script[position]) /\ position' = position + 1
              /\ AtItem("progress")
    BY <1>10 DEF MutationProgress, runnerVars, userVars, flags, seen, Send
  <2>2. QED
    BY <1>1, <2>1, ReportedKept, ReportedReports
<1>11. CASE SendSuccess
  <2>1. /\ UNCHANGED <<phaseDone, phaseIndex>> /\ position' \in {position, position + 1}
        /\ toRunner' \in {toRunner, Append(toRunner, [kind |-> "success"])}
    BY <1>11 DEF SendSuccess, runnerVars, userVars, flags, seen, Send
  <2>2. QED
    BY <1>1, <2>1, ReportedKept, ReportedSent, PacketIs
<1>12. CASE ReceiveReady
  <2>1. /\ UNCHANGED <<phaseDone, phaseIndex, position>>
        /\ toRunner # <<>> /\ toRunner' = Tail(toRunner)
    BY <1>12 DEF ReceiveReady, helperVars, userVars, flags, seen, RunnerEnds
  <2>2. QED
    BY <1>1, <2>1, ReportedTaken
<1>13. CASE ReceivePrepared
  <2>1. /\ UNCHANGED <<phaseDone, phaseIndex, position>>
        /\ toRunner # <<>> /\ toRunner' = Tail(toRunner)
    BY <1>13 DEF ReceivePrepared, helperVars, userVars, RunnerEnds, Receiving, Continue
  <2>2. QED
    BY <1>1, <2>1, ReportedTaken
<1>14. CASE ReceiveMutationStarted
  <2>1. /\ UNCHANGED <<phaseDone, phaseIndex, position>>
        /\ toRunner # <<>> /\ toRunner' = Tail(toRunner)
    BY <1>14 DEF ReceiveMutationStarted, helperVars, userVars, RunnerEnds, Receiving, Continue
  <2>2. QED
    BY <1>1, <2>1, ReportedTaken
<1>15. CASE ReceiveProgress
  <2>1. /\ position' = position /\ toRunner # <<>> /\ toRunner' = Tail(toRunner)
        /\ Head(toRunner).kind = "progress"
        /\ \/ UNCHANGED <<phaseDone, phaseIndex>>
           \/ /\ phaseDone' = [phaseDone EXCEPT ![Head(toRunner).phase] = Head(toRunner).done]
              /\ phaseIndex' = PhaseOrder[Head(toRunner).phase]
    BY <1>15 DEF ReceiveProgress, Receiving, helperVars
  <2>2. QED
    BY <1>1, <2>1, ReportedTaken, ReportedSeen
<1>16. CASE ReceiveSuccess
  <2>1. /\ UNCHANGED <<phaseDone, phaseIndex, position>>
        /\ toRunner # <<>> /\ toRunner' = Tail(toRunner)
    BY <1>16 DEF ReceiveSuccess, helperVars, userVars, Receiving
  <2>2. QED
    BY <1>1, <2>1, ReportedTaken
<1>17. QED
  BY <1>2, <1>3, <1>4, <1>5, <1>6, <1>7, <1>8, <1>9, <1>10, <1>11, <1>12, <1>13, <1>14, <1>15,
      <1>16 DEF Acts, HelperActs, ElseActs, RunnerActs

\* What the announcement of the mutation needs of every step.
Onward ==
  /\ rpc' = "handshake" =>
       rpc = "handshake" /\ hpc' \notin {"transaction", "await-control"} \union Committed
  /\ hpc' \in NotDecided => hpc \in NotDecided
  /\ rpc' \notin Over => rpc \notin Over

Placed(j) ==
  IF toRunner[j].phase = "source-validation"
    THEN ~mutationSeen /\ \A i \in 1..(j - 1) : Sent(i) # "mutation-started"
    ELSE mutationSeen \/ \E i \in 1..(j - 1) : Sent(i) = "mutation-started"

LEMMA AnnouncedKept ==
  ASSUME IInv, kind # "raw", Onward, UNCHANGED <<toRunner, mutationSeen>>,
         connected' /\ hpc' = "mutating" => connected /\ hpc = "mutating"
  PROVE  Announced'
BY DEF IInv, Announced, Onward, IsReport, Sent

LEMMA AnnouncedSent ==
  ASSUME IInv, kind # "raw", Onward, UNCHANGED mutationSeen,
         NEW p \in Packets, p.kind # "progress", toRunner' = Append(toRunner, p),
         rpc' = "handshake" => p.kind = "ready",
         hpc' \in NotDecided => p.kind # "mutation-started",
         connected' /\ hpc' = "mutating" =>
           p.kind = "mutation-started" \/ (connected /\ hpc = "mutating")
  PROVE  Announced'
<1>1. /\ DOMAIN toRunner' = 1..(Len(toRunner) + 1) /\ toRunner'[Len(toRunner) + 1] = p
      /\ \A i \in DOMAIN toRunner : i \in DOMAIN toRunner' /\ toRunner'[i] = toRunner[i]
      /\ \A i \in DOMAIN toRunner' : i \in DOMAIN toRunner \/ i = Len(toRunner) + 1
      /\ Len(toRunner) + 1 \in DOMAIN toRunner'
  BY ReportFacts, Sending DEF Queues
<1>2. Announced
  BY DEF IInv
<1>3. rpc' = "handshake" =>
        /\ hpc' \notin {"transaction", "await-control"} \union Committed
        /\ \A i \in DOMAIN toRunner' : toRunner'[i].kind = "ready"
  BY <1>1, <1>2 DEF Announced, Sent, Onward
<1>4. hpc' \in NotDecided =>
        ~mutationSeen' /\ \A i \in DOMAIN toRunner' : toRunner'[i].kind # "mutation-started"
  BY <1>1, <1>2 DEF Announced, Sent, Onward
<1>5. ASSUME rpc' \notin Over, NEW j \in DOMAIN toRunner', toRunner'[j].kind = "progress"
      PROVE  Placed(j)'
  <2>1. j \in DOMAIN toRunner /\ IsReport(j) /\ toRunner'[j] = toRunner[j] /\ j \in Nat
    BY <1>1, <1>5, ReportFacts DEF IsReport, Sent
  <2>2. \A i \in 1..(j - 1) : toRunner'[i] = toRunner[i]
    BY <1>1, <2>1, ReportFacts
  <2>3. Placed(j)
    BY <1>2, <1>5, <2>1 DEF Announced, Onward, Placed
  <2>4. QED
    BY <2>1, <2>2, <2>3 DEF Placed, Sent
<1>6. rpc' \notin Over /\ connected' /\ hpc' = "mutating" =>
        mutationSeen' \/ \E i \in DOMAIN toRunner' : toRunner'[i].kind = "mutation-started"
  BY <1>1, <1>2 DEF Announced, Sent, Onward
<1>7. QED
  BY <1>3, <1>4, <1>5, <1>6 DEF Announced, IsReport, Sent, Placed

LEMMA AnnouncedReports ==
  ASSUME IInv, kind # "raw", Onward, UNCHANGED mutationSeen, AtItem("progress"),
         toRunner' = Append(toRunner, Script[position]), rpc' # "handshake",
         hpc \in NotDecided \/ (connected /\ hpc = "mutating"),
         hpc \in NotDecided => position <= 3, hpc = "mutating" => position >= 4,
         connected' /\ hpc' = "mutating" => connected /\ hpc = "mutating"
  PROVE  Announced'
<1> DEFINE p == Script[position]
<1>1. /\ position \in 1..Len(Script) /\ IsProgress(position) /\ p \in Packets
      /\ p.kind = "progress"
  BY ItemIs, ReportFacts DEF AtItem, IsProgress, Packets
<1>2. p.phase = "source-validation" <=> position <= 2
  BY <1>1, ReportFacts DEF ProgressIsOrdered
<1>3. position # 3
  BY AtItemIs
<1>4. p.phase = "source-validation" <=> hpc \in NotDecided
  BY <1>1, <1>2, <1>3 DEF NotDecided
<1>5. /\ DOMAIN toRunner' = 1..(Len(toRunner) + 1) /\ toRunner'[Len(toRunner) + 1] = p
      /\ \A i \in DOMAIN toRunner : i \in DOMAIN toRunner' /\ toRunner'[i] = toRunner[i]
      /\ \A i \in DOMAIN toRunner' : i \in DOMAIN toRunner \/ i = Len(toRunner) + 1
  BY <1>1, ReportFacts, Sending DEF Queues
<1>6. Announced
  BY DEF IInv
<1> HIDE DEF p
<1>7. hpc' \in NotDecided =>
        ~mutationSeen' /\ \A i \in DOMAIN toRunner' : toRunner'[i].kind # "mutation-started"
  BY <1>1, <1>5, <1>6 DEF Announced, Sent, Onward
<1>8. ASSUME rpc' \notin Over, NEW j \in DOMAIN toRunner', toRunner'[j].kind = "progress"
      PROVE  Placed(j)'
  <2>1. CASE j \in DOMAIN toRunner
    <3>1. IsReport(j) /\ toRunner'[j] = toRunner[j] /\ j \in Nat
      BY <1>5, <1>8, <2>1, ReportFacts DEF IsReport, Sent
    <3>2. \A i \in 1..(j - 1) : toRunner'[i] = toRunner[i]
      BY <1>5, <2>1, <3>1, ReportFacts
    <3>3. Placed(j)
      BY <1>6, <1>8, <2>1, <3>1 DEF Announced, Onward, Placed
    <3>4. QED
      BY <3>1, <3>2, <3>3 DEF Placed, Sent
  <2>2. CASE j = Len(toRunner) + 1
    <3>1. /\ toRunner'[j] = p /\ j - 1 = Len(toRunner) /\ DOMAIN toRunner = 1..(j - 1)
          /\ \A i \in 1..(j - 1) : toRunner'[i] = toRunner[i]
      BY <1>5, <2>2, ReportFacts
    <3>2. /\ hpc \in NotDecided =>
               ~mutationSeen /\ \A i \in 1..(j - 1) : toRunner'[i].kind # "mutation-started"
          /\ hpc \notin NotDecided =>
               mutationSeen \/ \E i \in 1..(j - 1) : toRunner'[i].kind = "mutation-started"
      BY <1>6, <1>8, <3>1 DEF Announced, Onward, Sent
    <3>3. QED
      BY <1>4, <3>1, <3>2 DEF Placed, Sent
  <2>3. QED
    BY <1>5, <2>1, <2>2
<1>9. rpc' \notin Over /\ connected' /\ hpc' = "mutating" =>
        mutationSeen' \/ \E i \in DOMAIN toRunner' : toRunner'[i].kind = "mutation-started"
  BY <1>5, <1>6 DEF Announced, Sent, Onward
<1>10. QED
  BY <1>7, <1>8, <1>9 DEF Announced, IsReport, Sent, Placed

LEMMA AnnouncedTaken ==
  ASSUME IInv, kind # "raw", Onward, toRunner # <<>>, toRunner' = Tail(toRunner),
         rpc' # "handshake",
         mutationSeen' => mutationSeen \/ Head(toRunner).kind = "mutation-started",
         mutationSeen => mutationSeen',
         rpc' \notin Over /\ Head(toRunner).kind = "mutation-started" => mutationSeen',
         connected' /\ hpc' = "mutating" => connected /\ hpc = "mutating"
  PROVE  Announced'
<1>1. Announced
  BY DEF IInv
<1>2. /\ 1 \in DOMAIN toRunner /\ Head(toRunner) = toRunner[1]
      /\ \A i \in DOMAIN toRunner' : i + 1 \in DOMAIN toRunner /\ toRunner'[i] = toRunner[i + 1]
      /\ \A i \in DOMAIN toRunner : i = 1 \/ i - 1 \in DOMAIN toRunner'
      /\ \A i \in DOMAIN toRunner' : i \in Nat \ {0}
  BY Rest
<1>3. hpc' \in NotDecided =>
        ~mutationSeen' /\ \A i \in DOMAIN toRunner' : toRunner'[i].kind # "mutation-started"
  BY <1>1, <1>2 DEF Announced, Sent, Onward
<1>4. ASSUME rpc' \notin Over, NEW j \in DOMAIN toRunner', toRunner'[j].kind = "progress"
      PROVE  Placed(j)'
  <2>1. /\ IsReport(j + 1) /\ toRunner'[j] = toRunner[j + 1] /\ j + 1 \in DOMAIN toRunner
        /\ j \in Nat \ {0}
    BY <1>2, <1>4 DEF IsReport, Sent
  <2>2. Placed(j + 1)
    BY <1>1, <1>4, <2>1 DEF Announced, Onward, Placed
  <2>3. \A i \in 1..(j - 1) : i + 1 \in 1..j /\ toRunner'[i] = toRunner[i + 1]
    BY <2>1, Rest
  <2>4. \A i \in 1..j : i = 1 \/ (i - 1 \in 1..(j - 1) /\ toRunner'[i - 1] = toRunner[i])
    BY <2>1, Rest
  <2>5. 1 \in 1..j /\ (j + 1) - 1 = j
    BY <2>1
  <2>6. QED
    BY <1>2, <1>4, <2>1, <2>2, <2>3, <2>4, <2>5, SMTT(30) DEF Placed, Sent
<1>5. rpc' \notin Over /\ connected' /\ hpc' = "mutating" =>
        mutationSeen' \/ \E i \in DOMAIN toRunner' : toRunner'[i].kind = "mutation-started"
  <2>1. SUFFICES ASSUME rpc' \notin Over, connected', hpc' = "mutating", ~mutationSeen'
        PROVE  \E i \in DOMAIN toRunner' : toRunner'[i].kind = "mutation-started"
    OBVIOUS
  <2>2. PICK i \in DOMAIN toRunner : Sent(i) = "mutation-started"
    BY <1>1, <2>1 DEF Announced, Onward
  <2>3. i # 1
    BY <1>2, <2>1, <2>2 DEF Sent
  <2>4. i - 1 \in DOMAIN toRunner' /\ toRunner'[i - 1] = toRunner[i]
    BY <2>2, <2>3, Rest
  <2>5. QED
    BY <2>2, <2>4 DEF Sent
<1>6. QED
  BY <1>3, <1>4, <1>5 DEF Announced, IsReport, Sent, Placed

LEMMA AnnouncedStep ==
  ASSUME IInv, Acts, kind # "raw"
  PROVE  Announced'
<1>1. IInv /\ kind # "raw" /\ rpc \in RunnerStates /\ hpc \in HelperStates
  BY DEF IInv, Typed
<1>2. /\ rpc = "handshake" =>
           toHelper = <<>> /\ hpc \notin {"transaction", "await-control"} \union Committed
      /\ hpc = "await-control" => hpc' # "mutating" \/ position = 3
      /\ hpc = "transaction" => position <= 3
      /\ hpc = "mutating" => position >= 4
  BY DEF IInv, Decided, Announced, Followed, Committed
<1>3. rpc = "handshake" /\ toRunner # <<>> => Head(toRunner).kind = "ready"
  BY ReportFacts, Taking DEF IInv, Announced, Queues, Sent
<1> USE DEF Onward, NotDecided, Committed, Over
<1>4. CASE
      \/ AuthenticationFails \/ HelperReceivesRequest \/ RequestFails \/ PreflightFails
      \/ NoCommit \/ MediumStep \/ MutationFails \/ Deactivate \/ HelperFails \/ HelperExits
      \/ HelperKilled
  <2>1. /\ Onward /\ UNCHANGED <<toRunner, mutationSeen>>
        /\ connected' /\ hpc' = "mutating" => connected /\ hpc = "mutating"
    BY <1>1, <1>2, <1>4 DEF AuthenticationFails, runnerVars, userVars, flags, seen, Exit,
        HelperReceivesRequest, RequestFails, PreflightFails, NoCommit, MediumStep,
        MutationFails, Deactivate, HelperFails, HelperExits, HelperKilled
  <2>2. QED
    BY <1>1, <2>1, AnnouncedKept
<1>5. CASE UserCancels \/ CancelTerminates \/ ApplicationDies \/ HandshakeKill
  <2>1. /\ Onward /\ UNCHANGED <<toRunner, mutationSeen>>
        /\ connected' /\ hpc' = "mutating" => connected /\ hpc = "mutating"
    BY <1>1, <1>2, <1>5 DEF UserCancels, helperVars, flags, seen, CancelTerminates, Exit,
        ApplicationDies, HandshakeKill, runnerVars, userVars
  <2>2. QED
    BY <1>1, <2>1, AnnouncedKept
<1>6. CASE
      \/ HandshakeEnds \/ HandshakeStalls \/ TransferRequest \/ MarkRequestSent \/ ReadFlags
      \/ SendCancel \/ SelectTimesOut \/ ReceiveFails \/ EndOfChannel \/ PollProcess
      \/ Stall
  <2>1. /\ Onward /\ UNCHANGED <<toRunner, mutationSeen>>
        /\ connected' /\ hpc' = "mutating" => connected /\ hpc = "mutating"
    BY <1>1, <1>2, <1>6 DEF HandshakeEnds, helperVars, userVars, flags, seen, RunnerEnds,
        HandshakeStalls, TransferRequest, MarkRequestSent, ReadFlags, RunnerOnly, SendCancel,
        SelectTimesOut, ReceiveFails, EndOfChannel, PollProcess, Stall
  <2>2. QED
    BY <1>1, <2>1, AnnouncedKept
<1>7. CASE WaitForExit \/ WaitTimesOut \/ Conclude \/ Return \/ QuarantinedReturn
  <2>1. /\ Onward /\ UNCHANGED <<toRunner, mutationSeen>>
        /\ connected' /\ hpc' = "mutating" => connected /\ hpc = "mutating"
    BY <1>1, <1>2, <1>7 DEF WaitForExit, helperVars, userVars, flags, seen, RunnerOnly,
        WaitTimesOut, Exit, RunnerEnds, MayStop, Conclude, Return, Returning, QuarantinedReturn,
        Quarantine
  <2>2. QED
    BY <1>1, <2>1, AnnouncedKept
<1>8. CASE HelperReady
  <2>1. /\ Onward /\ UNCHANGED mutationSeen
        /\ \/ /\ toRunner' = Append(toRunner, [kind |-> "ready"])
              /\ connected' /\ hpc' = "mutating" => connected /\ hpc = "mutating"
           \/ /\ toRunner' = toRunner
              /\ connected' /\ hpc' = "mutating" => connected /\ hpc = "mutating"
    BY <1>1, <1>2, <1>8 DEF HelperReady, runnerVars, userVars, flags, seen, Exit, Send
  <2>2. [kind |-> "ready"] \in Packets
        /\ [kind |-> "ready"].kind = "ready"
    BY PacketIs
  <2>3. QED
    BY <1>1, <2>1, <2>2, AnnouncedKept, AnnouncedSent
<1>9. CASE PreflightProgress
  <2>1. /\ Onward /\ UNCHANGED mutationSeen
        /\ connected' /\ hpc' = "mutating" => connected /\ hpc = "mutating"
        /\ \/ toRunner' = toRunner
           \/ /\ toRunner' = Append(toRunner, Script[position]) /\ AtItem("progress")
              /\ rpc' # "handshake"
              /\ hpc = "transaction"
    BY <1>1, <1>2, <1>9 DEF PreflightProgress, runnerVars, userVars, flags, seen, Exit, Send,
        PollCancels
  <2>2. QED
    BY <1>1, <1>2, <2>1, AnnouncedKept, AnnouncedReports
<1>10. CASE PrepareMutation
  <2>1. /\ Onward /\ UNCHANGED mutationSeen
        /\ \/ /\ toRunner' = Append(toRunner, [kind |-> "prepared"])
              /\ rpc' # "handshake"
              /\ connected' /\ hpc' = "mutating" => connected /\ hpc = "mutating"
           \/ /\ toRunner' = toRunner
              /\ connected' /\ hpc' = "mutating" => connected /\ hpc = "mutating"
    BY <1>1, <1>2, <1>10 DEF PrepareMutation, runnerVars, userVars, flags, seen, Exit, Send,
        PollCancels
  <2>2. [kind |-> "prepared"] \in Packets
        /\ [kind |-> "prepared"].kind = "prepared"
    BY PacketIs
  <2>3. QED
    BY <1>1, <2>1, <2>2, AnnouncedKept, AnnouncedSent
<1>11. CASE BeginMutation
  <2>1. /\ Onward /\ UNCHANGED mutationSeen
        /\ \/ /\ toRunner' = Append(toRunner, [kind |-> "mutation-started"])
              /\ rpc' # "handshake"
              /\ hpc' \notin NotDecided
           \/ /\ toRunner' = toRunner
              /\ connected' /\ hpc' = "mutating" => connected /\ hpc = "mutating"
    BY <1>1, <1>2, <1>11 DEF BeginMutation, runnerVars, userVars, flags, seen, Send
  <2>2. [kind |-> "mutation-started"] \in Packets
        /\ [kind |-> "mutation-started"].kind = "mutation-started"
    BY PacketIs
  <2>3. QED
    BY <1>1, <2>1, <2>2, AnnouncedKept, AnnouncedSent
<1>12. CASE MutationProgress
  <2>1. /\ Onward /\ UNCHANGED mutationSeen
        /\ connected' /\ hpc' = "mutating" => connected /\ hpc = "mutating"
        /\ \/ toRunner' = toRunner
           \/ /\ toRunner' = Append(toRunner, Script[position]) /\ AtItem("progress")
              /\ rpc' # "handshake"
              /\ connected /\ hpc = "mutating"
    BY <1>1, <1>2, <1>12 DEF MutationProgress, runnerVars, userVars, flags, seen, Send
  <2>2. QED
    BY <1>1, <1>2, <2>1, AnnouncedKept, AnnouncedReports
<1>13. CASE SendSuccess
  <2>1. /\ Onward /\ UNCHANGED mutationSeen
        /\ \/ /\ toRunner' = Append(toRunner, [kind |-> "success"])
              /\ rpc' # "handshake"
              /\ connected' /\ hpc' = "mutating" => connected /\ hpc = "mutating"
           \/ /\ toRunner' = toRunner
              /\ connected' /\ hpc' = "mutating" => connected /\ hpc = "mutating"
    BY <1>1, <1>2, <1>13 DEF SendSuccess, runnerVars, userVars, flags, seen, Send
  <2>2. [kind |-> "success"] \in Packets
        /\ [kind |-> "success"].kind = "success"
    BY PacketIs
  <2>3. QED
    BY <1>1, <2>1, <2>2, AnnouncedKept, AnnouncedSent
<1>14. CASE ReceiveReady
  <2>1. /\ Onward /\ toRunner # <<>> /\ toRunner' = Tail(toRunner) /\ rpc' # "handshake"
        /\ connected' /\ hpc' = "mutating" => connected /\ hpc = "mutating"
        /\ mutationSeen' = mutationSeen /\ Head(toRunner).kind # "mutation-started"
    BY <1>1, <1>3, <1>14 DEF ReceiveReady, helperVars, userVars, flags, seen, RunnerEnds
  <2>2. QED
    BY <1>1, <2>1, AnnouncedTaken
<1>15. CASE ReceivePrepared
  <2>1. /\ Onward /\ toRunner # <<>> /\ toRunner' = Tail(toRunner) /\ rpc' # "handshake"
        /\ connected' /\ hpc' = "mutating" => connected /\ hpc = "mutating"
        /\ mutationSeen' = mutationSeen /\ Head(toRunner).kind # "mutation-started"
    BY <1>1, <1>15 DEF ReceivePrepared, helperVars, userVars, RunnerEnds, Receiving, Continue
  <2>2. QED
    BY <1>1, <2>1, AnnouncedTaken
<1>16. CASE ReceiveMutationStarted
  <2>1. /\ Onward /\ toRunner # <<>> /\ toRunner' = Tail(toRunner) /\ rpc' # "handshake"
        /\ connected' /\ hpc' = "mutating" => connected /\ hpc = "mutating"
        /\ Head(toRunner).kind = "mutation-started"
        /\ mutationSeen => mutationSeen'
        /\ rpc' \notin Over => mutationSeen'
    BY <1>1, <1>16 DEF ReceiveMutationStarted, helperVars, userVars, RunnerEnds, Receiving, Continue
  <2>2. QED
    BY <1>1, <2>1, AnnouncedTaken
<1>17. CASE ReceiveProgress
  <2>1. /\ Onward /\ toRunner # <<>> /\ toRunner' = Tail(toRunner) /\ rpc' # "handshake"
        /\ connected' /\ hpc' = "mutating" => connected /\ hpc = "mutating"
        /\ mutationSeen' = mutationSeen /\ Head(toRunner).kind # "mutation-started"
    BY <1>1, <1>17 DEF ReceiveProgress, helperVars, userVars, RunnerEnds, Receiving, Continue
  <2>2. QED
    BY <1>1, <2>1, AnnouncedTaken
<1>18. CASE ReceiveSuccess
  <2>1. /\ Onward /\ toRunner # <<>> /\ toRunner' = Tail(toRunner) /\ rpc' # "handshake"
        /\ connected' /\ hpc' = "mutating" => connected /\ hpc = "mutating"
        /\ mutationSeen' = mutationSeen /\ Head(toRunner).kind # "mutation-started"
    BY <1>1, <1>18 DEF ReceiveSuccess, helperVars, userVars, Receiving
  <2>2. QED
    BY <1>1, <2>1, AnnouncedTaken
<1>19. QED
  BY <1>4, <1>5, <1>6, <1>7, <1>8, <1>9, <1>10, <1>11, <1>12, <1>13, <1>14, <1>15, <1>16,
      <1>17, <1>18 DEF Acts, HelperActs, ElseActs, RunnerActs

\* The runner accepts what it receives.
LEMMA HeadIsValid ==
  ASSUME IInv, kind # "raw", Receiving("progress")
  PROVE  ProgressValid(Head(toRunner))
<1> DEFINE p == Head(toRunner)
<1>1. /\ rpc = "select" /\ toRunner # <<>> /\ p.kind = "progress"
  BY DEF Receiving
<1>2. p = toRunner[1] /\ 1 \in DOMAIN toRunner /\ IsReport(1) /\ p \in ProgressPackets
  BY <1>1, ReportFacts, Taking DEF Queues, IsReport, Sent
<1>3. PICK k \in 1..(position - 1) : Script[k] = p
  BY <1>2, ReportFacts DEF Reported
<1> HIDE DEF p
<1>4. p.total = ExpectedTotals[p.phase]
  BY <1>2, <1>3, ReportFacts DEF ProgressIsOrdered, IsProgress, IsReport, Sent
<1>5. p.phase \in DOMAIN ExpectedTotals
  BY <1>2, ProgressTypes DEF ExpectedTotals
<1>6. PhaseOrder[p.phase] >= phaseIndex /\ p.done >= phaseDone[p.phase]
  BY <1>2, ReportFacts, ProgressTypes DEF Reported
<1>7. (p.phase # "source-validation") = mutationSeen
  <2>1. Placed(1)
    BY <1>1, <1>2 DEF IInv, Announced, Placed, Over
  <2>2. IF p.phase = "source-validation" THEN ~mutationSeen ELSE mutationSeen
    BY <1>2, <2>1 DEF Placed
  <2>3. mutationSeen \in BOOLEAN
    BY DEF IInv, Typed
  <2>4. QED
    BY <2>2, <2>3
<1>8. QED
  BY <1>2, <1>4, <1>5, <1>6, <1>7 DEF ProgressValid, PhaseValid, p

LEMMA AcceptedStep ==
  ASSUME IInv, Acts, kind # "raw"
  PROVE  EveryProgressIsAccepted'
<1>1. report # "bad-progress"
  BY DEF IInv, EveryProgressIsAccepted
<1> USE <1>1 DEF EveryProgressIsAccepted
<1>2. CASE
      \/ HelperReady \/ AuthenticationFails \/ HelperReceivesRequest \/ RequestFails
      \/ PreflightProgress \/ PreflightFails \/ PrepareMutation \/ BeginMutation \/ NoCommit
      \/ MutationProgress \/ MediumStep \/ MutationFails \/ Deactivate \/ HelperFails
      \/ SendSuccess \/ HelperExits \/ HelperKilled
  BY <1>2 DEF HelperReady, runnerVars, seen, AuthenticationFails, HelperReceivesRequest,
      RequestFails, PreflightProgress, PollCancels, PreflightFails, PrepareMutation,
      BeginMutation, NoCommit, MutationProgress, MediumStep, MutationFails, Deactivate,
      HelperFails, SendSuccess, HelperExits, HelperKilled
<1>3. CASE UserCancels \/ CancelTerminates \/ ApplicationDies \/ HandshakeKill
  BY <1>3 DEF UserCancels, seen, CancelTerminates, ApplicationDies, HandshakeKill, runnerVars
<1>4. CASE
      \/ ReceiveReady \/ HandshakeEnds \/ HandshakeStalls \/ TransferRequest
      \/ MarkRequestSent \/ ReadFlags \/ SendCancel \/ SelectTimesOut \/ ReceiveFails
      \/ EndOfChannel \/ PollProcess \/ Stall
  BY <1>4 DEF ReceiveReady, seen, RunnerEnds, HandshakeEnds, HandshakeStalls, TransferRequest,
      MarkRequestSent, ReadFlags, RunnerOnly, SendCancel, SelectTimesOut, ReceiveFails,
      EndOfChannel, PollProcess, Stall
<1>5. CASE
      \/ ReceivePrepared \/ ReceiveMutationStarted \/ ReceiveProgress \/ ReceiveSuccess
      \/ WaitForExit \/ WaitTimesOut \/ Conclude \/ Return \/ QuarantinedReturn
  BY <1>5, HeadIsValid DEF ReceivePrepared, RunnerEnds, Receiving, Continue, ReceiveMutationStarted,
      ReceiveProgress, ReceiveSuccess, WaitForExit, seen, RunnerOnly, WaitTimesOut, Conclude,
      Return, Returning, QuarantinedReturn
<1>6. QED
  BY <1>2, <1>3, <1>4, <1>5 DEF Acts, HelperActs, ElseActs, RunnerActs

-----------------------------------------------------------------------------
(* The theorems. *)

LEMMA Initially == ProtocolInit => IInv
<1> SUFFICES ASSUME ProtocolInit PROVE IInv
  OBVIOUS
<1>1. ScriptIsOrdered
  BY KindsAssumption, Ordered DEF ProtocolInit
<1>2. Typed
  <2>1. 1 \in 1..(Len(Script) + 1)
    BY <1>1 DEF ScriptIsOrdered
  <2>2. phaseDone \in [Phases -> -1..Size]
    BY Sizes DEF ProtocolInit
  <2>3. kind \in Kinds /\ kind \in {"raw", "syslinux", "grub"}
    BY KindsAssumption DEF ProtocolInit
  <2>4. {closed, cancelled, terminating, requestSent, commitSent, cancelSent, preparedSeen,
         mutationSeen, succeeded} \subseteq BOOLEAN
    BY DEF ProtocolInit
  <2>5. exit \in Exits /\ (exit = "none" <=> Alive)
    BY DEF ProtocolInit, Exits, Alive
  <2>6. position \in 1..(Len(Script) + 1)
    BY <2>1 DEF ProtocolInit
  <2>7. hpc \in HelperStates /\ view \in Views /\ rpc \in RunnerStates /\ report \in ReportValues
    BY DEF ProtocolInit, HelperStates, Views, RunnerStates, ReportValues
  <2>8. connected \in BOOLEAN /\ phaseIndex \in -1..3
    BY DEF ProtocolInit
  <2>9. QED
    BY <2>2, <2>3, <2>4, <2>5, <2>6, <2>7, <2>8 DEF Typed
<1>3. Queues
  BY Sizes DEF ProtocolInit, Queues
<1>4. Followed /\ Decided /\ Told
  BY DEF ProtocolInit, Followed, Decided, Told, NotDecided, Committed, Over, OneDecision,
         QuarantineIsKept
<1>5. Reported /\ Announced /\ EveryProgressIsAccepted
  BY DEF ProtocolInit, Reported, Announced, EveryProgressIsAccepted, NotDecided, Committed, Over
<1>6. QED
  BY <1>2, <1>3, <1>4, <1>5 DEF IInv

LEMMA Stuttering == IInv /\ UNCHANGED protocolVars => IInv'
<1> SUFFICES ASSUME IInv, UNCHANGED protocolVars PROVE IInv'
  OBVIOUS
<1>1. UNCHANGED <<kind, hpc, position, connected, exit, view, toRunner, toHelper, rpc, closed,
                  cancelled, terminating, requestSent, commitSent, cancelSent, preparedSeen,
                  mutationSeen, phaseDone, phaseIndex, succeeded, report>>
  BY DEF protocolVars, changed, helperVars, runnerVars, userVars, flags, seen
<1>2. Script' = Script /\ \A i : ViewAt(i)' = ViewAt(i)
  BY <1>1, SameScript
<1>3. Typed' /\ Queues'
  BY <1>1, <1>2 DEF IInv, Typed, Queues, Alive
<1>4. Followed' /\ Decided' /\ Told'
  BY <1>1, <1>2 DEF IInv, Followed, Decided, Told, OneDecision, QuarantineIsKept, Alive
<1>5. kind' # "raw" => Reported' /\ Announced' /\ EveryProgressIsAccepted'
  BY <1>1, <1>2 DEF IInv, Reported, Announced, EveryProgressIsAccepted, IsReport, Sent,
                    IsProgress, Before
<1>6. QED
  BY <1>3, <1>4, <1>5 DEF IInv

LEMMA Preserved == IInv /\ [ProtocolNext]_protocolVars => IInv'
<1>1. ASSUME IInv, ProtocolNext PROVE IInv'
  <2>1. Acts /\ kind' = kind
    BY <1>1, NextIsActs DEF Acts
  <2>2. QED
    BY <1>1, <2>1, TypedStep, QueuesStep, FollowedStep, DecidedStep, ToldStep, ReportedStep,
       AnnouncedStep, AcceptedStep DEF IInv
<1>2. QED
  BY <1>1, Stuttering

\* Helper and runner keep the invariant, in every one of their steps.
THEOREM Inductive == ProtocolSpec => []IInv
BY Initially, Preserved, PTL DEF ProtocolSpec

\* Every variable keeps its type.
THEOREM TypeCorrect == ProtocolSpec => []TypeOK
<1>1. IInv => TypeOK
  BY DEF IInv, Typed, Queues, Decided, TypeOK, Orders, Views
<1>2. QED
  BY <1>1, Inductive, PTL

\* What run() returned or raised is true of the medium: no helper changes a medium that was
\* reported untouched, a success is that of an activated medium, and the GRUB runner does not
\* return before a committed helper has ended.
THEOREM ReportHolds == ProtocolSpec => []ReportIsTrue
<1>1. IInv => ReportIsTrue
  BY DEF IInv, Told, Followed, Decided, OneDecision, ReportIsTrue, CancelledIsUntouched,
         SuccessIsActive
<1>2. QED
  BY <1>1, Inductive, PTL

\* The progress of a genuine Syslinux, Windows or GRUB helper is never refused, whatever the
\* size of the image and however many packets were dropped.
THEOREM Accepted == ProtocolSpec => []ProgressIsAccepted
<1>1. IInv => ProgressIsAccepted
  BY DEF IInv, ProgressIsAccepted
<1>2. QED
  BY <1>1, Inductive, PTL

\* COMMIT and CANCEL exclude each other, and only a SIGKILL or a failure of the medium ends a
\* mutation before its result.
THEOREM Decision == ProtocolSpec => DecisionIsFinal
<1> DEFINE Final ==
      /\ OneDecision'
      /\ hpc = "mutating" /\ position <= Len(Script)
           => hpc' \in {"mutating", "recovering"} \/ exit' = "killed"
<1>1. ASSUME IInv, IInv', ProtocolNext PROVE Final
  <2>1. OneDecision'
    BY <1>1 DEF IInv, Decided
  <2>2. ASSUME hpc = "mutating", position <= Len(Script)
        PROVE  hpc' \in {"mutating", "recovering"} \/ exit' = "killed"
    <3>1. ScriptIsOrdered /\ position \in Nat /\ Len(Script) \in Nat
      BY <1>1, Ordered DEF IInv, Typed, ScriptIsOrdered
    <3>2. Acts
      BY <1>1, NextIsActs
    <3> USE <2>2, <3>1
    <3>3. CASE HelperActs
      BY <3>3 DEF HelperActs, HelperReady, AuthenticationFails, HelperReceivesRequest,
         RequestFails, PreflightProgress, PreflightFails, PrepareMutation, BeginMutation,
         NoCommit, MutationProgress, MediumStep, MutationFails, Deactivate, HelperFails,
         SendSuccess, HelperExits, HelperKilled, Exit
    <3>4. CASE ElseActs
      BY <3>4 DEF ElseActs, UserCancels, CancelTerminates, ApplicationDies, HandshakeKill,
         helperVars, Exit
    <3>5. CASE RunnerActs
      BY <3>5 DEF RunnerActs, ReceiveReady, HandshakeEnds, HandshakeStalls, TransferRequest,
         MarkRequestSent, ReadFlags, SendCancel, SelectTimesOut, ReceiveFails, EndOfChannel,
         PollProcess, Stall, ReceivePrepared, ReceiveMutationStarted, ReceiveProgress,
         ReceiveSuccess, WaitForExit, WaitTimesOut, Conclude, Return, QuarantinedReturn,
         RunnerOnly, Receiving, Quarantine, MayStop, Exit, helperVars
    <3>6. QED
      BY <3>2, <3>3, <3>4, <3>5 DEF Acts
  <2>3. QED
    BY <2>1, <2>2
<1>2. IInv /\ IInv' /\ [ProtocolNext]_protocolVars => [Final]_protocolVars
  BY <1>1
<1>3. QED
  BY <1>2, Inductive, PTL DEF ProtocolSpec, DecisionIsFinal

\* Whatever helper, runner and user do, the medium goes the way of MediumActivation.
THEOREM Refinement == ProtocolSpec => ImplementsActivation
<1>1. ProtocolInit => MediumMachine!Init
  BY DEF ProtocolInit, MediumMachine!Init, MediumOutcome
<1>2. ASSUME IInv, ProtocolNext PROVE [MediumMachine!Next]_(MediumMachine!vars)
  <2>1. Acts /\ IInv
    BY <1>2, NextIsActs
  <2>2. /\ exit = "none" <=> hpc # "exited"
        /\ exit \in Exits /\ hpc \in HelperStates /\ view \in Views
        /\ hpc \in NotDecided => view = "intact"
        /\ hpc = "result" => view = "active"
    BY <1>2 DEF IInv, Typed, Followed, Alive
  <2> USE <2>2 DEF MediumOutcome, MediumMachine!vars, MediumMachine!Next, NotDecided
  <2>3. CASE UNCHANGED <<view, exit>>
    BY <2>3
  <2>4. CASE hpc # "exited" /\ view' = view /\ exit' \in {"killed", "failed"}
    BY <2>4 DEF MediumMachine!Fail, MediumMachine!Tells
  <2>5. CASE hpc \in NotDecided /\ view' = view /\ exit' \in {"cancelled", "refused"}
    BY <2>5 DEF MediumMachine!Refuse, MediumMachine!Tells
  <2>6. CASE HelperExits
    BY <2>6 DEF HelperExits, Exit, MediumMachine!Succeed, MediumMachine!Tells
  <2>7. CASE Deactivate
    BY <2>7 DEF Deactivate, MediumMachine!MediumMoves, MediumMachine!Edges
  <2>8. CASE MediumStep
    <3>1. /\ hpc = "mutating" /\ AtItem("medium") /\ view' = Script[position].view
          /\ exit' = exit
      BY <2>8 DEF MediumStep
    <3>2. view = ViewAt(position) /\ view' = ViewAt(position + 1)
      BY <2>1, <3>1, AtItemIs DEF IInv, Followed
    <3>3. /\ position \in Nat /\ position >= 4 /\ ViewAt(position) # ViewAt(position + 1)
          /\ Arm \in {8, 10}
      <4>1. ScriptIsOrdered /\ position \in 1..Len(Script)
        BY <2>1, <3>1, Ordered, ItemIs DEF IInv, Typed, AtItem
      <4>2. QED
        BY <3>1, <4>1 DEF ScriptIsOrdered, AtItem, Arm
    <3>4. <<view, view'>> \in MediumMachine!Edges
      <4> HIDE DEF Arm
      <4>1. CASE position = 4
        BY <3>2, <3>3, <4>1 DEF ViewAt, MediumMachine!Edges
      <4>2. CASE position = 5
        BY <3>2, <3>3, <4>2 DEF ViewAt, MediumMachine!Edges
      <4>3. CASE position > 5
        BY <3>2, <3>3, <4>3 DEF ViewAt, MediumMachine!Edges
      <4>4. QED
        BY <3>3, <4>1, <4>2, <4>3
    <3>5. QED
      BY <3>1, <3>4 DEF MediumMachine!MediumMoves
  <2>9. CASE HelperActs
    BY <2>3, <2>4, <2>5, <2>6, <2>7, <2>8, <2>9
       DEF HelperActs, HelperReady, AuthenticationFails, HelperReceivesRequest,
       RequestFails, PreflightProgress, PreflightFails, PrepareMutation, BeginMutation,
       NoCommit, MutationProgress, MutationFails, HelperFails, SendSuccess,
       HelperKilled, Exit, PollCancels, Alive
  <2>10. CASE ElseActs
    BY <2>3, <2>4, <2>10 DEF ElseActs, UserCancels, CancelTerminates, ApplicationDies,
       HandshakeKill, helperVars, Exit, Alive
  <2>11. CASE RunnerActs
    BY <2>3, <2>4, <2>11
       DEF RunnerActs, ReceiveReady, HandshakeEnds, HandshakeStalls, TransferRequest,
       MarkRequestSent, ReadFlags, SendCancel, SelectTimesOut, ReceiveFails, EndOfChannel,
       PollProcess, Stall, ReceivePrepared, ReceiveMutationStarted, ReceiveProgress,
       ReceiveSuccess, WaitForExit, WaitTimesOut, Conclude, Return, QuarantinedReturn,
       RunnerOnly, Receiving, Quarantine, MayStop, Exit, Alive, helperVars, Returning
  <2>12. QED
    BY <2>1, <2>9, <2>10, <2>11 DEF Acts
<1>3. UNCHANGED protocolVars => UNCHANGED MediumMachine!vars
  BY DEF protocolVars, changed, helperVars, MediumMachine!vars, MediumOutcome
<1>4. IInv /\ [ProtocolNext]_protocolVars => [MediumMachine!Next]_(MediumMachine!vars)
  BY <1>2, <1>3
<1>5. QED
  BY <1>1, <1>4, Inductive, PTL DEF ProtocolSpec, ImplementsActivation, MediumMachine!Spec
==============================================================================
