--------------------------- MODULE NotesLockProofs ---------------------------
(***************************************************************************)
(* Proofs about NotesLock, for every set of writers, commits, signatures   *)
(* and disputed records, and every bound.                                  *)
(***************************************************************************)
EXTENDS NotesLock, TLAPS

USE HomeOfAssumption, JobsAssumption, MaxRecordsAssumption, FlagsAssumption, BoundsAssumption

(* The kinds of containers the operators build.                            *)
LEMMA ContainerTypes ==
    /\ Empty \in Container /\ LegacyText \in Container /\ ForeignJson \in Container
    /\ \A R \in SUBSET Record : Note(R) \in Container
    /\ \A n \in Container : RecordsOf(n) \in SUBSET Record
    /\ \A n \in Container, r \in Record : WithRecord(n, r) \in Container
    /\ \A n \in Container, p \in Parked : WithReplacement(n, p) \in Container
  BY DEF Container, Empty, LegacyText, ForeignJson, Note, RecordsOf, WithRecord,
         WithReplacement, Record

LEMMA JobTypes ==
    ASSUME NEW j \in Job
    PROVE  /\ j.at \in Commits
           /\ j.kind \in {"append", "retain", "resolve", "replace"}
           /\ j.kind = "resolve" => j.ref \in Sigs
           /\ j.kind = "replace" => j.ref \in Parked /\ j.at = HomeOf[j.ref]
  BY DEF Job

LEMMA AllRecordsType ==
    ASSUME NEW tree \in [Commits -> Container]
    PROVE  AllRecords(tree) \in SUBSET Record
  BY ContainerTypes DEF AllRecords

(* The more disputes, the fewer accepted records.                          *)
LEMMA AcceptedRecords ==
    ASSUME NEW tree \in [Commits -> Container], NEW D \in SUBSET Parked
    PROVE  Accepted(tree, D) \in SUBSET Record /\ Accepted(tree, Parked) \subseteq Accepted(tree, D)
  BY AllRecordsType DEF Accepted, Copies

-----------------------------------------------------------------------------
(* Type correctness.                                                       *)

(* What a rewrite would publish and the record it adds are of their kinds. *)
LEMMA RewriteTypes ==
    ASSUME TypeOK, NEW w \in Writers, job[w] \in Job, NEW text \in Container
    PROVE  Rewritten(w, text) \in Container /\ NewRecord(w) \in Record
  <1>1. job[w].kind = "replace" => job[w].ref \in Parked
    BY JobTypes
  <1>2. Own(w) \in Record /\ (job[w].kind = "replace" => Replacement(job[w].ref) \in Record)
    BY <1>1 DEF Record
  <1>3. QED
    BY <1>1, <1>2, ContainerTypes DEF Rewritten, NewRecord

LEMMA FinishTypes ==
    ASSUME TypeOK, NEW w \in Writers, NEW label \in PC,
           NEW r \in {"pending", "published", "unchanged", "refused"},
           Finish(w, label, r)
    PROVE  /\ pc' \in [Writers -> PC]
           /\ result' \in [Writers -> {"pending", "published", "unchanged", "refused"}]
           /\ snap' \in [Writers -> Snap]
           /\ \A v \in Writers : v # w => pc'[v] = pc[v] /\ snap'[v] = snap[v] /\ result'[v] = result[v]
           /\ pc'[w] = label /\ result'[w] = r /\ snap'[w] = NoSnap
  BY ContainerTypes DEF Finish, Goto, TypeOK, NoSnap, Snap

LEMMA InitTypes == Init => TypeOK
  <1> SUFFICES ASSUME Init PROVE TypeOK
    OBVIOUS
  <1>1. notes \in [Commits -> Container]
    BY ContainerTypes DEF Init, Record
  <1>2. QED
    BY <1>1, ContainerTypes DEF Init, TypeOK, NoLock, NoSnap, Snap, PC

LEMMA StepTypes == TypeOK /\ [Next]_vars => TypeOK'
  <1> SUFFICES ASSUME TypeOK, [Next]_vars PROVE TypeOK'
    OBVIOUS
  <1> USE DEF vars, lockVars, procVars, refVars, boundVars
  <1>1. ASSUME NEW w \in Writers, Start(w) PROVE TypeOK'
    <2> PICK j \in JobsOf[w] : Start(w)!2!(j)
      BY <1>1 DEF Start
    <2>1. j \in Job
      OBVIOUS
    <2>2. CASE j.kind = "resolve" /\ ResolutionExists(j.ref)
      <3>1. Finish(w, "end", "unchanged")
        BY <2>2
      <3>2. QED
        BY <1>1, <2>1, <3>1, FinishTypes DEF Start, TypeOK, PC
    <2>3. CASE ~(j.kind = "resolve" /\ ResolutionExists(j.ref))
      BY <1>1, <2>1, <2>3 DEF Start, Goto, TypeOK, PC, Claiming
    <2>4. QED
      BY <2>2, <2>3
  <1>2. ASSUME NEW w \in Writers, CreateClaim(w) PROVE TypeOK'
    <2>1. CASE lock = NoLock
      <3>1. /\ lock' = [by |-> {w}, written |-> FALSE, old |-> FALSE]
            /\ pc' = [pc EXCEPT ![w] = "write"]
        BY <1>2, <2>1 DEF CreateClaim, Goto
      <3>2. lock' \in [by : SUBSET Writers, written : BOOLEAN, old : BOOLEAN]
        BY <3>1
      <3>3. QED
        BY <1>2, <3>1, <3>2 DEF CreateClaim, TypeOK, PC
    <2>2. CASE lock # NoLock
      BY <1>2, <2>2 DEF CreateClaim, Goto, TypeOK, PC, Claiming
    <2>3. QED
      BY <2>1, <2>2
  <1>3. ASSUME NEW w \in Writers, WriteClaim(w) PROVE TypeOK'
    BY <1>3 DEF WriteClaim, Goto, TypeOK, PC, Critical
  <1>4. ASSUME NEW w \in Writers, InspectLock(w) PROVE TypeOK'
    BY <1>4 DEF InspectLock, Goto, TypeOK, PC, Claiming
  <1>5. ASSUME NEW w \in Writers, Renamed(w) PROVE TypeOK'
    BY <1>5 DEF Renamed, Goto, TypeOK, PC, Claiming, NoLock
  <1>6. ASSUME NEW w \in Writers, RenameRefused(w) \/ PollAgain(w) PROVE TypeOK'
    BY <1>6 DEF RenameRefused, PollAgain, Goto, TypeOK, PC, Claiming
  <1>7. ASSUME NEW w \in Writers, GiveUp(w) PROVE TypeOK'
    BY <1>7, FinishTypes DEF GiveUp, TypeOK, PC
  <1>8. ASSUME NEW w \in Writers, ReadNotesTip(w) PROVE TypeOK'
    BY <1>8, ContainerTypes DEF ReadNotesTip, Goto, TypeOK, PC, Critical, NoSnap, Snap
  <1>9. ASSUME NEW w \in Writers, ReadRetentionTip(w) PROVE TypeOK'
    <2>1. snap[w] \in Snap /\ retTip \in Nat /\ retained \in SUBSET Record
      BY DEF TypeOK
    <2>2. [snap[w] EXCEPT !.ret = retTip, !.base = retained] \in Snap
      BY <2>1 DEF Snap
    <2>3. snap' \in [Writers -> Snap]
      BY <1>9, <2>2 DEF ReadRetentionTip, TypeOK
    <2>4. QED
      BY <1>9, <2>3 DEF ReadRetentionTip, Goto, TypeOK, PC, Critical
  <1>10. ASSUME NEW w \in Writers, ReadText(w) PROVE TypeOK'
    <2>1. job[w] \in Job /\ job[w].at \in Commits
      BY <1>10, JobTypes DEF ReadText, TypeOK
    <2> PICK text \in TextsRead(job[w].at) :
               IF Accepts(w, text)
               THEN /\ snap' = [snap EXCEPT ![w].text = text]
                    /\ Goto(w, "publish") /\ UNCHANGED result
               ELSE Finish(w, "check", "refused")
      BY <1>10 DEF ReadText
    <2>2. text \in Container
      BY <2>1, ContainerTypes DEF TextsRead, TypeOK
    <2>3. CASE Accepts(w, text)
      <3>1. snap[w] \in Snap
        BY DEF TypeOK
      <3>2. [snap[w] EXCEPT !.text = text] \in Snap
        BY <2>2, <3>1 DEF Snap
      <3>3. snap' \in [Writers -> Snap]
        BY <2>3, <3>2 DEF TypeOK
      <3>4. QED
        BY <1>10, <2>3, <3>3 DEF ReadText, Goto, TypeOK, PC, Critical
    <2>4. CASE ~Accepts(w, text)
      BY <1>10, <2>4, FinishTypes DEF ReadText, TypeOK, PC, Releasing
    <2>5. QED
      BY <2>3, <2>4
  <1>11. ASSUME NEW w \in Writers, ReadSnapshot(w) PROVE TypeOK'
    <2>1. snap[w] \in Snap /\ notes \in [Commits -> Container] /\ parked \in SUBSET Parked
      BY DEF TypeOK
    <2>2. [snap[w] EXCEPT !.tree = notes, !.disputed = parked] \in Snap
      BY <2>1 DEF Snap
    <2>3. snap' \in [Writers -> Snap]
      BY <1>11, <2>2 DEF ReadSnapshot, TypeOK
    <2>4. QED
      BY <1>11, <2>3 DEF ReadSnapshot, Goto, TypeOK, PC, Critical
  <1>12. ASSUME NEW w \in Writers, RecheckTips(w) PROVE TypeOK'
    <2>1. CASE Finish(w, "check", "refused") \/ Finish(w, "check", "unchanged")
      BY <1>12, <2>1, FinishTypes DEF RecheckTips, TypeOK, PC, Releasing
    <2>2. CASE Goto(w, "publish") /\ UNCHANGED <<result, snap>>
      BY <1>12, <2>2 DEF RecheckTips, Goto, TypeOK, PC, Critical
    <2>3. QED
      BY <1>12, <2>1, <2>2 DEF RecheckTips
  <1>13. ASSUME NEW w \in Writers, Publish(w) PROVE TypeOK'
    <2>1. job[w] \in Job /\ snap[w].tree \in [Commits -> Container] /\ snap[w].text \in Container
      BY <1>13 DEF Publish, TypeOK, Snap
    <2>2. /\ Rewritten(w, snap[w].text) \in Container
          /\ NewRecord(w) \in Record
          /\ job[w].at \in Commits
      BY <2>1, RewriteTypes, JobTypes
    <2>3. notes' \in [Commits -> Container]
      BY <1>13, <2>1, <2>2 DEF Publish
    <2>4. retained' \in SUBSET Record /\ published' \in SUBSET (Commits \X Record)
      BY <1>13, <2>2 DEF Publish, Carrier, TypeOK, Snap
    <2>5. resRefs' \in [Sigs -> SUBSET Writers] /\ parked' \in SUBSET Parked
      BY <1>13 DEF Publish, TypeOK
    <2>6. Finish(w, "check", "published") /\ "check" \in PC
      BY <1>13 DEF Publish, PC, Releasing
    <2>7. /\ pc' \in [Writers -> PC] /\ snap' \in [Writers -> Snap]
          /\ result' \in [Writers -> {"pending", "published", "unchanged", "refused"}]
          /\ \A v \in Writers : pc'[v] = pc[v] \/ v = w
      BY <2>6, FinishTypes
    <2>8. /\ notesTip' \in Nat /\ retTip' \in Nat /\ marker' \in Nat
          /\ UNCHANGED <<lock, abandoned, job, foreign, crashes>>
      BY <1>13 DEF Publish, TypeOK
    <2>9. QED
      BY <2>1, <2>3, <2>4, <2>5, <2>7, <2>8 DEF TypeOK
  <1>14. ASSUME NEW w \in Writers, PublishRetention(w) PROVE TypeOK'
    <2>0. /\ snap[w].tree \in [Commits -> Container] /\ snap[w].disputed \in SUBSET Parked
          /\ snap[w].base \in SUBSET Record
      BY DEF TypeOK, Snap
    <2>1. retained' \in SUBSET Record
      BY <1>14, <2>0, AcceptedRecords DEF PublishRetention, Carrier, Eligible
    <2>2. snap[w].tip \in Nat
      BY DEF TypeOK, Snap
    <2>3. QED
      BY <1>14, <2>1, <2>2, FinishTypes DEF PublishRetention, TypeOK, PC, Releasing
  <1>15. ASSUME NEW w \in Writers, PublishRefused(w) PROVE TypeOK'
    BY <1>15, FinishTypes DEF PublishRefused, TypeOK, PC, Releasing
  <1>16. ASSUME NEW w \in Writers, CheckHolder(w) PROVE TypeOK'
    BY <1>16 DEF CheckHolder, Goto, TypeOK, PC, Releasing
  <1>17. ASSUME NEW w \in Writers, RemoveClaim(w) PROVE TypeOK'
    <2>1. lock' = NoLock \/ lock' = lock
      BY <1>17 DEF RemoveClaim
    <2>2. lock \in [by : SUBSET Writers, written : BOOLEAN, old : BOOLEAN]
      BY DEF TypeOK
    <2>3. NoLock \in [by : SUBSET Writers, written : BOOLEAN, old : BOOLEAN]
      BY DEF NoLock
    <2>4. QED
      BY <1>17, <2>1, <2>2, <2>3 DEF RemoveClaim, Goto, TypeOK, PC
  <1>18. ASSUME NEW w \in Writers, Crash(w) PROVE TypeOK'
    <2>1. Finish(w, "crashed", result[w]) /\ pc[w] # "idle"
      BY <1>18 DEF Crash, Running
    <2>2. result[w] \in {"pending", "published", "unchanged", "refused"} /\ "crashed" \in PC
      BY DEF TypeOK, PC
    <2>3. QED
      BY <1>18, <2>1, <2>2, FinishTypes DEF Crash, TypeOK
  <1>19. CASE ClaimAges
    BY <1>19 DEF ClaimAges, TypeOK
  <1>20. ASSUME NEW c \in Commits, ForeignPublish(c) PROVE TypeOK'
    <2>1. notes[c].records \cup {Peer} \in SUBSET Record
      BY DEF TypeOK, Container, Record
    <2>2. \E n \in Container : notes' = [notes EXCEPT ![c] = n]
      BY <1>20, <2>1, ContainerTypes DEF ForeignPublish
    <2>3. notes' \in [Commits -> Container]
      BY <2>2 DEF TypeOK
    <2>4. QED
      BY <1>20, <2>3 DEF ForeignPublish, TypeOK
  <1>21. ASSUME NEW p \in Parked, KeepLocal(p) PROVE TypeOK'
    BY <1>21 DEF KeepLocal, TypeOK
  <1>22. CASE UNCHANGED vars
    BY <1>22 DEF TypeOK
  <1>23. QED
    BY <1>1, <1>2, <1>3, <1>4, <1>5, <1>6, <1>7, <1>8, <1>9, <1>10, <1>11, <1>12, <1>13,
       <1>14, <1>15, <1>16, <1>17, <1>18, <1>19, <1>20, <1>21, <1>22
    DEF Next, WriterStep

(* Every variable keeps its type.                                          *)
THEOREM TypeCorrect == Spec => []TypeOK
  BY InitTypes, StepTypes, PTL DEF Spec

-----------------------------------------------------------------------------
(* The steps of a writer, sorted by what they may change.                  *)

(* Steps that only handle the claim file leave everything published, and   *)
(* everything read, alone.                                                 *)
ClaimStep(w) ==
    \/ CreateClaim(w) \/ WriteClaim(w) \/ InspectLock(w) \/ Renamed(w) \/ RenameRefused(w)
    \/ PollAgain(w) \/ CheckHolder(w) \/ RemoveClaim(w)

(* Steps that end a publication with nothing published.                    *)
EndStep(w) == GiveUp(w) \/ PublishRefused(w) \/ Crash(w)

LEMMA StepCases ==
    ASSUME [Next]_vars
    PROVE  \/ \E w \in Writers :
                 \/ Start(w) \/ ClaimStep(w) \/ EndStep(w)
                 \/ ReadNotesTip(w) \/ ReadRetentionTip(w) \/ ReadText(w)
                 \/ ReadSnapshot(w) \/ RecheckTips(w)
                 \/ Publish(w) \/ PublishRetention(w)
           \/ ClaimAges
           \/ \E c \in Commits : ForeignPublish(c)
           \/ \E p \in Parked : KeepLocal(p)
           \/ UNCHANGED vars
  BY DEF Next, WriterStep, ClaimStep, EndStep

LEMMA ClaimSteps ==
    ASSUME TypeOK, NEW w \in Writers, ClaimStep(w)
    PROVE  /\ UNCHANGED <<job, result, snap, refVars, boundVars>>
           /\ pc[w] \in Claiming \cup {"write"} \cup Releasing
           /\ pc'[w] \in Claiming \cup {"write", "tip", "end"} \cup Releasing
           /\ pc[w] \in Releasing => pc'[w] \in Releasing \cup {"end"}
           /\ \A v \in Writers : v # w => pc'[v] = pc[v]
  BY DEF ClaimStep, CreateClaim, WriteClaim, InspectLock, Renamed, RenameRefused, PollAgain,
         CheckHolder, RemoveClaim, Goto, TypeOK, Claiming, Releasing

(* Start and the steps that end a publication: only the writer's own       *)
(* snapshot is cleared, if that.                                           *)
LEMMA EndSteps ==
    ASSUME TypeOK, NEW w \in Writers, EndStep(w)
    PROVE  /\ UNCHANGED <<lock, abandoned, job, refVars>>
           /\ pc[w] \notin {"idle", "end", "crashed"}
           /\ pc'[w] \in {"check", "end", "crashed"}
           /\ result'[w] \in {result[w], "refused"}
           /\ pc'[w] = "check" => pc[w] = "publish"
           /\ pc'[w] = "crashed" => result'[w] = result[w]
           /\ snap'[w] = NoSnap
           /\ \A v \in Writers : v # w =>
                 pc'[v] = pc[v] /\ snap'[v] = snap[v] /\ result'[v] = result[v]
  BY DEF EndStep, GiveUp, PublishRefused, Crash, Finish, Goto, TypeOK, Running,
         refVars, lockVars, boundVars

LEMMA Starts ==
    ASSUME TypeOK, NEW w \in Writers, Start(w)
    PROVE  /\ UNCHANGED <<lockVars, refVars, boundVars>>
           /\ pc[w] = "idle" /\ pc'[w] \in {"claim", "end"}
           /\ snap'[w] \in {snap[w], NoSnap}
           /\ result'[w] \in {result[w], "unchanged"}
           /\ pc'[w] = "claim" => result'[w] = result[w]
           /\ \A v \in Writers : v # w =>
                 /\ pc'[v] = pc[v] /\ snap'[v] = snap[v]
                 /\ result'[v] = result[v] /\ job'[v] = job[v]
  <1> PICK j \in JobsOf[w] : Start(w)!2!(j)
    BY DEF Start
  <1>1. CASE Finish(w, "end", "unchanged")
    BY <1>1 DEF Start, Finish, Goto, TypeOK
  <1>2. CASE Goto(w, "claim") /\ UNCHANGED <<result, snap>>
    BY <1>2 DEF Start, Goto, TypeOK
  <1>3. QED
    BY <1>1, <1>2

-----------------------------------------------------------------------------
(* The inductive invariant.                                                *)

(* A tip names one tree: a snapshot taken at the present tip of a ref is   *)
(* what the ref holds now, because every change of the ref moves its tip.  *)
SnapshotsTrue ==
    /\ notesTip >= 1 /\ retTip >= 1 /\ marker <= notesTip
    /\ \A w \in Writers :
          /\ snap[w].tip <= notesTip /\ snap[w].ret <= retTip
          /\ snap[w].tip = notesTip => snap[w].tree = notes
          /\ snap[w].ret = retTip => snap[w].base = retained

LEMMA SnapshotsInit == Init => SnapshotsTrue
  BY DEF Init, SnapshotsTrue, NoSnap

LEMMA SnapshotsStep ==
    ASSUME TypeOK, SnapshotsTrue, [Next]_vars
    PROVE  SnapshotsTrue'
  <1> USE DEF refVars, lockVars, procVars, boundVars
  <1>0. /\ notesTip \in Nat /\ retTip \in Nat /\ marker \in Nat
        /\ \A w \in Writers : snap[w].tip \in Nat /\ snap[w].ret \in Nat
    BY DEF TypeOK, Snap
  <1>1. ASSUME NEW w \in Writers, Start(w) \/ EndStep(w) PROVE SnapshotsTrue'
    BY <1>0, <1>1, Starts, EndSteps DEF SnapshotsTrue, NoSnap
  <1>2. ASSUME NEW w \in Writers, ClaimStep(w) PROVE SnapshotsTrue'
    BY <1>2, ClaimSteps DEF SnapshotsTrue
  <1>3. ASSUME NEW w \in Writers, ReadNotesTip(w) PROVE SnapshotsTrue'
    <2>1. snap'[w].tip = notesTip /\ snap'[w].tree = notes /\ snap'[w].ret = 0
      BY <1>3 DEF ReadNotesTip, NoSnap, TypeOK
    <2>2. \A v \in Writers : v # w => snap'[v] = snap[v]
      BY <1>3 DEF ReadNotesTip, TypeOK
    <2>3. QED
      BY <1>0, <1>3, <2>1, <2>2 DEF ReadNotesTip, SnapshotsTrue
  <1>4. ASSUME NEW w \in Writers, ReadRetentionTip(w) PROVE SnapshotsTrue'
    <2>1. /\ snap'[w].tip = snap[w].tip /\ snap'[w].tree = snap[w].tree
          /\ snap'[w].ret = retTip /\ snap'[w].base = retained
      BY <1>4 DEF ReadRetentionTip, TypeOK, Snap
    <2>2. \A v \in Writers : v # w => snap'[v] = snap[v]
      BY <1>4 DEF ReadRetentionTip, TypeOK
    <2>3. UNCHANGED <<notes, notesTip, retained, retTip, marker>>
      BY <1>4 DEF ReadRetentionTip
    <2>4. \A v \in Writers :
             /\ snap'[v].tip <= notesTip /\ snap'[v].ret <= retTip
             /\ snap'[v].tip = notesTip => snap'[v].tree = notes
             /\ snap'[v].ret = retTip => snap'[v].base = retained
      BY <1>0, <2>1, <2>2 DEF SnapshotsTrue
    <2>5. QED
      BY <2>3, <2>4 DEF SnapshotsTrue
  <1>5. ASSUME NEW w \in Writers, ReadText(w) PROVE SnapshotsTrue'
    <2>1. \/ snap'[w] = NoSnap
          \/ /\ snap'[w].tip = snap[w].tip /\ snap'[w].tree = snap[w].tree
             /\ snap'[w].ret = snap[w].ret /\ snap'[w].base = snap[w].base
      BY <1>5 DEF ReadText, Finish, TypeOK, Snap
    <2>2. \A v \in Writers : v # w => snap'[v] = snap[v]
      BY <1>5 DEF ReadText, Finish, TypeOK
    <2>3. QED
      BY <1>0, <1>5, <2>1, <2>2 DEF ReadText, SnapshotsTrue, NoSnap
  <1>6. ASSUME NEW w \in Writers, ReadSnapshot(w) PROVE SnapshotsTrue'
    <2>1. /\ snap'[w].tip = snap[w].tip /\ snap'[w].tree = notes
          /\ snap'[w].ret = snap[w].ret /\ snap'[w].base = snap[w].base
      BY <1>6 DEF ReadSnapshot, TypeOK, Snap
    <2>2. \A v \in Writers : v # w => snap'[v] = snap[v]
      BY <1>6 DEF ReadSnapshot, TypeOK
    <2>3. QED
      BY <1>0, <1>6, <2>1, <2>2 DEF ReadSnapshot, SnapshotsTrue
  <1>7. ASSUME NEW w \in Writers, RecheckTips(w) PROVE SnapshotsTrue'
    <2>1. snap'[w] \in {snap[w], NoSnap} /\ \A v \in Writers : v # w => snap'[v] = snap[v]
      BY <1>7 DEF RecheckTips, Finish, TypeOK
    <2>2. QED
      BY <1>0, <1>7, <2>1 DEF RecheckTips, SnapshotsTrue, NoSnap
  <1>8. ASSUME NEW w \in Writers, Publish(w) \/ PublishRetention(w) PROVE SnapshotsTrue'
    <2>1. /\ snap'[w] = NoSnap /\ \A v \in Writers : v # w => snap'[v] = snap[v]
          /\ retTip' = retTip + 1
          /\ marker' \in {0, snap[w].tip}
          /\ notesTip' = notesTip + 1 \/ (notesTip' = notesTip /\ notes' = notes)
      BY <1>8 DEF Publish, PublishRetention, Finish, TypeOK
    <2>2. \A v \in Writers : snap'[v].ret < retTip' /\ snap'[v].tip <= notesTip'
      BY <1>0, <2>1 DEF SnapshotsTrue, NoSnap
    <2>3. \A v \in Writers : snap'[v].tip = notesTip' => snap'[v].tree = notes'
      BY <1>0, <2>1 DEF SnapshotsTrue, NoSnap
    <2>4. marker' <= notesTip' /\ notesTip' >= 1 /\ retTip' >= 1
      BY <1>0, <2>1 DEF SnapshotsTrue
    <2>5. \A v \in Writers : snap'[v].ret \in Nat
      BY <1>0, <2>1 DEF NoSnap
    <2>6. QED
      BY <1>0, <2>1, <2>2, <2>3, <2>4, <2>5 DEF SnapshotsTrue
  <1>9. ASSUME NEW c \in Commits, ForeignPublish(c) PROVE SnapshotsTrue'
    BY <1>0, <1>9 DEF ForeignPublish, SnapshotsTrue
  <1>10. CASE ClaimAges \/ (\E p \in Parked : KeepLocal(p)) \/ UNCHANGED vars
    BY <1>10 DEF ClaimAges, KeepLocal, vars, SnapshotsTrue
  <1>11. QED
    BY <1>1, <1>2, <1>3, <1>4, <1>5, <1>6, <1>7, <1>8, <1>9, <1>10, StepCases

-----------------------------------------------------------------------------
(* A writer about to publish has checked the container it read, and if the *)
(* notes ref has not moved since, that container is still there - provided *)
(* that reading a note does not fail unnoticed.                            *)
TextsTrue ==
    \A w \in Writers :
        /\ pc[w] = "recheck" => job[w].kind = "retain"
        /\ pc[w] = "publish" /\ job[w].kind # "retain" =>
              /\ Accepts(w, snap[w].text)
              /\ ~ReadsFail /\ snap[w].tip = notesTip => snap[w].text = notes[job[w].at]

LEMMA TextsInit == Init => TextsTrue
  BY DEF Init, TextsTrue

LEMMA TextsStep ==
    ASSUME TypeOK, SnapshotsTrue, TextsTrue, [Next]_vars
    PROVE  TextsTrue'
  <1> USE DEF refVars, lockVars, procVars, boundVars
  <1> DEFINE Fine(w) ==
               /\ pc[w] = "recheck" => job[w].kind = "retain"
               /\ pc[w] = "publish" /\ job[w].kind # "retain" =>
                     /\ Accepts(w, snap[w].text)
                     /\ ~ReadsFail /\ snap[w].tip = notesTip => snap[w].text = notes[job[w].at]
  <1>0. \A v \in Writers : Fine(v)
    BY DEF TextsTrue
  <1>1. notesTip \in Nat /\ \A w \in Writers : snap[w].tip \in Nat /\ snap[w].tip <= notesTip
    BY DEF TypeOK, Snap, SnapshotsTrue
  (* A writer whose own state does not change keeps its container unless   *)
  (* the notes ref moves, and then its tip is no longer the present one.   *)
  <1>2. ASSUME NEW v \in Writers,
               pc'[v] = pc[v], job'[v] = job[v], snap'[v] = snap[v],
               \/ notesTip' = notesTip /\ notes' = notes
               \/ notesTip' = notesTip + 1
        PROVE  Fine(v)'
    <2>1. Accepts(v, snap[v].text) => Accepts(v, snap[v].text)'
      BY <1>2 DEF Accepts, Rewritten
    <2>2. snap'[v].tip = notesTip' => snap[v].tip = notesTip /\ notes' = notes
      BY <1>1, <1>2
    <2>3. Fine(v)
      BY <1>0
    <2>4. QED
      BY <1>2, <2>1, <2>2, <2>3
  <1>3. ASSUME NEW w \in Writers,
               \/ Start(w) \/ ClaimStep(w) \/ EndStep(w) \/ ReadNotesTip(w)
               \/ ReadRetentionTip(w) \/ ReadSnapshot(w)
        PROVE  TextsTrue'
    <2>1. /\ pc'[w] # "publish" /\ UNCHANGED <<notes, notesTip>>
          /\ pc'[w] = "recheck" => job'[w].kind = "retain"
          /\ \A v \in Writers : v # w => pc'[v] = pc[v] /\ job'[v] = job[v] /\ snap'[v] = snap[v]
      <3>1. CASE Start(w) \/ ClaimStep(w) \/ EndStep(w)
        BY <3>1, Starts, ClaimSteps, EndSteps DEF Claiming, Releasing
      <3>2. CASE ReadNotesTip(w) \/ ReadRetentionTip(w) \/ ReadSnapshot(w)
        BY <3>2 DEF ReadNotesTip, ReadRetentionTip, ReadSnapshot, Goto, TypeOK
      <3>3. QED
        BY <1>3, <3>1, <3>2
    <2>2. \A v \in Writers : Fine(v)'
      BY <1>2, <2>1
    <2>3. QED
      BY <2>2 DEF TextsTrue
  <1>4. ASSUME NEW w \in Writers, ReadText(w) PROVE TextsTrue'
    <2>1. /\ UNCHANGED <<notes, notesTip, job>> /\ pc'[w] # "recheck"
          /\ \A v \in Writers : v # w => pc'[v] = pc[v] /\ snap'[v] = snap[v]
      BY <1>4 DEF ReadText, Finish, Goto, TypeOK
    <2>2. pc'[w] = "publish" =>
             \E text \in TextsRead(job[w].at) : Accepts(w, text) /\ snap'[w].text = text
      BY <1>4 DEF ReadText, Finish, Goto, TypeOK, Snap
    <2>3. ~ReadsFail => TextsRead(job[w].at) = {notes[job[w].at]}
      BY DEF TextsRead
    <2>4. \A text \in Container : Accepts(w, text) => Accepts(w, text)'
      BY <2>1 DEF Accepts, Rewritten
    <2>5. job[w] \in Job
      BY <1>4 DEF ReadText, TypeOK
    <2>6. TextsRead(job[w].at) \subseteq Container
      BY <2>5, JobTypes, ContainerTypes DEF TextsRead, TypeOK
    <2>7. Fine(w)'
      <3> SUFFICES ASSUME pc'[w] = "publish", job'[w].kind # "retain"
                   PROVE  /\ Accepts(w, snap[w].text)'
                          /\ ~ReadsFail => snap'[w].text = notes'[job'[w].at]
        BY <2>1
      <3> PICK text \in TextsRead(job[w].at) : Accepts(w, text) /\ snap'[w].text = text
        BY <2>2
      <3>1. Accepts(w, text)'
        BY <2>4, <2>6
      <3>2. Accepts(w, snap[w].text)'
        BY <3>1 DEF Accepts, Rewritten
      <3>3. QED
        BY <2>1, <2>3, <3>2
    <2>8. \A v \in Writers : v # w => Fine(v)'
      BY <1>2, <2>1
    <2>9. QED
      BY <2>7, <2>8 DEF TextsTrue
  <1>5. ASSUME NEW w \in Writers, RecheckTips(w) \/ Publish(w) \/ PublishRetention(w)
        PROVE  TextsTrue'
    <2>1. /\ job' = job /\ pc'[w] # "recheck" /\ (pc'[w] = "publish" => job[w].kind = "retain")
          /\ (notesTip' = notesTip /\ notes' = notes) \/ notesTip' = notesTip + 1
          /\ \A v \in Writers : v # w => pc'[v] = pc[v] /\ snap'[v] = snap[v]
      <3>1. CASE RecheckTips(w)
        BY <1>0, <3>1 DEF RecheckTips, Finish, Goto, TypeOK
      <3>2. CASE Publish(w) \/ PublishRetention(w)
        BY <3>2 DEF Publish, PublishRetention, Finish, Goto, TypeOK
      <3>3. QED
        BY <1>5, <3>1, <3>2
    <2>2. \A v \in Writers : Fine(v)'
      BY <1>2, <2>1
    <2>3. QED
      BY <2>2 DEF TextsTrue
  <1>6. CASE ClaimAges \/ (\E c \in Commits : ForeignPublish(c))
               \/ (\E p \in Parked : KeepLocal(p)) \/ UNCHANGED vars
    <2>1. UNCHANGED <<pc, job, snap>> /\
          ((notesTip' = notesTip /\ notes' = notes) \/ notesTip' = notesTip + 1)
      BY <1>6 DEF ClaimAges, ForeignPublish, KeepLocal, vars
    <2>2. \A v \in Writers : Fine(v)'
      BY <1>2, <2>1
    <2>3. QED
      BY <2>2 DEF TextsTrue
  <1>7. QED
    BY <1>3, <1>4, <1>5, <1>6, StepCases

-----------------------------------------------------------------------------
(* Disputes are only settled: a backfill about to publish left out at      *)
(* least the records that are disputed now.                                *)
DisputesSeen ==
    \A w \in Writers :
        /\ pc[w] = "recheck" => parked \subseteq snap[w].disputed
        /\ pc[w] = "publish" /\ job[w].kind = "retain" => parked \subseteq snap[w].disputed

LEMMA DisputesInit == Init => DisputesSeen
  BY DEF Init, DisputesSeen

LEMMA DisputesStep ==
    ASSUME TypeOK, DisputesSeen, [Next]_vars
    PROVE  DisputesSeen'
  <1> USE DEF refVars, lockVars, procVars, boundVars
  <1> DEFINE Fine(w) ==
               /\ pc[w] = "recheck" => parked \subseteq snap[w].disputed
               /\ pc[w] = "publish" /\ job[w].kind = "retain" => parked \subseteq snap[w].disputed
  <1>0. \A v \in Writers : Fine(v)
    BY DEF DisputesSeen
  <1>1. ASSUME NEW v \in Writers, pc'[v] = pc[v], job'[v] = job[v], snap'[v] = snap[v],
               parked' \subseteq parked
        PROVE  Fine(v)'
    BY <1>0, <1>1
  <1>2. ASSUME NEW w \in Writers, Start(w) \/ ClaimStep(w) \/ EndStep(w)
        PROVE  DisputesSeen'
    <2>1. /\ pc'[w] \notin {"recheck", "publish"} /\ UNCHANGED parked
          /\ \A v \in Writers : v # w => pc'[v] = pc[v] /\ job'[v] = job[v] /\ snap'[v] = snap[v]
      BY <1>2, Starts, ClaimSteps, EndSteps DEF Claiming, Releasing
    <2>2. \A v \in Writers : Fine(v)'
      BY <1>1, <2>1
    <2>3. QED
      BY <2>2 DEF DisputesSeen
  <1>3. ASSUME NEW w \in Writers,
               ReadNotesTip(w) \/ ReadRetentionTip(w) \/ ReadText(w) \/ ReadSnapshot(w)
        PROVE  DisputesSeen'
    <2>1. /\ UNCHANGED <<parked, job>>
          /\ \A v \in Writers : v # w => pc'[v] = pc[v] /\ snap'[v] = snap[v]
          /\ pc'[w] = "recheck" => snap'[w].disputed = parked
          /\ pc'[w] = "publish" => job[w].kind # "retain"
      BY <1>3 DEF ReadNotesTip, ReadRetentionTip, ReadText, ReadSnapshot, Finish, Goto, TypeOK, Snap
    <2>2. \A v \in Writers : Fine(v)'
      BY <1>1, <2>1
    <2>3. QED
      BY <2>2 DEF DisputesSeen
  <1>4. ASSUME NEW w \in Writers, RecheckTips(w) PROVE DisputesSeen'
    <2>1. /\ UNCHANGED <<parked, job>> /\ pc[w] = "recheck"
          /\ \A v \in Writers : v # w => pc'[v] = pc[v] /\ snap'[v] = snap[v]
          /\ pc'[w] = "check" \/ (pc'[w] = "publish" /\ snap'[w] = snap[w])
      BY <1>4 DEF RecheckTips, Finish, Goto, TypeOK
    <2>2. \A v \in Writers : Fine(v)'
      BY <1>0, <1>1, <2>1
    <2>3. QED
      BY <2>2 DEF DisputesSeen
  <1>5. ASSUME NEW w \in Writers, Publish(w) \/ PublishRetention(w) PROVE DisputesSeen'
    <2>1. /\ job' = job /\ parked' \subseteq parked /\ pc'[w] = "check"
          /\ \A v \in Writers : v # w => pc'[v] = pc[v] /\ snap'[v] = snap[v]
      BY <1>5 DEF Publish, PublishRetention, Finish, Goto, TypeOK
    <2>2. \A v \in Writers : Fine(v)'
      BY <1>1, <2>1
    <2>3. QED
      BY <2>2 DEF DisputesSeen
  <1>6. CASE ClaimAges \/ (\E c \in Commits : ForeignPublish(c))
               \/ (\E p \in Parked : KeepLocal(p)) \/ UNCHANGED vars
    <2>1. UNCHANGED <<pc, job, snap>> /\ parked' \subseteq parked
      BY <1>6 DEF ClaimAges, ForeignPublish, KeepLocal, vars
    <2>2. \A v \in Writers : Fine(v)'
      BY <1>1, <2>1
    <2>3. QED
      BY <2>2 DEF DisputesSeen
  <1>7. QED
    BY <1>2, <1>3, <1>4, <1>5, <1>6, StepCases

-----------------------------------------------------------------------------
(* A writer publishes once: when it has a result it is past the critical   *)
(* section, and a publication it reports is in the history.                *)
SettledOnce ==
    \A w \in Writers :
        /\ result[w] # "pending" => pc[w] \in Releasing \cup {"end", "crashed"}
        /\ result[w] = "published" /\ job[w].kind # "retain"
              => <<job[w].at, NewRecord(w)>> \in published

LEMMA SettledInit == Init => SettledOnce
  BY DEF Init, SettledOnce

LEMMA SettledStep ==
    ASSUME TypeOK, SettledOnce, [Next]_vars
    PROVE  SettledOnce'
  <1> USE DEF refVars, lockVars, procVars, boundVars
  <1> DEFINE Fine(w) ==
               /\ result[w] # "pending" => pc[w] \in Releasing \cup {"end", "crashed"}
               /\ result[w] = "published" /\ job[w].kind # "retain"
                     => <<job[w].at, NewRecord(w)>> \in published
  <1>0. \A v \in Writers : Fine(v)
    BY DEF SettledOnce
  <1>1. ASSUME NEW v \in Writers, pc'[v] = pc[v], job'[v] = job[v], result'[v] = result[v],
               published \subseteq published'
        PROVE  Fine(v)'
    <2>1. NewRecord(v)' = NewRecord(v)
      BY <1>1 DEF NewRecord
    <2>2. QED
      BY <1>0, <1>1, <2>1
  <1>2. ASSUME NEW w \in Writers, ClaimStep(w) PROVE SettledOnce'
    <2>1. NewRecord(w)' = NewRecord(w)
      BY <1>2, ClaimSteps DEF NewRecord
    <2>2. Fine(w)'
      BY <1>0, <1>2, <2>1, ClaimSteps DEF Claiming, Releasing
    <2>3. \A v \in Writers : v # w => Fine(v)'
      BY <1>1, <1>2, ClaimSteps
    <2>4. QED
      BY <2>2, <2>3 DEF SettledOnce
  <1>3. ASSUME NEW w \in Writers, EndStep(w) PROVE SettledOnce'
    <2>1. NewRecord(w)' = NewRecord(w)
      BY <1>3, EndSteps DEF NewRecord
    <2>2. Fine(w)'
      BY <1>0, <1>3, <2>1, EndSteps DEF Releasing
    <2>3. \A v \in Writers : v # w => Fine(v)'
      BY <1>1, <1>3, EndSteps
    <2>4. QED
      BY <2>2, <2>3 DEF SettledOnce
  <1>4. ASSUME NEW w \in Writers, Start(w) PROVE SettledOnce'
    <2>1. result[w] = "pending"
      BY <1>0, <1>4, Starts DEF Releasing
    <2>2. Fine(w)'
      BY <1>4, <2>1, Starts
    <2>3. \A v \in Writers : v # w => Fine(v)'
      BY <1>1, <1>4, Starts
    <2>4. QED
      BY <2>2, <2>3 DEF SettledOnce
  <1>5. ASSUME NEW w \in Writers,
               \/ ReadNotesTip(w) \/ ReadRetentionTip(w) \/ ReadText(w)
               \/ ReadSnapshot(w) \/ RecheckTips(w)
        PROVE  SettledOnce'
    <2>1. /\ pc[w] \in Critical /\ UNCHANGED <<job, published>>
          /\ (result'[w] = result[w] \/ (result'[w] \in {"refused", "unchanged"} /\ pc'[w] = "check"))
          /\ \A v \in Writers : v # w => pc'[v] = pc[v] /\ result'[v] = result[v]
      BY <1>5 DEF ReadNotesTip, ReadRetentionTip, ReadText, ReadSnapshot, RecheckTips,
                  Finish, Goto, TypeOK, Critical
    <2>2. result[w] = "pending"
      BY <1>0, <2>1 DEF Critical, Releasing
    <2>3. Fine(w)'
      BY <2>1, <2>2 DEF Releasing
    <2>4. \A v \in Writers : v # w => Fine(v)'
      BY <1>1, <2>1
    <2>5. QED
      BY <2>3, <2>4 DEF SettledOnce
  <1>6. ASSUME NEW w \in Writers, Publish(w) \/ PublishRetention(w) PROVE SettledOnce'
    <2>1. /\ pc'[w] = "check" /\ job' = job /\ published \subseteq published'
          /\ \A v \in Writers : v # w => pc'[v] = pc[v] /\ result'[v] = result[v]
          /\ job[w].kind # "retain" => <<job[w].at, NewRecord(w)>> \in published'
      BY <1>6 DEF Publish, PublishRetention, Finish, Goto, TypeOK
    <2>2. NewRecord(w)' = NewRecord(w)
      BY <2>1 DEF NewRecord
    <2>3. Fine(w)'
      BY <2>1, <2>2 DEF Releasing
    <2>4. \A v \in Writers : v # w => Fine(v)'
      BY <1>1, <2>1
    <2>5. QED
      BY <2>3, <2>4 DEF SettledOnce
  <1>7. CASE ClaimAges \/ (\E c \in Commits : ForeignPublish(c))
               \/ (\E p \in Parked : KeepLocal(p)) \/ UNCHANGED vars
    <2>1. UNCHANGED <<pc, job, result, published>>
      BY <1>7 DEF ClaimAges, ForeignPublish, KeepLocal, vars
    <2>2. QED
      BY <1>1, <2>1 DEF SettledOnce
  <1>8. QED
    BY <1>2, <1>3, <1>4, <1>5, <1>6, <1>7, StepCases

-----------------------------------------------------------------------------
(* As long as no claim was renamed away, the claim in the file is that of  *)
(* the writer that has it open or believes it holds the lock.              *)
OwnersKnown ==
    ~abandoned => \A w \in Writers : pc[w] = "write" \/ Holds(w) => lock.by = {w}

LEMMA OwnersInit == Init => OwnersKnown
  BY DEF Init, OwnersKnown, Holds, Critical, Releasing

LEMMA OwnersStep ==
    ASSUME TypeOK, OwnersKnown, [Next]_vars
    PROVE  OwnersKnown'
  <1> USE DEF refVars, lockVars, procVars, boundVars
  <1> DEFINE Owns(w) == pc[w] = "write" \/ pc[w] \in Critical \cup Releasing
  <1>0. OwnersKnown <=> (~abandoned => \A w \in Writers : Owns(w) => lock.by = {w})
    BY DEF OwnersKnown, Holds
  <1>1. OwnersKnown' <=> (~abandoned' => \A w \in Writers : Owns(w)' => lock'.by = {w})
    BY DEF OwnersKnown, Holds
  <1>2. ASSUME NEW w \in Writers, UNCHANGED <<lock, abandoned>>, Owns(w)' => Owns(w),
               \A v \in Writers : v # w => pc'[v] = pc[v]
        PROVE  OwnersKnown'
    <2>1. \A v \in Writers : Owns(v)' => Owns(v)
      BY <1>2
    <2>2. QED
      BY <1>0, <1>1, <1>2, <2>1
  <1>3. ASSUME NEW w \in Writers, Start(w) \/ EndStep(w) PROVE OwnersKnown'
    <2>1. CASE Start(w)
      BY <1>2, <2>1, Starts DEF Critical, Releasing
    <2>2. CASE EndStep(w)
      BY <1>2, <2>2, EndSteps DEF Critical, Releasing
    <2>3. QED
      BY <1>3, <2>1, <2>2
  <1>4. ASSUME NEW w \in Writers, CreateClaim(w) PROVE OwnersKnown'
    <2>1. CASE lock = NoLock
      <3>1. lock' = [by |-> {w}, written |-> FALSE, old |-> FALSE] /\ UNCHANGED abandoned
        BY <1>4, <2>1 DEF CreateClaim
      <3>2. lock'.by = {w} /\ lock.by = {}
        BY <2>1, <3>1 DEF NoLock
      <3>3. \A v \in Writers : v # w => pc'[v] = pc[v]
        BY <1>4 DEF CreateClaim, Goto, TypeOK
      <3>4. ~abandoned => \A v \in Writers : ~Owns(v)
        BY <1>0, <3>2
      <3>5. QED
        BY <1>1, <3>1, <3>2, <3>3, <3>4
    <2>2. CASE lock # NoLock
      BY <1>2, <1>4, <2>2 DEF CreateClaim, Goto, TypeOK, Critical, Releasing
    <2>3. QED
      BY <2>1, <2>2
  <1>5. ASSUME NEW w \in Writers, WriteClaim(w) PROVE OwnersKnown'
    <2>1. lock'.by = lock.by /\ UNCHANGED abandoned
      BY <1>5 DEF WriteClaim, TypeOK
    <2>2. pc[w] = "write" /\ \A v \in Writers : v # w => pc'[v] = pc[v]
      BY <1>5 DEF WriteClaim, Goto, TypeOK
    <2>3. \A v \in Writers : Owns(v)' => Owns(v)
      BY <2>2
    <2>4. QED
      BY <1>0, <1>1, <2>1, <2>3
  <1>6. ASSUME NEW w \in Writers, InspectLock(w) \/ RenameRefused(w) \/ PollAgain(w) \/ CheckHolder(w)
        PROVE  OwnersKnown'
    BY <1>2, <1>6 DEF InspectLock, RenameRefused, PollAgain, CheckHolder, Goto, TypeOK,
                      Critical, Releasing
  <1>7. ASSUME NEW w \in Writers, Renamed(w) PROVE OwnersKnown'
    <2>1. CASE lock = NoLock
      BY <1>2, <1>7, <2>1 DEF Renamed, Goto, TypeOK, Critical, Releasing
    <2>2. CASE lock # NoLock
      BY <1>1, <1>7, <2>2 DEF Renamed
    <2>3. QED
      BY <2>1, <2>2
  <1>8. ASSUME NEW w \in Writers, RemoveClaim(w) PROVE OwnersKnown'
    <2>1. /\ pc[w] = "remove" /\ pc'[w] = "end" /\ UNCHANGED abandoned
          /\ \A v \in Writers : v # w => pc'[v] = pc[v]
      BY <1>8 DEF RemoveClaim, Goto, TypeOK
    <2>2. ~abandoned => lock.by = {w}
      BY <1>0, <2>1 DEF Releasing
    <2>3. ~abandoned => \A v \in Writers : Owns(v) => v = w
      BY <1>0, <2>2
    <2>4. ~Owns(w)'
      BY <2>1 DEF Critical, Releasing
    <2>5. ~abandoned' => \A v \in Writers : ~Owns(v)'
      BY <2>1, <2>3, <2>4
    <2>6. QED
      BY <1>1, <2>5
  <1>9. ASSUME NEW w \in Writers,
               \/ ReadNotesTip(w) \/ ReadRetentionTip(w) \/ ReadText(w) \/ ReadSnapshot(w)
               \/ RecheckTips(w) \/ Publish(w) \/ PublishRetention(w)
        PROVE  OwnersKnown'
    <2>1. /\ pc[w] \in Critical /\ UNCHANGED <<lock, abandoned>>
          /\ \A v \in Writers : v # w => pc'[v] = pc[v]
      BY <1>9 DEF ReadNotesTip, ReadRetentionTip, ReadText, ReadSnapshot, RecheckTips,
                  Publish, PublishRetention, Finish, Goto, TypeOK, Critical
    <2>2. QED
      BY <1>2, <2>1
  <1>10. CASE ClaimAges
    <2>1. lock'.by = lock.by /\ UNCHANGED <<abandoned, pc>>
      BY <1>10 DEF ClaimAges, TypeOK
    <2>2. QED
      BY <1>0, <1>1, <2>1
  <1>11. CASE (\E c \in Commits : ForeignPublish(c)) \/ (\E p \in Parked : KeepLocal(p)) \/ UNCHANGED vars
    <2>1. UNCHANGED <<lock, abandoned, pc>>
      BY <1>11 DEF ForeignPublish, KeepLocal, vars
    <2>2. QED
      BY <1>0, <1>1, <2>1
  <1>12. QED
    BY <1>3, <1>4, <1>5, <1>6, <1>7, <1>8, <1>9, <1>10, <1>11, StepCases DEF ClaimStep

-----------------------------------------------------------------------------
(* The store refines its abstract specification: one publication, one      *)
(* abstract step.                                                          *)

(* What a publication does to the notes and to the retention, once the     *)
(* snapshot is known to be true.                                           *)
LEMMA PublishEffect ==
    ASSUME TypeOK, SnapshotsTrue, TextsTrue, ~ReadsFail, NEW w \in Writers, Publish(w)
    PROVE  /\ job[w] \in Job /\ job[w].at \in Commits
           /\ notes[job[w].at] \in Container
           /\ Accepts(w, notes[job[w].at])
           /\ notes' = [notes EXCEPT ![job[w].at] = Rewritten(w, notes[job[w].at])]
           /\ retained' = retained \cup {NewRecord(w)}
  <1>1. job[w] \in Job /\ job[w].at \in Commits
    BY JobTypes DEF Publish, TypeOK
  <1>2. /\ snap[w].tree = notes /\ snap[w].base = retained
        /\ snap[w].text = notes[job[w].at] /\ Accepts(w, snap[w].text)
    BY DEF Publish, TipsUnmoved, SnapshotsTrue, TextsTrue
  <1>3. QED
    BY <1>1, <1>2 DEF Publish, Carrier, TypeOK

LEMMA RetentionEffect ==
    ASSUME TypeOK, SnapshotsTrue, NEW w \in Writers, PublishRetention(w)
    PROVE  retained' = retained \cup Accepted(notes, snap[w].disputed) /\ marker' = notesTip
  BY DEF PublishRetention, TipsUnmoved, Carrier, Eligible, SnapshotsTrue

(* The abstract module has its own copy of the container operators.        *)
LEMMA StoreOperators ==
    /\ \A n : (Store!Readable(n) <=> Readable(n)) /\ (Store!Fits(n) <=> Fits(n))
    /\ \A n, r : Store!WithRecord(n, r) = WithRecord(n, r)
    /\ \A n, p : Store!WithReplacement(n, p) = WithReplacement(n, p)
    /\ \A x : /\ Store!Own(x) = Own(x) /\ Store!Local(x) = Local(x)
              /\ Store!Replacement(x) = Replacement(x) /\ Store!Note(x) = Note(x)
    /\ \A tree, D : Store!Accepted(tree, D) = Accepted(tree, D)
    /\ Store!Empty = Empty /\ Store!LegacyText = LegacyText
    /\ Store!ForeignJson = ForeignJson /\ Store!Peer = Peer
  <1>1. /\ Store!Empty = Empty /\ Store!LegacyText = LegacyText
        /\ Store!ForeignJson = ForeignJson /\ Store!Peer = Peer
        /\ \A x : /\ Store!Own(x) = Own(x) /\ Store!Local(x) = Local(x)
                  /\ Store!Replacement(x) = Replacement(x) /\ Store!Note(x) = Note(x)
                  /\ (Store!Readable(x) <=> Readable(x)) /\ (Store!Fits(x) <=> Fits(x))
    BY DEF Store!Own, Own, Store!Local, Local, Store!Replacement, Replacement,
           Store!Note, Note, Store!Empty, Empty, Store!LegacyText, LegacyText,
           Store!ForeignJson, ForeignJson, Store!Peer, Peer, Store!Legacy, Legacy,
           Store!Readable, Readable, Store!Fits, Fits, Store!Cardinality, Cardinality
  <1>2. \A n : Store!RecordsOf(n) = RecordsOf(n)
    BY <1>1 DEF Store!RecordsOf, RecordsOf
  <1>3. \A n, r : Store!WithRecord(n, r) = WithRecord(n, r)
    BY <1>1, <1>2 DEF Store!WithRecord, WithRecord
  <1>4. \A n, p : Store!WithReplacement(n, p) = WithReplacement(n, p)
    BY <1>1, <1>2 DEF Store!WithReplacement, WithReplacement
  <1>5. \A tree, D : Store!Accepted(tree, D) = Accepted(tree, D)
    BY <1>1, <1>2 DEF Store!Accepted, Accepted, Store!AllRecords, AllRecords,
                      Store!Copies, Copies, Store!Legacy, Legacy
  <1>6. QED
    BY <1>1, <1>2, <1>3, <1>4, <1>5

(* Every step of the protocol is a step of the store, or invisible to it.  *)
LEMMA StoreStep ==
    ASSUME TypeOK, SnapshotsTrue, TextsTrue, DisputesSeen, ~ReadsFail, [Next]_vars
    PROVE  [Store!Next]_Store!storeVars
  <1> USE DEF refVars, lockVars, procVars, boundVars, Store!storeVars
  <1>1. ASSUME NEW w \in Writers, Publish(w) PROVE Store!Next
    <2> DEFINE c == job[w].at
    <2>1. /\ job[w] \in Job /\ c \in Commits /\ Accepts(w, notes[c])
          /\ notes' = [notes EXCEPT ![c] = Rewritten(w, notes[c])]
          /\ retained' = retained \cup {NewRecord(w)}
          /\ job[w].kind # "retain"
      BY <1>1, PublishEffect DEF Publish
    <2>2. CASE job[w].kind = "append"
      <3>1. Store!Append(c, w)
        BY <1>1, <2>1, <2>2, StoreOperators DEF Publish, Store!Append, Accepts, Rewritten, NewRecord
      <3>2. QED
        BY <2>1, <3>1 DEF Store!Next
    <2>3. CASE job[w].kind = "resolve"
      <3>1. Store!Resolve(c, w, job[w].ref)
        BY <1>1, <2>1, <2>3, StoreOperators DEF Publish, RefFree, Store!Resolve, Accepts, Rewritten, NewRecord
      <3>2. job[w].ref \in Sigs
        BY <2>1, <2>3, JobTypes
      <3>3. QED
        BY <2>1, <3>1, <3>2 DEF Store!Next
    <2>4. CASE job[w].kind = "replace"
      <3>1. job[w].ref \in Parked /\ c = HomeOf[job[w].ref]
        BY <2>1, <2>4, JobTypes
      <3>2. Store!Replace(job[w].ref)
        BY <1>1, <2>1, <2>4, <3>1, StoreOperators DEF Publish, RefFree, Store!Replace, Accepts, Rewritten, NewRecord
      <3>3. QED
        BY <3>1, <3>2 DEF Store!Next
    <2>5. QED
      BY <2>1, <2>2, <2>3, <2>4, JobTypes
  <1>2. ASSUME NEW w \in Writers, PublishRetention(w) PROVE Store!Next
    <2>1. snap[w].disputed \in SUBSET Parked /\ parked \subseteq snap[w].disputed
      BY <1>2 DEF PublishRetention, DisputesSeen, TypeOK, Snap
    <2>2. Store!Retain(snap[w].disputed)
      BY <1>2, <2>1, RetentionEffect, StoreOperators DEF PublishRetention, Store!Retain
    <2>3. QED
      BY <2>1, <2>2 DEF Store!Next
  <1>3. ASSUME NEW c \in Commits, ForeignPublish(c) PROVE Store!Next
    <2>1. Store!ForeignNote(c)
      BY <1>3, StoreOperators DEF ForeignPublish, Store!ForeignNote
    <2>2. QED
      BY <2>1 DEF Store!Next
  <1>4. ASSUME NEW p \in Parked, KeepLocal(p) PROVE Store!Next
    <2>1. Store!KeepLocal(p)
      BY <1>4 DEF KeepLocal, Store!KeepLocal
    <2>2. QED
      BY <2>1 DEF Store!Next
  <1>5. ASSUME NEW w \in Writers, Start(w) \/ ClaimStep(w) \/ EndStep(w)
        PROVE UNCHANGED Store!storeVars
    BY <1>5, Starts, ClaimSteps, EndSteps
  <1>6. ASSUME NEW w \in Writers,
               \/ ReadNotesTip(w) \/ ReadRetentionTip(w) \/ ReadText(w)
               \/ ReadSnapshot(w) \/ RecheckTips(w)
        PROVE UNCHANGED Store!storeVars
    BY <1>6 DEF ReadNotesTip, ReadRetentionTip, ReadText, ReadSnapshot, RecheckTips
  <1>7. CASE ClaimAges \/ UNCHANGED vars
    BY <1>7 DEF ClaimAges, vars
  <1>8. QED
    BY <1>1, <1>2, <1>3, <1>4, <1>5, <1>6, <1>7, StepCases

-----------------------------------------------------------------------------
(* What the records, the retention and the refs owe each other.            *)

(* Local copies are never published: only replacements and own records.    *)
KindsApart == \A pr \in published, p \in Parked : pr[2] # Local(p)

ResolversOnly == \A s \in Sigs : \A w \in resRefs[s] : job[w].kind = "resolve"

RecordInv == NoLostRecord /\ RetentionCovers /\ RefsMoveWithRecords /\ KindsApart /\ ResolversOnly

(* Names of records of different kinds, or of different owners, differ.    *)
LEMMA NamesApart ==
    /\ \A v, w : Own(v) = Own(w) => v = w
    /\ \A p, q : Local(p) = Local(q) => p = q
    /\ \A p, q : Replacement(p) = Replacement(q) => p = q
    /\ \A w, p : Own(w) # Local(p) /\ Own(w) # Replacement(p) /\ Local(w) # Replacement(p)
    /\ \A x : Peer # Own(x) /\ Peer # Local(x) /\ Peer # Replacement(x)
    /\ \A x : Legacy # Own(x) /\ Legacy # Local(x) /\ Legacy # Replacement(x)
  BY DEF Own, Local, Replacement, Peer, Legacy

LEMMA RecordsInit == Init => RecordInv
  <1> SUFFICES ASSUME Init PROVE RecordInv
    OBVIOUS
  <1>1. \A p \in Parked : notes[HomeOf[p]].records = {Local(q) : q \in {x \in Parked : HomeOf[x] = HomeOf[p]}}
    BY DEF Init, Note
  <1>2. \A p \in Parked : Local(p) \in notes[HomeOf[p]].records /\ Replacement(p) \notin notes[HomeOf[p]].records
    BY <1>1, NamesApart
  <1>3. NoLostRecord
    BY <1>2 DEF Init, NoLostRecord
  <1>4. RetentionCovers
    BY DEF Init, RetentionCovers
  <1>5. RefsMoveWithRecords
    BY <1>2 DEF Init, RefsMoveWithRecords, NoJob
  <1>6. QED
    BY <1>3, <1>4, <1>5 DEF Init, RecordInv, KindsApart, ResolversOnly

(* The writer reports no publication by this step.                         *)
Unsettled(w) ==
    \/ job'[w] = job[w] /\ result'[w] = result[w]
    \/ result[w] # "published" /\ result'[w] # "published"

(* A step that changes no ref and settles no resolution keeps all of it.   *)
LEMMA QuietRecords ==
    ASSUME TypeOK, RecordInv, UNCHANGED refVars, \A w \in Writers : Unsettled(w)
    PROVE  RecordInv'
  <1> USE DEF refVars, Unsettled
  <1>1. \A s \in Sigs : \A w \in resRefs[s] : result[w] = "published" /\ w \in Writers
    BY DEF RecordInv, RefsMoveWithRecords, TypeOK
  <1>2. ResolversOnly'
    BY <1>1 DEF RecordInv, ResolversOnly
  <1>3. RefsMoveWithRecords'
    BY <1>1 DEF RecordInv, RefsMoveWithRecords
  <1>4. QED
    BY <1>2, <1>3 DEF RecordInv, NoLostRecord, RetentionCovers, KindsApart

(* The records of a rewritten container: those it had and the new one,     *)
(* less the local copy that a replacement stands in for.                   *)
LEMMA RewrittenRecords ==
    ASSUME TypeOK, NEW w \in Writers, job[w] \in Job, job[w].kind # "retain",
           NEW n \in Container, Accepts(w, n)
    PROVE  /\ NewRecord(w) \in Rewritten(w, n).records
           /\ Rewritten(w, n).form = "note"
           /\ \A r \in n.records :
                 \/ r \in Rewritten(w, n).records
                 \/ job[w].kind = "replace" /\ r = Local(job[w].ref)
           /\ \A r \in Rewritten(w, n).records : r \in n.records \/ r = NewRecord(w)
           /\ job[w].kind = "replace" => Local(job[w].ref) \notin Rewritten(w, n).records
  BY NamesApart DEF Accepts, Readable, Rewritten, NewRecord, WithRecord, WithReplacement,
                    RecordsOf, Note

LEMMA PublishRecords ==
    ASSUME TypeOK, SnapshotsTrue, TextsTrue, SettledOnce, RecordInv, ~ReadsFail,
           NEW w \in Writers, Publish(w)
    PROVE  RecordInv'
  <1> DEFINE c == job[w].at
             N == Rewritten(w, notes[c])
             r == NewRecord(w)
  <1>1. /\ job[w] \in Job /\ c \in Commits /\ notes[c] \in Container /\ Accepts(w, notes[c])
        /\ notes' = [notes EXCEPT ![c] = N]
        /\ retained' = retained \cup {r}
        /\ published' = published \cup {<<c, r>>}
        /\ job' = job /\ job[w].kind # "retain" /\ result[w] = "pending"
        /\ RefFree(w)
    <2>1. result[w] = "pending"
      BY DEF Publish, SettledOnce, Releasing
    <2>2. QED
      BY <2>1, PublishEffect DEF Publish
  <1>2. /\ notes'[c] = N /\ \A d \in Commits : d # c => notes'[d] = notes[d]
    BY <1>1 DEF TypeOK
  <1>3. /\ r \in N.records
        /\ \A x \in notes[c].records : x \in N.records \/ (job[w].kind = "replace" /\ x = Local(job[w].ref))
        /\ \A x \in N.records : x \in notes[c].records \/ x = r
        /\ job[w].kind = "replace" => Local(job[w].ref) \notin N.records
    BY <1>1, RewrittenRecords
  <1>4. /\ job[w].kind = "replace" => r = Replacement(job[w].ref) /\ job[w].ref \in Parked
                                      /\ c = HomeOf[job[w].ref]
        /\ job[w].kind # "replace" => r = Own(w)
        /\ job[w].kind = "resolve" => job[w].ref \in Sigs
    BY <1>1, JobTypes DEF NewRecord
  <1>5. KindsApart'
    BY <1>1, <1>4, NamesApart DEF RecordInv, KindsApart
  <1>6. NoLostRecord'
    <2>1. ASSUME NEW pr \in published' PROVE pr[2] \in notes'[pr[1]].records
      <3>1. CASE pr = <<c, r>>
        BY <1>2, <1>3, <3>1
      <3>2. CASE pr \in published
        <4>1. pr[1] \in Commits /\ pr[2] \in notes[pr[1]].records
          BY <3>2 DEF RecordInv, NoLostRecord, TypeOK
        <4>2. job[w].kind = "replace" => pr[2] # Local(job[w].ref)
          BY <1>4, <3>2 DEF RecordInv, KindsApart
        <4>3. QED
          BY <1>2, <1>3, <4>1, <4>2
      <3>3. QED
        BY <1>1, <2>1, <3>1, <3>2
    <2>2. ASSUME NEW p \in Parked
          PROVE  (Local(p) \in notes'[HomeOf[p]].records) # (Replacement(p) \in notes'[HomeOf[p]].records)
      <3>1. (Local(p) \in notes[HomeOf[p]].records) # (Replacement(p) \in notes[HomeOf[p]].records)
        BY DEF RecordInv, NoLostRecord
      <3>2. HomeOf[p] \in Commits
        OBVIOUS
      <3>3. CASE HomeOf[p] # c
        BY <1>2, <3>1, <3>2, <3>3
      <3>4. CASE HomeOf[p] = c /\ job[w].kind = "replace" /\ job[w].ref = p
        BY <1>2, <1>3, <1>4, <3>4
      <3>5. CASE HomeOf[p] = c /\ ~(job[w].kind = "replace" /\ job[w].ref = p)
        <4>1. Local(p) # r /\ Replacement(p) # r
          BY <1>4, <3>5, NamesApart
        <4>2. job[w].kind = "replace" => Local(p) # Local(job[w].ref) /\ Replacement(p) # Local(job[w].ref)
          BY <3>5, NamesApart
        <4>3. /\ Local(p) \in N.records <=> Local(p) \in notes[c].records
              /\ Replacement(p) \in N.records <=> Replacement(p) \in notes[c].records
          BY <1>3, <4>1, <4>2
        <4>4. QED
          BY <1>2, <3>1, <3>5, <4>3
      <3>6. QED
        BY <3>3, <3>4, <3>5
    <2>3. QED
      BY <2>1, <2>2 DEF NoLostRecord
  <1>7. RetentionCovers'
    <2>1. marker' # notesTip'
      BY DEF Publish, TypeOK
    <2>2. \A pr \in published' : pr[2] \in retained'
      BY <1>1 DEF RecordInv, RetentionCovers
    <2>3. QED
      BY <2>1, <2>2 DEF RetentionCovers
  <1>8. /\ result' = [result EXCEPT ![w] = "published"]
        /\ \A v \in Writers : v # w => result'[v] = result[v]
        /\ result'[w] = "published"
    BY DEF Publish, Finish, TypeOK
  <1>9. /\ job[w].kind = "resolve" => /\ resRefs[job[w].ref] = {}
                                      /\ resRefs'[job[w].ref] = {w}
                                      /\ \A s \in Sigs : s # job[w].ref => resRefs'[s] = resRefs[s]
        /\ job[w].kind # "resolve" => resRefs' = resRefs
    BY <1>1, <1>4 DEF Publish, RefFree, TypeOK
  <1>10. \A s \in Sigs : \A v \in resRefs[s] : v # w /\ v \in Writers
    BY <1>1 DEF RecordInv, RefsMoveWithRecords, TypeOK
  <1>11. \A s \in Sigs : \A v \in resRefs'[s] :
            v \in resRefs[s] \/ (v = w /\ job[w].kind = "resolve" /\ s = job[w].ref)
    BY <1>9
  <1>12. ResolversOnly'
    BY <1>1, <1>11 DEF RecordInv, ResolversOnly
  <1>13. RefsMoveWithRecords'
    <2>1. ASSUME NEW s \in Sigs, NEW v \in resRefs'[s]
          PROVE  result'[v] = "published" /\ job'[v].ref = s /\ Own(v) \in notes'[job'[v].at].records
      <3>1. CASE v = w /\ job[w].kind = "resolve" /\ s = job[w].ref
        BY <1>1, <1>2, <1>3, <1>4, <1>8, <3>1
      <3>2. CASE v \in resRefs[s]
        <4>1. v # w /\ v \in Writers
          BY <1>10, <3>2
        <4>2. result[v] = "published" /\ job[v].ref = s /\ job[v].kind = "resolve"
          BY <3>2 DEF RecordInv, RefsMoveWithRecords, ResolversOnly
        <4>3. <<job[v].at, Own(v)>> \in published
          BY <4>1, <4>2 DEF SettledOnce, NewRecord
        <4>4. Own(v) \in notes'[job[v].at].records
          BY <1>1, <1>6, <4>3 DEF NoLostRecord
        <4>5. QED
          BY <1>1, <1>8, <4>1, <4>2, <4>4
      <3>3. QED
        BY <1>11, <3>1, <3>2
    <2>2. ASSUME NEW v \in Writers, job'[v].kind = "resolve", result'[v] = "published"
          PROVE  resRefs'[job'[v].ref] = {v}
      <3>1. CASE v = w
        BY <1>1, <1>9, <2>2, <3>1
      <3>2. CASE v # w
        <4>1. resRefs[job[v].ref] = {v} /\ job[v].kind = "resolve"
          BY <1>1, <1>8, <2>2, <3>2 DEF RecordInv, RefsMoveWithRecords
        <4>2. job[v] \in Job
          BY <4>1 DEF TypeOK, NoJob
        <4>3. job[v].ref \in Sigs
          BY <4>1, <4>2, JobTypes
        <4>4. job[w].kind = "resolve" => job[v].ref # job[w].ref
          BY <1>9, <4>1
        <4>5. QED
          BY <1>1, <1>9, <4>1, <4>3, <4>4
      <3>3. QED
        BY <3>1, <3>2
    <2>3. ASSUME NEW p \in parked' PROVE Replacement(p) \notin notes'[HomeOf[p]].records
      <3>1. p \in parked /\ p \in Parked /\ (job[w].kind = "replace" => p # job[w].ref)
        BY DEF Publish, TypeOK
      <3>2. Replacement(p) \notin notes[HomeOf[p]].records
        BY <3>1 DEF RecordInv, RefsMoveWithRecords
      <3>3. Replacement(p) # r
        BY <1>4, <3>1, NamesApart
      <3>4. HomeOf[p] \in Commits
        BY <3>1
      <3>5. QED
        BY <1>2, <1>3, <3>2, <3>3, <3>4
    <2>4. QED
      BY <2>1, <2>2, <2>3 DEF RefsMoveWithRecords
  <1>14. QED
    BY <1>5, <1>6, <1>7, <1>12, <1>13 DEF RecordInv

LEMMA RetentionRecords ==
    ASSUME TypeOK, SnapshotsTrue, SettledOnce, TextsTrue, RecordInv,
           NEW w \in Writers, PublishRetention(w)
    PROVE  RecordInv'
  <1>1. /\ UNCHANGED <<notes, notesTip, resRefs, parked, published, job>>
        /\ retained \subseteq retained' /\ Accepted(notes, Parked) \subseteq retained'
        /\ job[w].kind = "retain"
        /\ \A v \in Writers : v # w => result'[v] = result[v]
    BY RetentionEffect, AcceptedRecords DEF PublishRetention, Finish, TypeOK, Snap
  <1>2. \A s \in Sigs : \A v \in resRefs[s] : v # w /\ v \in Writers
    BY <1>1 DEF RecordInv, ResolversOnly, TypeOK
  <1>3. RefsMoveWithRecords'
    BY <1>1, <1>2 DEF RecordInv, RefsMoveWithRecords
  <1>4. RetentionCovers'
    BY <1>1 DEF RecordInv, RetentionCovers
  <1>5. QED
    BY <1>1, <1>3, <1>4 DEF RecordInv, NoLostRecord, KindsApart, ResolversOnly

(* A tool outside causet adds records to a note or writes the first text   *)
(* of a commit that has none: nothing that was there goes away.            *)
LEMMA ForeignRecords ==
    ASSUME TypeOK, SnapshotsTrue, RecordInv, NEW c \in Commits, ForeignPublish(c)
    PROVE  RecordInv'
  <1>1. /\ UNCHANGED <<retained, marker, resRefs, parked, published, job, result>>
        /\ marker <= notesTip /\ notesTip' = notesTip + 1
        /\ notesTip \in Nat /\ marker \in Nat
    BY DEF ForeignPublish, procVars, SnapshotsTrue, TypeOK
  <1>2. ASSUME NEW d \in Commits
        PROVE  /\ \A r \in notes[d].records : r \in notes'[d].records
               /\ \A r \in notes'[d].records : r \in notes[d].records \/ r \in {Peer, Legacy}
    BY DEF ForeignPublish, TypeOK, Note, Empty, LegacyText, ForeignJson
  <1>3. \A p \in Parked : HomeOf[p] \in Commits
    OBVIOUS
  <1>4. NoLostRecord'
    <2>1. \A pr \in published : pr[1] \in Commits
      BY DEF TypeOK
    <2>2. \A pr \in published' : pr[2] \in notes'[pr[1]].records
      BY <1>1, <1>2, <2>1 DEF RecordInv, NoLostRecord
    <2>3. ASSUME NEW p \in Parked
          PROVE  /\ Local(p) \in notes'[HomeOf[p]].records <=> Local(p) \in notes[HomeOf[p]].records
                 /\ Replacement(p) \in notes'[HomeOf[p]].records <=> Replacement(p) \in notes[HomeOf[p]].records
      BY <1>2, <1>3, NamesApart
    <2>4. QED
      BY <2>2, <2>3 DEF RecordInv, NoLostRecord
  <1>5. RetentionCovers'
    BY <1>1 DEF RecordInv, RetentionCovers
  <1>6. RefsMoveWithRecords'
    <2>1. \A s \in Sigs : \A w \in resRefs[s] : w \in Writers /\ job[w] # NoJob
      BY DEF RecordInv, ResolversOnly, TypeOK, NoJob
    <2>2. \A s \in Sigs : \A w \in resRefs[s] : job[w].at \in Commits
      BY <2>1, JobTypes DEF TypeOK
    <2>3. \A p \in parked : p \in Parked
      BY DEF TypeOK
    <2>4. \A p \in parked : Replacement(p) \notin notes'[HomeOf[p]].records
      BY <1>2, <1>3, <2>3, NamesApart DEF RecordInv, RefsMoveWithRecords
    <2>5. QED
      BY <1>1, <1>2, <2>2, <2>4 DEF RecordInv, RefsMoveWithRecords
  <1>7. QED
    BY <1>1, <1>4, <1>5, <1>6 DEF RecordInv, KindsApart, ResolversOnly

LEMMA KeepLocalRecords ==
    ASSUME TypeOK, RecordInv, NEW p \in Parked, KeepLocal(p)
    PROVE  RecordInv'
  <1>1. /\ UNCHANGED <<notes, notesTip, retained, marker, resRefs, published, job, result>>
        /\ parked' \subseteq parked
    BY DEF KeepLocal, procVars
  <1>2. QED
    BY <1>1 DEF RecordInv, NoLostRecord, RetentionCovers, RefsMoveWithRecords, KindsApart, ResolversOnly

LEMMA RecordsStep ==
    ASSUME TypeOK, SnapshotsTrue, TextsTrue, SettledOnce, RecordInv, ~ReadsFail, [Next]_vars
    PROVE  RecordInv'
  <1>1. ASSUME NEW w \in Writers, ClaimStep(w) PROVE RecordInv'
    <2>1. UNCHANGED refVars /\ \A v \in Writers : Unsettled(v)
      BY <1>1, ClaimSteps DEF refVars, Unsettled
    <2>2. QED
      BY <2>1, QuietRecords
  <1>2. ASSUME NEW w \in Writers, EndStep(w) PROVE RecordInv'
    <2>1. pc'[w] = "crashed" \/ result[w] = "pending"
      BY <1>2 DEF SettledOnce, EndStep, GiveUp, PublishRefused, Crash, Finish, Goto, TypeOK, Releasing
    <2>2. UNCHANGED refVars /\ \A v \in Writers : Unsettled(v)
      BY <1>2, <2>1, EndSteps DEF refVars, Unsettled
    <2>3. QED
      BY <2>2, QuietRecords
  <1>3. ASSUME NEW w \in Writers, Start(w) PROVE RecordInv'
    <2>1. result[w] = "pending"
      BY <1>3, Starts DEF SettledOnce, Releasing
    <2>2. UNCHANGED refVars /\ \A v \in Writers : Unsettled(v)
      BY <1>3, <2>1, Starts DEF refVars, Unsettled
    <2>3. QED
      BY <2>2, QuietRecords
  <1>4. ASSUME NEW w \in Writers,
               \/ ReadNotesTip(w) \/ ReadRetentionTip(w) \/ ReadText(w)
               \/ ReadSnapshot(w) \/ RecheckTips(w)
        PROVE  RecordInv'
    <2>1. /\ pc[w] \in Critical /\ UNCHANGED <<job, refVars>>
          /\ result'[w] = result[w] \/ result'[w] \in {"refused", "unchanged"}
          /\ \A v \in Writers : v # w => result'[v] = result[v]
      BY <1>4 DEF ReadNotesTip, ReadRetentionTip, ReadText, ReadSnapshot, RecheckTips,
                  Finish, TypeOK, Critical
    <2>2. result[w] = "pending"
      BY <2>1 DEF SettledOnce, Critical, Releasing
    <2>3. UNCHANGED refVars /\ \A v \in Writers : Unsettled(v)
      BY <2>1, <2>2 DEF refVars, Unsettled
    <2>4. QED
      BY <2>3, QuietRecords
  <1>5. CASE ClaimAges \/ UNCHANGED vars
    <2>1. UNCHANGED refVars /\ \A v \in Writers : Unsettled(v)
      BY <1>5 DEF ClaimAges, vars, procVars, refVars, Unsettled
    <2>2. QED
      BY <2>1, QuietRecords
  <1>6. QED
    BY <1>1, <1>2, <1>3, <1>4, <1>5, PublishRecords, RetentionRecords, ForeignRecords,
       KeepLocalRecords, StepCases

-----------------------------------------------------------------------------
(* The theorems.                                                           *)

(* The inductive invariant.  What it says of the records is claimed only   *)
(* where reading a note does not fail unnoticed: without that it is false  *)
(* (the run notes_read_failure).                                           *)
IInv ==
    /\ TypeOK /\ SnapshotsTrue /\ TextsTrue /\ DisputesSeen /\ SettledOnce /\ OwnersKnown
    /\ ~ReadsFail => RecordInv

LEMMA IInvHolds == Spec => []IInv
  <1>1. Init => IInv
    BY InitTypes, SnapshotsInit, TextsInit, DisputesInit, SettledInit, OwnersInit, RecordsInit DEF IInv
  <1>2. IInv /\ [Next]_vars => IInv'
    <2> SUFFICES ASSUME IInv, [Next]_vars PROVE IInv'
      OBVIOUS
    <2>1. TypeOK' /\ SnapshotsTrue' /\ TextsTrue' /\ DisputesSeen' /\ SettledOnce' /\ OwnersKnown'
      BY StepTypes, SnapshotsStep, TextsStep, DisputesStep, SettledStep, OwnersStep DEF IInv
    <2>2. ~ReadsFail => RecordInv'
      BY RecordsStep DEF IInv
    <2>3. QED
      BY <2>1, <2>2 DEF IInv
  <1>3. QED
    BY <1>1, <1>2, PTL DEF Spec

(* A published record stays, and a disputed one has exactly one copy in    *)
(* place, whoever steals the lock, stops, or moves the ref.                *)
THEOREM RecordsKept == Spec => [](~ReadsFail => NoLostRecord)
  <1>1. IInv => (~ReadsFail => NoLostRecord)
    BY DEF IInv, RecordInv
  <1>2. QED
    BY <1>1, IInvHolds, PTL

(* What was published is retained, and the marker of `metadata retain`     *)
(* tells the truth of every record nobody disputed.                        *)
THEOREM RetentionKept == Spec => [](~ReadsFail => RetentionCovers)
  <1>1. IInv => (~ReadsFail => RetentionCovers)
    BY DEF IInv, RecordInv
  <1>2. QED
    BY <1>1, IInvHolds, PTL

(* Resolution refs and quarantine refs move with their records.            *)
THEOREM RefsInStep == Spec => [](~ReadsFail => RefsMoveWithRecords)
  <1>1. IInv => (~ReadsFail => RefsMoveWithRecords)
    BY DEF IInv, RecordInv
  <1>2. QED
    BY <1>1, IInvHolds, PTL

(* Until a claim is renamed away, the claim file excludes a second holder. *)
THEOREM LockExcludes == Spec => []ExclusiveUntilAbandoned
  <1>1. IInv => ExclusiveUntilAbandoned
    <2> SUFFICES ASSUME OwnersKnown PROVE ExclusiveUntilAbandoned
      BY DEF IInv
    <2>1. ASSUME ~abandoned, NEW v \in Writers, NEW w \in Writers, Holds(v), Holds(w) PROVE v = w
      <3>1. lock.by = {v} /\ lock.by = {w}
        BY <2>1 DEF OwnersKnown
      <3>2. QED
        BY <3>1
    <2>2. QED
      BY <2>1 DEF ExclusiveUntilAbandoned, MutualExclusion
  <1>2. QED
    BY <1>1, IInvHolds, PTL

(* The protocol implements the abstract store: whatever the lock does, the *)
(* refs change by whole publications only.                                 *)
THEOREM StoreImplemented ==
    ASSUME ~ReadsFail
    PROVE  Spec => ImplementsStore
  <1>1. Init => Store!Init
    BY StoreOperators DEF Init, Store!Init
  <1>2. IInv /\ [Next]_vars => [Store!Next]_Store!storeVars
    BY StoreStep DEF IInv
  <1>3. QED
    BY <1>1, <1>2, IInvHolds, PTL DEF Spec, ImplementsStore, Store!Spec
=============================================================================
