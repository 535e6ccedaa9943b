------------------------------ MODULE NotesLock ------------------------------
(***************************************************************************)
(* How the causal notes are written: the notes.lock claim file, the        *)
(* read-modify-write of one container, and the checked ref transaction     *)
(* that publishes it, by processes that may stop anywhere.                 *)
(*                                                                         *)
(* src/src/notes.js (withNotesLock, acquireNotesLock, inspectNotesLock,    *)
(* abandonNotesLock, releaseNotesLock, rewriteNote), src/src/retention.js, *)
(* src/src/git-carriers.js, src/src/dispositions.js, publishResolution of  *)
(* src/src/resolutions.js, and their port src/native/cli/src/notes_write.rs*)
(*                                                                         *)
(* One writer is one process that publishes at most once.  Every step is   *)
(* one system call or one Git command, so the steps of several writers     *)
(* interleave between any two of them.                                     *)
(***************************************************************************)
EXTENDS NoteContainers

CONSTANTS
    HostOf,      \* the host each writer runs on
    JobsOf,      \* the publications each writer may be asked for
    ClaimsAge,   \* may a claim reach NOTES_LOCK_STALE_MS (60 s)?
    FsFails,     \* may renaming or removing the claim file fail (EPERM, EBUSY)?
    ReadsFail,   \* may the git process that reads a note fail?
    MaxForeign,  \* bound: publications by tools that are not causet
    MaxCrashes   \* bound: writers that are killed

NoRef == "none"

(* What a writer is asked for: the record goes to commit `at`; `ref` is    *)
(* the resolution ref to create or the quarantine ref to delete with it.   *)
Job == [kind : {"append", "retain"}, at : Commits, ref : {NoRef}]
         \cup [kind : {"resolve"}, at : Commits, ref : Sigs]
         \cup {[kind |-> "replace", at |-> HomeOf[p], ref |-> p] : p \in Parked}
NoJob == [kind |-> "none"]

ASSUME JobsAssumption == JobsOf \in [Writers -> SUBSET Job]
ASSUME FlagsAssumption == {ClaimsAge, FsFails, ReadsFail} \subseteq BOOLEAN
ASSUME BoundsAssumption == MaxForeign \in Nat /\ MaxCrashes \in Nat

VARIABLES
    lock,      \* notes.lock: NoLock, or the claim in the file
    abandoned, \* has any claim been renamed away yet? (history)
    pc,        \* where each writer is
    job,       \* what it publishes
    result,    \* how its publication ended
    snap,      \* what it read under the lock
    notes, notesTip,    \* the notes ref: its tree, and the generation of its tip
    retained, retTip,   \* the retention ref: its closure, and its generation
    marker,    \* the notes generation named by the retention tip's message
    resRefs,   \* resolution refs
    parked,    \* quarantine refs
    published, \* <<commit, record>> pairs whose publication succeeded (history)
    foreign, crashes    \* how often each bound was used

lockVars == <<lock, abandoned>>
procVars == <<pc, job, result, snap>>
refVars == <<notes, notesTip, retained, retTip, marker, resRefs, parked, published>>
boundVars == <<foreign, crashes>>
vars == <<lockVars, procVars, refVars, boundVars>>

NoLock == [by |-> {}, written |-> FALSE, old |-> FALSE]
Snap == [tip : Nat, tree : [Commits -> Container], ret : Nat, base : SUBSET Record,
         text : Container, disputed : SUBSET Parked]
NoSnap == [tip |-> 0, tree |-> [c \in Commits |-> Empty], ret |-> 0, base |-> {},
           text |-> Empty, disputed |-> {}]

(* Program counters: claiming the lock, the critical section, releasing.   *)
Claiming == {"claim", "inspect", "abandon", "wait"}
Critical == {"tip", "ret", "text", "recheck", "publish"}
Releasing == {"check", "remove"}
PC == {"idle"} \cup Claiming \cup {"write"} \cup Critical \cup Releasing \cup {"end", "crashed"}

(* The process exists: not yet started and finished ones do not.           *)
Running(w) == pc[w] \notin {"idle", "end", "crashed"}

(* A writer that believes it holds the lock.                               *)
Holds(w) == pc[w] \in Critical \cup Releasing

TypeOK ==
    /\ lock \in [by : SUBSET Writers, written : BOOLEAN, old : BOOLEAN]
    /\ abandoned \in BOOLEAN
    /\ pc \in [Writers -> PC]
    /\ job \in [Writers -> Job \cup {NoJob}]
    /\ \A w \in Writers : pc[w] # "idle" => job[w] \in Job
    /\ result \in [Writers -> {"pending", "published", "unchanged", "refused"}]
    /\ snap \in [Writers -> Snap]
    /\ notes \in [Commits -> Container] /\ notesTip \in Nat
    /\ retained \in SUBSET Record /\ retTip \in Nat /\ marker \in Nat
    /\ resRefs \in [Sigs -> SUBSET Writers] /\ parked \in SUBSET Parked
    /\ published \in SUBSET (Commits \X Record)
    /\ foreign \in Nat /\ crashes \in Nat

Init ==
    /\ lock = NoLock /\ abandoned = FALSE
    /\ pc = [w \in Writers |-> "idle"]
    /\ job = [w \in Writers |-> NoJob]
    /\ result = [w \in Writers |-> "pending"]
    /\ snap = [w \in Writers |-> NoSnap]
    /\ notes = [c \in Commits |-> Note({Local(p) : p \in {q \in Parked : HomeOf[q] = c}})]
    /\ notesTip = 1
    /\ retained = {} /\ retTip = 1 /\ marker = 0
    /\ resRefs = [s \in Sigs |-> {}]
    /\ parked = Parked
    /\ published = {}
    /\ foreign = 0 /\ crashes = 0

Goto(w, label) == pc' = [pc EXCEPT ![w] = label]

(* A publication ends: what was read under the lock is forgotten.          *)
Finish(w, label, r) ==
    /\ Goto(w, label)
    /\ result' = [result EXCEPT ![w] = r]
    /\ snap' = [snap EXCEPT ![w] = NoSnap]

-----------------------------------------------------------------------------
(* Before the lock.  publishResolution returns the record a ref already    *)
(* has; dispose needs the parked record still to be there.                 *)

ResolutionExists(s) ==
    \E w \in resRefs[s], c \in Commits : Own(w) \in RecordsOf(notes[c])

Start(w) ==
    /\ pc[w] = "idle"
    /\ \E j \in JobsOf[w] :
         /\ j.kind = "replace" => j.ref \in parked
         /\ job' = [job EXCEPT ![w] = j]
         /\ IF j.kind = "resolve" /\ ResolutionExists(j.ref)
            THEN Finish(w, "end", "unchanged")
            ELSE Goto(w, "claim") /\ UNCHANGED <<result, snap>>
    /\ UNCHANGED <<lockVars, refVars, boundVars>>

-----------------------------------------------------------------------------
(* Acquiring.  Creating the claim file exclusively and writing the claim   *)
(* into it are two steps, so a reader can find it empty.                   *)

(* Mutant: the file is opened with "w" instead of "wx".                    *)
CreateClaim_Overwrite(w) ==
    /\ pc[w] = "claim"
    /\ lock' = [by |-> {w}, written |-> FALSE, old |-> FALSE] /\ Goto(w, "write")
    /\ UNCHANGED <<abandoned, job, result, snap, refVars, boundVars>>

CreateClaim(w) ==
    /\ pc[w] = "claim"
    /\ IF lock = NoLock
       THEN lock' = [by |-> {w}, written |-> FALSE, old |-> FALSE] /\ Goto(w, "write")
       ELSE Goto(w, "inspect") /\ UNCHANGED lock
    /\ UNCHANGED <<abandoned, job, result, snap, refVars, boundVars>>

(* The write goes to the file this writer opened; if that file was renamed *)
(* away meanwhile, the path is not touched.                                *)
WriteClaim(w) ==
    /\ pc[w] = "write"
    /\ lock' = IF lock.by = {w} THEN [lock EXCEPT !.written = TRUE] ELSE lock
    /\ Goto(w, "tip")
    /\ UNCHANGED <<abandoned, job, result, snap, refVars, boundVars>>

(* Mutant: every claim is judged by its age alone.                         *)
Stale_AgeOnly(w) == lock.old

(* inspectNotesLock: a readable claim of this host is judged by whether    *)
(* its process runs (a claim of the inspecting process itself is a         *)
(* leftover); any other by its age.                                        *)
Stale(w) ==
    IF lock.written /\ \E h \in lock.by : HostOf[h] = HostOf[w]
    THEN \A h \in lock.by : h = w \/ ~Running(h)
    ELSE lock.old

InspectLock(w) ==
    /\ pc[w] = "inspect"
    /\ Goto(w, IF lock # NoLock /\ Stale(w) THEN "abandon" ELSE "wait")
    /\ UNCHANGED <<lockVars, job, result, snap, refVars, boundVars>>

(* abandonNotesLock: the rename takes whatever claim is at the path by     *)
(* now, or finds none, or fails in a way the code takes to be passing.     *)
Renamed(w) ==
    /\ pc[w] = "abandon"
    /\ lock' = NoLock
    /\ abandoned' = (abandoned \/ lock # NoLock)
    /\ Goto(w, "claim")
    /\ UNCHANGED <<job, result, snap, refVars, boundVars>>

RenameRefused(w) ==
    /\ pc[w] = "abandon" /\ FsFails /\ lock # NoLock
    /\ Goto(w, "claim")
    /\ UNCHANGED <<lockVars, job, result, snap, refVars, boundVars>>

PollAgain(w) ==
    /\ pc[w] = "wait"
    /\ Goto(w, "claim")
    /\ UNCHANGED <<lockVars, job, result, snap, refVars, boundVars>>

(* NOTES_LOCK_WAIT_MS is over: refuse with notes-locked.                   *)
GiveUp(w) ==
    /\ pc[w] = "wait"
    /\ Finish(w, "end", "refused")
    /\ UNCHANGED <<lockVars, job, refVars, boundVars>>

-----------------------------------------------------------------------------
(* The critical section: rewriteNote and retainSnapshot.                   *)

ReadNotesTip(w) ==
    /\ pc[w] = "tip"
    /\ snap' = [snap EXCEPT ![w] = [NoSnap EXCEPT !.tip = notesTip, !.tree = notes]]
    /\ Goto(w, "ret")
    /\ UNCHANGED <<lockVars, job, result, refVars, boundVars>>

ReadRetentionTip(w) ==
    /\ pc[w] = "ret"
    /\ snap' = [snap EXCEPT ![w].ret = retTip, ![w].base = retained]
    /\ Goto(w, "text")
    /\ UNCHANGED <<lockVars, job, result, refVars, boundVars>>

(* readNoteText takes any failure of `git notes show` for "no note".       *)
TextsRead(c) == {notes[c]} \cup (IF ReadsFail THEN {Empty} ELSE {})

(* Mutant: the note becomes a bare record, not a container.                *)
Rewritten_Bare(w, text) == [form |-> "record", records |-> {Own(w)}]

(* The container the writer would publish.                                 *)
Rewritten(w, text) ==
    IF job[w].kind = "replace" THEN WithReplacement(text, job[w].ref)
    ELSE WithRecord(text, Own(w))

(* Mutant: a container causet cannot read is rewritten all the same.       *)
Accepts_Unread(w, text) ==
    /\ job[w].kind = "replace" => Local(job[w].ref) \in text.records
    /\ Fits(Rewritten(w, text))

Accepts(w, text) ==
    /\ Readable(text)
    /\ job[w].kind = "replace" => Local(job[w].ref) \in text.records
    /\ Fits(Rewritten(w, text))

ReadText(w) ==
    /\ pc[w] = "text" /\ job[w].kind # "retain"
    /\ \E text \in TextsRead(job[w].at) :
         IF Accepts(w, text)
         THEN /\ snap' = [snap EXCEPT ![w].text = text]
              /\ Goto(w, "publish") /\ UNCHANGED result
         ELSE Finish(w, "check", "refused")
    /\ UNCHANGED <<lockVars, job, refVars, boundVars>>

(* retainSnapshot reads the whole notes tree, and the quarantine refs,     *)
(* after the two tips ...                                                  *)
ReadSnapshot(w) ==
    /\ pc[w] = "text" /\ job[w].kind = "retain"
    /\ snap' = [snap EXCEPT ![w].tree = notes, ![w].disputed = parked]
    /\ Goto(w, "recheck")
    /\ UNCHANGED <<lockVars, job, result, refVars, boundVars>>

Eligible(w) == Accepted(snap[w].tree, snap[w].disputed)

(* ... and reads the tips again to know the tree belongs to them.          *)
RecheckTips(w) ==
    /\ pc[w] = "recheck"
    /\ IF snap[w].tip # notesTip \/ snap[w].ret # retTip THEN Finish(w, "check", "refused")
       ELSE IF Eligible(w) = {} \/ marker = snap[w].tip
       THEN Finish(w, "check", "unchanged")
       ELSE Goto(w, "publish") /\ UNCHANGED <<result, snap>>
    /\ UNCHANGED <<lockVars, job, refVars, boundVars>>

-----------------------------------------------------------------------------
(* Publication: one `git update-ref --stdin` transaction.  Both previous   *)
(* tips are checked, and the job's own ref is created or deleted with it.  *)

(* Mutants: the transaction does not check the previous tips, or does not  *)
(* check the ref it creates or deletes; the carrier forgets its parent.    *)
TipsUnmoved_Unchecked(w) == TRUE
RefFree_Unchecked(w) == TRUE
Carrier_NoParent(w, R) == R

TipsUnmoved(w) == snap[w].tip = notesTip /\ snap[w].ret = retTip

RefFree(w) ==
    /\ job[w].kind = "resolve" => resRefs[job[w].ref] = {}
    /\ job[w].kind = "replace" => job[w].ref \in parked

(* The retention carrier has the previous tip as a parent.                 *)
Carrier(w, R) == snap[w].base \cup R

NewRecord(w) == IF job[w].kind = "replace" THEN Replacement(job[w].ref) ELSE Own(w)

Publish(w) ==
    /\ pc[w] = "publish" /\ job[w].kind # "retain"
    /\ TipsUnmoved(w) /\ RefFree(w)
    /\ notes' = [snap[w].tree EXCEPT ![job[w].at] = Rewritten(w, snap[w].text)]
    /\ notesTip' = notesTip + 1
    /\ retained' = Carrier(w, {NewRecord(w)})
    /\ retTip' = retTip + 1 /\ marker' = 0
    /\ resRefs' = IF job[w].kind = "resolve"
                  THEN [resRefs EXCEPT ![job[w].ref] = {w}] ELSE resRefs
    /\ parked' = IF job[w].kind = "replace" THEN parked \ {job[w].ref} ELSE parked
    /\ published' = published \cup {<<job[w].at, NewRecord(w)>>}
    /\ Finish(w, "check", "published")
    /\ UNCHANGED <<lockVars, job, boundVars>>

(* retain --apply: the notes tip is only verified.                         *)
PublishRetention(w) ==
    /\ pc[w] = "publish" /\ job[w].kind = "retain"
    /\ TipsUnmoved(w)
    /\ retained' = Carrier(w, Eligible(w))
    /\ retTip' = retTip + 1 /\ marker' = snap[w].tip
    /\ Finish(w, "check", "published")
    /\ UNCHANGED <<lockVars, job, notes, notesTip, resRefs, parked, published, boundVars>>

(* A checked value moved: Git refuses the whole transaction.               *)
PublishRefused(w) ==
    /\ pc[w] = "publish" /\ ~(TipsUnmoved(w) /\ RefFree(w))
    /\ Finish(w, "check", "refused")
    /\ UNCHANGED <<lockVars, job, refVars, boundVars>>

-----------------------------------------------------------------------------
(* Releasing, in a finally block: read the claim, and remove the file only *)
(* when it names this process.  A removal that fails leaves it behind.     *)

CheckHolder(w) ==
    /\ pc[w] = "check"
    /\ Goto(w, IF lock.by = {w} /\ lock.written THEN "remove" ELSE "end")
    /\ UNCHANGED <<lockVars, job, result, snap, refVars, boundVars>>

RemoveClaim(w) ==
    /\ pc[w] = "remove"
    /\ lock' \in {NoLock} \cup (IF FsFails THEN {lock} ELSE {})
    /\ Goto(w, "end")
    /\ UNCHANGED <<abandoned, job, result, snap, refVars, boundVars>>

-----------------------------------------------------------------------------
(* What happens around the writers.                                        *)

(* A kill: no finally block runs and the claim stays.                      *)
Crash(w) ==
    /\ Running(w) /\ crashes < MaxCrashes
    /\ crashes' = crashes + 1
    /\ Finish(w, "crashed", result[w])
    /\ UNCHANGED <<lockVars, job, refVars, foreign>>

ClaimAges ==
    /\ ClaimsAge /\ lock # NoLock /\ ~lock.old
    /\ lock' = [lock EXCEPT !.old = TRUE]
    /\ UNCHANGED <<abandoned, procVars, refVars, boundVars>>

(* Git itself, or another tool, moves the notes ref.                       *)
ForeignPublish(c) ==
    /\ foreign < MaxForeign /\ foreign' = foreign + 1
    /\ \/ notes[c].form = "note" /\ notes' = [notes EXCEPT ![c] = Note(@.records \cup {Peer})]
       \/ notes[c] = Empty /\ \E n \in {LegacyText, ForeignJson} : notes' = [notes EXCEPT ![c] = n]
    /\ notesTip' = notesTip + 1
    /\ UNCHANGED <<lockVars, procVars, retained, retTip, marker, resRefs, parked, published, crashes>>

(* dispose --keep-local deletes the quarantine ref, without the lock.      *)
KeepLocal(p) ==
    /\ p \in parked
    /\ parked' = parked \ {p}
    /\ UNCHANGED <<lockVars, procVars, notes, notesTip, retained, retTip, marker, resRefs, published, boundVars>>

WriterStep(w) ==
    \/ CreateClaim(w) \/ WriteClaim(w) \/ InspectLock(w) \/ Renamed(w) \/ RenameRefused(w)
    \/ PollAgain(w) \/ GiveUp(w)
    \/ ReadNotesTip(w) \/ ReadRetentionTip(w) \/ ReadText(w) \/ ReadSnapshot(w) \/ RecheckTips(w)
    \/ Publish(w) \/ PublishRetention(w) \/ PublishRefused(w)
    \/ CheckHolder(w) \/ RemoveClaim(w)

Next ==
    \/ \E w \in Writers : Start(w) \/ WriterStep(w) \/ Crash(w)
    \/ ClaimAges
    \/ \E c \in Commits : ForeignPublish(c)
    \/ \E p \in Parked : KeepLocal(p)

Spec == Init /\ [][Next]_vars

(* A started command keeps running, and its five seconds pass.             *)
WaitSpec == Spec /\ \A w \in Writers : WF_vars(WriterStep(w)) /\ SF_vars(GiveUp(w))

(* Besides, a rename that fails for a passing reason does not fail forever.*)
FairSpec == WaitSpec /\ \A w \in Writers : SF_vars(Renamed(w))

-----------------------------------------------------------------------------
(* A record whose publication succeeded is never lost again, whoever else  *)
(* publishes, crashes or takes the lock away; and a disputed record always *)
(* has exactly one of its two copies in place (rewriteNote).               *)
NoLostRecord ==
    /\ \A pr \in published : pr[2] \in notes[pr[1]].records
    /\ \A p \in Parked :
          LET R == notes[HomeOf[p]].records
          IN  (Local(p) \in R) # (Replacement(p) \in R)

(* Whatever was published has its objects retained, and a retention tip    *)
(* that says it covers the current notes covers every record of them that  *)
(* nobody ever disputed (the idempotence of `metadata retain` rests on     *)
(* that marker; see BackfillComplete for the others).                      *)
RetentionCovers ==
    /\ \A pr \in published : pr[2] \in retained
    /\ marker = notesTip => Accepted(notes, Parked) \subseteq retained

(* A resolution ref and its record exist together, and a quarantine ref    *)
(* is gone whenever its replacement is in service: "the record and the     *)
(* dispute move together or not at all" (dispositions.js).                 *)
RefsMoveWithRecords ==
    /\ \A s \in Sigs : \A w \in resRefs[s] :
          result[w] = "published" /\ job[w].ref = s /\ Own(w) \in notes[job[w].at].records
    /\ \A w \in Writers : job[w].kind = "resolve" /\ result[w] = "published"
                            => resRefs[job[w].ref] = {w}
    /\ \A p \in parked : Replacement(p) \notin notes[HomeOf[p]].records

(* As long as no claim has been abandoned, two writers are never both      *)
(* between the read of the notes and the release of the lock.              *)
MutualExclusion == \A v, w \in Writers : Holds(v) /\ Holds(w) => v = w
ExclusiveUntilAbandoned == ~abandoned => MutualExclusion

(* The protocol implements the abstract store: each transaction is one     *)
(* indivisible publication, everything else is invisible.                  *)
Store == INSTANCE NotesStore
            WITH notes <- notes, retained <- retained, resRefs <- resRefs, parked <- parked
ImplementsStore == Store!Spec

(* A claim left by a process of this host that no longer runs does not     *)
(* stand in the way of a writer that is trying to get the lock.            *)
DeadClaimCleared ==
    \A d, w \in Writers :
        (/\ lock.by = {d} /\ lock.written /\ ~Running(d)
         /\ HostOf[d] = HostOf[w] /\ pc[w] = "claim")
            ~> (lock.by # {d} \/ pc[w] = "crashed")

-----------------------------------------------------------------------------
(* What the source says and the code does not do.                          *)

(* "`metadata retain --dry-run|--apply` backfills accepted historical      *)
(* facts": when it finds nothing left to do, and no dispute was settled    *)
(* while it looked, every accepted fact is retained.                       *)
BackfillComplete ==
    [][\A w \in Writers :
          pc[w] = "recheck" /\ result'[w] = "unchanged" /\ snap[w].disputed = parked
             => Accepted(notes, parked) \subseteq retained]_vars

(* "Otherwise the waiter waits NOTES_LOCK_WAIT_MS and then refuses": every *)
(* command that asks for the lock comes to an end.                         *)
EveryWriterSettles ==
    \A w \in Writers : pc[w] = "claim" ~> pc[w] \in {"end", "crashed"}

=============================================================================
