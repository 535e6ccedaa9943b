------------------------------ MODULE Reconcile ------------------------------
(***************************************************************************)
(* `cst reconcile`: applying the changes of a source branch to the branch  *)
(* of this worktree one cherry-pick at a time, with a private journal that *)
(* lets a later process continue or abort, and publishing records of it    *)
(* only when the whole queue has been applied.                             *)
(*                                                                         *)
(* src/src/operations.js (reconcileInSession, runReconciliationQueue,      *)
(* applyForecastResolutions, recordSuccessfulApplication,                  *)
(* finalizeReconciliation, continueReconciliationInSession,                *)
(* abortReconciliation), src/src/reconcile-state.js,                       *)
(* src/src/target-overlay.js, and what src/src/merge-plan.js calls covered.*)
(*                                                                         *)
(* One command runs at a time; it may be killed between any two steps, a   *)
(* step being one Git mutation or one write of the journal.  Between       *)
(* commands a person works in the worktree with Git itself.                *)
(***************************************************************************)
EXTENDS Integers, Sequences, FiniteSets

CONSTANTS
    Source,      \* the changes of the source branch, in order
    Tagged,      \* those whose commits carry a Change-Id trailer
    Overlays,    \* the kinds of captured draft (target overlay) there may be
    Forecasts,   \* does a reconciliation name an approved forecast?
    ByHand,      \* does the person rewind or redo picks while one is pending?
    MaxOps,      \* bound: reconciliations started
    MaxEvents    \* bound: commands that are killed or fail, and things the
                 \* person does with Git between commands

Change == {Source[i] : i \in 1..Len(Source)}
None == "none"

(* A commit of a branch is its history since the branches diverged: what   *)
(* was picked, by which operation (0: by hand), and whether as a fork with *)
(* an identity of its own.                                                 *)
Pick == [change : Change \cup {None}, by : Nat, fork : BOOLEAN]
Commit == Seq(Pick)
Ancestor(c, d) == Len(c) <= Len(d) /\ c = SubSeq(d, 1, Len(c))

(* Every entry of the source is a commit of its own.                       *)
ASSUME SourceAssumption ==
    /\ Source \in Seq(STRING) /\ None \notin Change /\ Tagged \subseteq Change
    /\ \A i, j \in 1..Len(Source) : Source[i] = Source[j] => i = j

(* A captured draft: one that adds and changes files, or one that deletes  *)
(* tracked files as well.                                                  *)
Draft == {"draft", "pruned"}

ASSUME OverlaysAssumption == Overlays \subseteq Draft
ASSUME FlagsAssumption == Forecasts \subseteq BOOLEAN /\ ByHand \in BOOLEAN
ASSUME BoundsAssumption == {MaxOps, MaxEvents} \subseteq Nat

Branch == {"target", "other"}

(* The worktree: as committed; with a conflict, or its staged resolution;  *)
(* with the captured draft, the draft merged onto the result, or part of   *)
(* one of them; with edits of the person's own.                            *)
Worktree == {"clean", "conflict", "staged", "merged", "torn", "edited"} \cup Draft

VARIABLES
    branch, tip,   \* HEAD's branch, and the commit each branch is at
    cp,            \* CHERRY_PICK_HEAD
    wt,            \* the worktree
    journal,       \* reconciliation.json
    pc, op, nextNote,  \* the running command: where it is, the operation in
                       \* its memory, the application it publishes next
    notes,         \* the records published, in order
    undoing,       \* has an abort of the journaled operation begun? (history)
    redone,        \* has the person rewound or redone a pick? (history)
    ops, events    \* how often each bound was used

gitVars == <<branch, tip, cp, wt>>
procVars == <<pc, op, nextNote>>
histVars == <<undoing, redone>>
boundVars == <<ops, events>>
vars == <<gitVars, journal, procVars, notes, histVars, boundVars>>

Current == [change : Change \cup {None}, before : Commit, conflicted : BOOLEAN, fork : BOOLEAN]
NoCurrent == [change |-> None, before |-> <<>>, conflicted |-> FALSE, fork |-> FALSE]

Application == [change : Change, commit : Commit, before : Commit, conflicted : BOOLEAN, fork : BOOLEAN]

(* The journal's fields, less the labels and measures that nothing reads.  *)
Operation == [id : Nat, branch : Branch, before : Commit, queue : Seq(Change), next : Nat \ {0},
              applied : Seq(Application), current : Current,
              overlay : Draft \cup {None}, remat : BOOLEAN, forecast : BOOLEAN]
NoOperation == [id |-> 0, branch |-> "target", before |-> <<>>, queue |-> <<>>, next |-> 1,
                applied |-> <<>>, current |-> NoCurrent,
                overlay |-> None, remat |-> FALSE, forecast |-> FALSE]
Pending == journal # NoOperation

Note == [type : {"resolution"}, change : Change]
          \cup [type : {"application"}, op : Nat, app : Application]
          \cup [type : {"reconciliation"}, op : Nat, result : Commit,
                absorbed : SUBSET Change, applied : Seq(Application)]

PC == {"idle", "reduce", "reset", "queue", "pick", "paused", "batch", "advance", "verify",
       "materialize", "remat", "publish", "clear", "continue", "undo", "restore", "forget"}

TypeOK ==
    /\ branch \in Branch /\ tip \in [Branch -> Commit]
    /\ cp \in Change \cup {None} /\ wt \in Worktree
    /\ journal \in Operation /\ journal.next <= Len(journal.queue) + 1
    /\ op \in Operation /\ pc \in PC /\ nextNote \in Nat
    /\ notes \in Seq(Note) /\ {undoing, redone} \subseteq BOOLEAN
    /\ {ops, events} \subseteq Nat

Init ==
    /\ branch = "target" /\ tip = [b \in Branch |-> <<>>]
    /\ cp = None /\ wt = "clean"
    /\ journal = NoOperation
    /\ pc = "idle" /\ op = NoOperation /\ nextNote = 0
    /\ notes = <<>> /\ undoing = FALSE /\ redone = FALSE
    /\ ops = 0 /\ events = 0

-----------------------------------------------------------------------------
(* The plan: a change is covered by a commit of the target that has its    *)
(* Change-Id, or by a reconciliation receipt attached to a commit of the   *)
(* target that absorbed it.                                                *)

Published == {notes[i] : i \in 1..Len(notes)}
Receipts == {n \in Published : n.type = "reconciliation"}

Holds(c, x) == \E i \in 1..Len(c) : c[i].change = x /\ ~c[i].fork

Covered(c, x) ==
    \/ x \in Tagged /\ Holds(c, x)
    \/ \E r \in Receipts : Ancestor(r.result, c) /\ x \in r.absorbed

(* What is left to apply: the source's changes without the covered ones.   *)
Queue(c) ==
    LET left[i \in 0..Len(Source)] ==
          IF i = 0 THEN <<>>
          ELSE IF Covered(c, Source[i]) THEN left[i - 1]
          ELSE Append(left[i - 1], Source[i])
    IN left[Len(Source)]

(* Mutant: forks count as coverage of the change they were forked from.    *)
Absorbed_WithForks(o) == Change

(* finalizeReconciliation: explicit forks are no coverage of their source. *)
Absorbed(o) == {x \in Change : ~\E i \in 1..Len(o.applied) : o.applied[i].change = x /\ o.applied[i].fork}

-----------------------------------------------------------------------------
(* Steps of the running command.                                           *)

Write(o) == op' = o /\ journal' = o
Go(label) == pc' = label
Stop == Go("idle") /\ op' = NoOperation /\ nextNote' = 0
AddPick(x, by, fork) ==
    tip' = [tip EXCEPT ![branch] = Append(@, [change |-> x, by |-> by, fork |-> fork])]

(* reconcileInSession.  Without an overlay the worktree must be clean; with*)
(* one it must be the captured draft exactly.                              *)
Begin(overlay, forecast) ==
    /\ pc = "idle" /\ ~Pending /\ branch = "target" /\ ops < MaxOps
    /\ overlay # None => forecast
    /\ wt = IF overlay = None THEN "clean" ELSE overlay
    /\ ops' = ops + 1
    /\ Write([NoOperation EXCEPT
                !.id = ops + 1, !.branch = branch, !.before = tip[branch],
                !.queue = Queue(tip[branch]), !.overlay = overlay, !.forecast = forecast])
    /\ undoing' = FALSE /\ UNCHANGED redone
    /\ Go(IF overlay = None THEN "queue" ELSE "reduce")
    /\ UNCHANGED <<gitVars, nextNote, notes, events>>

(* reduceToCommittedHead: first the draft's untracked files, then a reset. *)
RemoveDraftFiles ==
    /\ pc = "reduce" /\ wt' = "torn" /\ Go("reset")
    /\ UNCHANGED <<branch, tip, cp, journal, op, nextNote, notes, histVars, boundVars>>

ResetToHead ==
    /\ pc = "reset" /\ wt' = "clean" /\ Go("queue")
    /\ UNCHANGED <<branch, tip, cp, journal, op, nextNote, notes, histVars, boundVars>>

(* runReconciliationQueue: the change is journaled before it is picked.    *)
NextChange ==
    /\ pc = "queue" /\ op.next <= Len(op.queue)
    /\ Write([op EXCEPT !.current = [NoCurrent EXCEPT !.change = op.queue[op.next],
                                                      !.before = tip[branch]]])
    /\ Go("pick")
    /\ UNCHANGED <<gitVars, nextNote, notes, histVars, boundVars>>

PickApplies ==
    /\ pc = "pick" /\ AddPick(op.current.change, op.id, FALSE) /\ Go("advance")
    /\ UNCHANGED <<branch, cp, wt, journal, op, nextNote, notes, histVars, boundVars>>

PickConflicts ==
    /\ pc = "pick" /\ cp' = op.current.change /\ wt' = "conflict"
    /\ op' = [op EXCEPT !.current.conflicted = TRUE] /\ Go("paused")
    /\ UNCHANGED <<branch, tip, journal, nextNote, notes, histVars, boundVars>>

(* An empty pick, or one that Git refuses to start.                        *)
PickBlocked ==
    /\ pc = "pick" /\ cp' \in {None, op.current.change} /\ Go("paused")
    /\ UNCHANGED <<branch, tip, wt, journal, op, nextNote, notes, histVars, boundVars>>

(* The conflict is journaled and left to the person, also when a forecast  *)
(* turns out not to match it.                                              *)
Pause ==
    /\ pc = "paused" /\ journal' = op /\ Stop
    /\ UNCHANGED <<gitVars, notes, histVars, boundVars>>

(* applyForecastResolutions stages the approved resolutions, journals them *)
(* and lets Git go on.                                                     *)
ApplyForecast ==
    /\ pc = "paused" /\ op.forecast /\ op.current.conflicted
    /\ wt' = "staged" /\ Write(op) /\ Go("batch")
    /\ UNCHANGED <<branch, tip, cp, nextNote, notes, histVars, boundVars>>

(* `cherry-pick --continue`, for a batch or for a person.                  *)
ContinuePick ==
    /\ pc \in {"batch", "continue"} /\ wt = "staged"
    /\ AddPick(op.current.change, op.id, op.current.fork)
    /\ cp' = None /\ wt' = "clean" /\ Go("advance")
    /\ UNCHANGED <<branch, journal, op, nextNote, notes, histVars, boundVars>>

ContinuePickFails ==
    /\ pc \in {"batch", "continue"} /\ Stop
    /\ UNCHANGED <<gitVars, journal, notes, histVars, boundVars>>

(* Mutant: the queue's index moves on by two.                              *)
Recorded_SkipsOne(o) ==
    [o EXCEPT !.applied = Append(@, [change |-> o.current.change, commit |-> tip[branch],
                                     before |-> o.current.before,
                                     conflicted |-> o.current.conflicted, fork |-> o.current.fork]),
              !.next = @ + 2, !.current = NoCurrent]

Recorded(o) ==
    [o EXCEPT !.applied = Append(@, [change |-> o.current.change, commit |-> tip[branch],
                                     before |-> o.current.before,
                                     conflicted |-> o.current.conflicted, fork |-> o.current.fork]),
              !.next = @ + 1, !.current = NoCurrent]

(* Mutant: an application is published as soon as it has been made.        *)
Advance_Publishes ==
    /\ pc = "advance" /\ Write(Recorded(op)) /\ Go("queue")
    /\ notes' = Append(notes, [type |-> "application", op |-> op.id,
                              app |-> Recorded(op).applied[op.next]])
    /\ UNCHANGED <<gitVars, nextNote, histVars, boundVars>>

(* recordSuccessfulApplication: Git is ahead of the journal until now.     *)
Advance ==
    /\ pc = "advance" /\ Write(Recorded(op)) /\ Go("queue")
    /\ UNCHANGED <<gitVars, nextNote, notes, histVars, boundVars>>

-----------------------------------------------------------------------------
(* finalizeReconciliation.                                                 *)

QueueDone ==
    /\ pc = "queue" /\ op.next > Len(op.queue) /\ Go("verify")
    /\ UNCHANGED <<gitVars, journal, op, nextNote, notes, histVars, boundVars>>

(* The result, or the draft merged onto it, is not what was forecast.      *)
Mismatch ==
    /\ pc \in {"verify", "materialize"} /\ op.forecast /\ journal' = op /\ Stop
    /\ UNCHANGED <<gitVars, notes, histVars, boundVars>>

Verified ==
    /\ pc = "verify" /\ nextNote' = 1
    /\ IF op.overlay = None THEN Go("publish") ELSE Go("materialize")
    /\ UNCHANGED <<gitVars, journal, op, notes, histVars, boundVars>>

(* checkout-index writes the files of a tree and deletes none, so what it  *)
(* writes back of a draft lacks the deletions.                             *)
WrittenBack(draft, whole) == IF draft = "pruned" THEN "torn" ELSE whole

(* materializeOverlay writes the merged draft; the journal learns of it    *)
(* afterwards, and a draft with deletions does not match its prediction.   *)
MaterializeOverlay ==
    /\ pc = "materialize" /\ ~op.remat
    /\ wt' = WrittenBack(op.overlay, "merged") /\ Go("remat")
    /\ UNCHANGED <<branch, tip, cp, journal, op, nextNote, notes, histVars, boundVars>>

RecordOverlay ==
    /\ pc = "remat" /\ wt = "merged" /\ Write([op EXCEPT !.remat = TRUE])
    /\ Go("publish")
    /\ UNCHANGED <<gitVars, nextNote, notes, histVars, boundVars>>

OverlayMismatch ==
    /\ pc = "remat" /\ journal' = [op EXCEPT !.remat = TRUE] /\ Stop
    /\ UNCHANGED <<gitVars, notes, histVars, boundVars>>

ResolutionNote(x) == [type |-> "resolution", change |-> x]

(* publishResolution: a signature that has its record keeps it.            *)
PublishResolution ==
    /\ pc = "publish" /\ nextNote <= Len(op.applied)
    /\ LET app == op.applied[nextNote] IN
         /\ app.conflicted /\ ResolutionNote(app.change) \notin Published
         /\ notes' = Append(notes, ResolutionNote(app.change))
    /\ UNCHANGED <<gitVars, journal, procVars, histVars, boundVars>>

PublishApplication ==
    /\ pc = "publish" /\ nextNote <= Len(op.applied)
    /\ LET app == op.applied[nextNote] IN
         /\ app.conflicted => ResolutionNote(app.change) \in Published
         /\ notes' = Append(notes, [type |-> "application", op |-> op.id, app |-> app])
    /\ nextNote' = nextNote + 1
    /\ UNCHANGED <<gitVars, journal, pc, op, histVars, boundVars>>

PublishReceipt ==
    /\ pc = "publish" /\ nextNote > Len(op.applied)
    /\ notes' = Append(notes, [type |-> "reconciliation", op |-> op.id, result |-> tip[branch],
                               absorbed |-> Absorbed(op), applied |-> op.applied])
    /\ Go("clear")
    /\ UNCHANGED <<gitVars, journal, op, nextNote, histVars, boundVars>>

ClearJournal ==
    /\ pc = "clear" /\ journal' = NoOperation /\ Stop
    /\ UNCHANGED <<gitVars, notes, histVars, boundVars>>

-----------------------------------------------------------------------------
(* `--continue` and `--abort`.                                             *)

(* requireReconciliationBranch.                                            *)
OnBranch(o) == branch = o.branch

(* Mutant: Git's pending pick is not compared with the journal's.          *)
Resumable_AnyPick(o) ==
    /\ OnBranch(o) /\ o.current # NoCurrent
    /\ wt # "conflict"

(* continueReconciliationInSession goes on only where Git still holds the  *)
(* pick the journal names, with nothing left unmerged.                     *)
Resumable(o) ==
    /\ OnBranch(o) /\ o.current # NoCurrent
    /\ wt # "conflict" /\ cp = o.current.change

(* Mutant: with no change left to apply, publication is taken up again.    *)
Continue_Republishes(fork) ==
    /\ pc = "idle" /\ Pending /\ OnBranch(journal)
    /\ IF journal.current = NoCurrent
       THEN op' = journal /\ UNCHANGED journal /\ Go("queue")
       ELSE /\ Resumable(journal)
            /\ Write([journal EXCEPT !.current.fork = @ \/ fork])
            /\ Go("continue")
    /\ UNCHANGED <<gitVars, nextNote, notes, histVars, boundVars>>

(* Once a fork has been asked for, a later continue is a fork as well.     *)
Continue(fork) ==
    /\ pc = "idle" /\ Pending /\ Resumable(journal)
    /\ Write([journal EXCEPT !.current.fork = @ \/ fork])
    /\ Go("continue")
    /\ UNCHANGED <<gitVars, nextNote, notes, histVars, boundVars>>

(* Mutant: a pending pick is no reason to go on.                           *)
Disposable_CleanOnly(o) == o.remat \/ wt = "clean"

(* The worktree holds nothing an abort could cost the person: Git's own    *)
(* pick, nothing at all, or the draft this operation put back.             *)
Disposable(o) == cp # None \/ o.remat \/ wt = "clean"

Abort ==
    /\ pc = "idle" /\ Pending /\ OnBranch(journal) /\ Disposable(journal)
    /\ cp' = None /\ wt' = IF cp # None THEN "clean" ELSE wt
    /\ op' = journal /\ undoing' = TRUE /\ Go("undo")
    /\ UNCHANGED <<branch, tip, journal, nextNote, notes, redone, boundVars>>

(* Mutant: the journal, not Git, says whether there is anything to undo.   *)
AbortReset_ByJournal ==
    /\ pc = "undo" /\ Go("restore")
    /\ IF op.applied = <<>> THEN UNCHANGED <<tip, wt>>
       ELSE /\ tip' = [tip EXCEPT ![branch] = op.before]
            /\ wt' \in {"clean"} \cup (IF wt = "clean" THEN {} ELSE {"torn"})
    /\ UNCHANGED <<branch, cp, journal, op, nextNote, notes, histVars, boundVars>>

(* The hard reset leaves the untracked files of a draft where they are.    *)
AbortReset ==
    /\ pc = "undo" /\ Go("restore")
    /\ IF tip[branch] = op.before THEN UNCHANGED <<tip, wt>>
       ELSE /\ tip' = [tip EXCEPT ![branch] = op.before]
            /\ wt' \in {"clean"} \cup (IF wt = "clean" THEN {} ELSE {"torn"})
    /\ UNCHANGED <<branch, cp, journal, op, nextNote, notes, histVars, boundVars>>

(* restoreOverlayAfterAbort.                                               *)
AbortRestore ==
    /\ pc = "restore" /\ Go("forget")
    /\ wt' = IF op.overlay = None THEN wt ELSE WrittenBack(op.overlay, op.overlay)
    /\ UNCHANGED <<branch, tip, cp, journal, op, nextNote, notes, histVars, boundVars>>

AbortClear ==
    /\ pc = "forget" /\ journal' = NoOperation /\ undoing' = FALSE /\ Stop
    /\ UNCHANGED <<gitVars, notes, redone, boundVars>>

(* A kill, or a failure that the command reports: the journal stays.       *)
Crash ==
    /\ pc # "idle" /\ events < MaxEvents
    /\ events' = events + 1 /\ Stop
    /\ UNCHANGED <<gitVars, journal, notes, histVars, ops>>

-----------------------------------------------------------------------------
(* The person, between commands.                                           *)

AtRest == pc = "idle"
Acts == AtRest /\ events < MaxEvents /\ events' = events + 1
                /\ UNCHANGED <<journal, procVars, notes, undoing, ops>>

Resolve ==
    /\ AtRest /\ wt = "conflict" /\ wt' = "staged"
    /\ UNCHANGED <<branch, tip, cp, journal, procVars, notes, histVars, boundVars>>

(* git cherry-pick --continue, or git commit, behind causet's back.        *)
GitContinue ==
    /\ Acts /\ cp # None /\ wt # "conflict"
    /\ AddPick(cp, 0, FALSE) /\ cp' = None /\ wt' = "clean" /\ UNCHANGED <<branch, redone>>

(* git cherry-pick --abort or --skip.                                      *)
GitAbandon ==
    /\ Acts /\ cp # None
    /\ cp' = None /\ wt' = "clean" /\ UNCHANGED <<branch, tip, redone>>

(* git checkout -f, which also drops a pending pick.                       *)
Checkout(b) ==
    /\ Acts /\ b # branch /\ wt \in {"clean", "conflict", "staged"}
    /\ branch' = b /\ cp' = None /\ wt' = "clean" /\ UNCHANGED <<tip, redone>>

CommitOwn ==
    /\ Acts /\ wt = "clean" /\ cp = None
    /\ AddPick(None, 0, FALSE) /\ UNCHANGED <<branch, cp, wt, redone>>

Edit ==
    /\ Acts /\ wt \in {"clean", "merged"} /\ cp = None
    /\ wt' = "edited" /\ UNCHANGED <<branch, tip, cp, redone>>

(* A draft is written and captured with `workspace checkpoint`.            *)
CaptureDraft ==
    /\ Acts /\ wt = "clean" /\ cp = None /\ ~Pending
    /\ wt' \in Overlays /\ UNCHANGED <<branch, tip, cp, redone>>

(* git reset --hard to an earlier commit, and a cherry-pick of one's own.  *)
Rewind ==
    /\ Acts /\ ByHand /\ cp = None /\ tip[branch] # <<>>
    /\ tip' = [tip EXCEPT ![branch] = SubSeq(@, 1, Len(@) - 1)]
    /\ wt' = "clean" /\ redone' = TRUE /\ UNCHANGED <<branch, cp>>

PickAgain ==
    /\ Acts /\ ByHand /\ cp = None /\ wt = "clean" /\ journal.current # NoCurrent
    /\ cp' = journal.current.change /\ wt' = "conflict"
    /\ redone' = TRUE /\ UNCHANGED <<branch, tip>>

(* The person puts the worktree in order, or goes back to the branch,      *)
(* dropping a pick that is pending elsewhere.                              *)
CleanUp ==
    /\ AtRest /\ wt \in {"merged", "torn", "edited"} \cup Draft /\ wt' = "clean"
    /\ UNCHANGED <<branch, tip, cp, journal, procVars, notes, histVars, boundVars>>

GoBack ==
    /\ AtRest /\ Pending /\ branch # journal.branch
    /\ wt \in {"clean", "conflict", "staged"}
    /\ branch' = journal.branch /\ cp' = None /\ wt' = "clean"
    /\ UNCHANGED <<tip, journal, procVars, notes, histVars, boundVars>>

-----------------------------------------------------------------------------

CommandStep ==
    \/ RemoveDraftFiles \/ ResetToHead \/ NextChange
    \/ PickApplies \/ PickConflicts \/ PickBlocked \/ Pause \/ ApplyForecast
    \/ ContinuePick \/ ContinuePickFails \/ Advance
    \/ QueueDone \/ Mismatch \/ Verified \/ MaterializeOverlay \/ RecordOverlay \/ OverlayMismatch
    \/ PublishResolution \/ PublishApplication \/ PublishReceipt \/ ClearJournal
    \/ AbortReset \/ AbortRestore \/ AbortClear

PersonStep ==
    \/ Resolve \/ GitContinue \/ GitAbandon \/ (\E b \in Branch : Checkout(b)) \/ CommitOwn
    \/ Edit \/ CaptureDraft \/ Rewind \/ PickAgain \/ CleanUp \/ GoBack

Next ==
    \/ \E overlay \in Overlays \cup {None}, forecast \in Forecasts : Begin(overlay, forecast)
    \/ \E fork \in BOOLEAN : Continue(fork)
    \/ Abort \/ CommandStep \/ Crash \/ PersonStep

Spec == Init /\ [][Next]_vars

(* A command that was started goes on, and a person who wants to be rid of *)
(* an operation cleans up, goes back to its branch and keeps asking for    *)
(* the abort.                                                              *)
FairSpec == Spec /\ WF_vars(CommandStep) /\ SF_vars(Abort) /\ WF_vars(CleanUp) /\ WF_vars(GoBack)

-----------------------------------------------------------------------------
(* "A journal never claims more progress than Git actually made": where    *)
(* `--continue` would be accepted, the branch is exactly where the journal *)
(* says the pick started and holds every application the journal lists, in *)
(* order - unless the person has rewound or redone a pick.                 *)
JournalHonest ==
    AtRest /\ Pending /\ ~redone /\ Resumable(journal) =>
        /\ tip[branch] = journal.current.before
        /\ Len(journal.applied) = journal.next - 1
        /\ \A i \in 1..Len(journal.applied) : Ancestor(journal.applied[i].commit, tip[branch])

(* "No partial application receipts are shared before whole-operation      *)
(* success": a record of a pending operation means its queue is done, and  *)
(* a receipt comes after the application records it lists, which come      *)
(* after the resolutions they used.                                        *)
PublishedWhole ==
    \A i \in 1..Len(notes) : LET n == notes[i]
                                 Before == {notes[j] : j \in 1..(i - 1)} IN
        /\ n.type = "application" =>
              /\ Pending /\ journal.id = n.op => journal.next > Len(journal.queue)
              /\ n.app.conflicted => ResolutionNote(n.app.change) \in Before
        /\ n.type = "reconciliation" =>
              \A k \in 1..Len(n.applied) :
                 [type |-> "application", op |-> n.op, app |-> n.applied[k]] \in Before

(* "No record is ever duplicated", however publication was interrupted and *)
(* taken up again.                                                         *)
NoRecordTwice == \A i, j \in 1..Len(notes) : notes[i] = notes[j] => i = j

(* "No unsafe coverage survives an abort": whatever a receipt reachable    *)
(* from a branch calls absorbed is in that branch under its own identity,  *)
(* so a plan never leaves out a change the branch does not have - unless   *)
(* the person has rewound or redone a pick.                                *)
Truthful(r, c) == Ancestor(r.result, c) => \A x \in r.absorbed : Holds(c, x)

CoverageTrue == ~redone => \A b \in Branch, r \in Receipts : Truthful(r, tip[b])

(* An abort that completes leaves the branch where the operation found it, *)
(* no pick pending, and the worktree clean or with the captured draft      *)
(* (see DraftReturns for a draft that deletes files); and it costs nobody  *)
(* work: edits a person made with no pick pending are not discarded by a   *)
(* command, as long as the operation has not put a draft back itself.      *)
AbortRestores ==
    [][/\ pc = "forget" /\ journal' = NoOperation =>
            /\ tip[op.branch] = op.before /\ cp = None
            /\ op.overlay = None => wt = "clean"
            /\ op.overlay = "draft" => wt = "draft"
       /\ wt = "edited" /\ ~journal.remat /\ wt' # "edited" => AtRest /\ pc' = "idle"]_vars

(* No interruption strands an operation for good: a person who cleans up   *)
(* and asks for the abort gets out of it.                                  *)
EverySettles == Pending ~> ~Pending

-----------------------------------------------------------------------------
(* What the documentation says and the code does not do.                   *)

(* "An interrupted abort can be completed by running it again": once an    *)
(* abort has begun, the next one is not refused.                           *)
AbortIdempotent ==
    AtRest /\ Pending /\ undoing /\ OnBranch(journal) /\ wt # "edited" => Disposable(journal)

(* "so the worktree returns to the state the user captured": an abort that *)
(* completes puts the whole draft back.                                    *)
DraftReturns ==
    [][pc = "forget" /\ journal' = NoOperation /\ op.overlay # None => wt = op.overlay]_vars

(* "vlab must refuse to certify a commit it never saw resolved, because a  *)
(* receipt is a claim about how the content was reached": a receipt claims *)
(* nothing its branch does not have, whatever was done with Git meanwhile. *)
CoverageAlwaysTrue == \A b \in Branch, r \in Receipts : Truthful(r, tip[b])
=============================================================================
