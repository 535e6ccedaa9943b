# A verification project for causet (`cst`, formerly vcs-lab)

causet keeps a *causal* record of how changes reach a branch: receipts of
reconciliations and rebases, records of single applications, reusable conflict
resolutions, provenance. The records are JSON lines in Git notes, shared with
other clones. Around them it runs supervised operations on a worktree
(reconcile, rebase), each with a private journal so that a later process can
continue or abort. The reference implementation is JavaScript (`src/src`); a
native port in Rust (`src/native`) takes over command by command.

This directory holds TLA+ models of its core, the TLC configurations that check
them, and theorems about them with proofs for TLAPS. `PROJECT.json` is the index:
components, runs, mutants (a plausible bug per property, which must break it),
the source lines of each definition, hazards, findings and theorems.

## The system

| Part | State it keeps | Operations | What is hard |
| --- | --- | --- | --- |
| Causal notes (`notes.js`, `notes_write.rs`) | the notes ref: one container per commit; `notes.lock` | `appendNote`, `replaceNoteRecord` | read-modify-write by several processes; a lock whose holder may be dead; tools that are not causet |
| Carriers, retention (`git-carriers.js`, `retention.js`) | the retention ref; a marker naming the notes tip it covers | advanced with each publication; `metadata retain` | two refs that must move together; a marker that may outlive what it says |
| Dispositions, quarantine | quarantine refs, `dispositions.json` | park, `keep-local`, `replace-local` | a dispute and a record in two places |
| Resolutions (`resolutions.js`) | one ref per conflict signature and result; choices in the pending journal | capture, apply, reject, publish | two publishers of one signature; what is staged is not yet what is journaled |
| Reconcile (`operations.js`, `reconcile-state.js`) | `reconciliation.json`, the branch, the worktree | start, `--continue`, `--abort` | a kill between any Git command and the journal write; a person using Git in between |
| Target overlay (`target-overlay.js`) | the captured draft (a checkpoint commit) | reduce, materialize, restore | a worktree changed in several steps |
| Merge plan (`merge-plan.js`) | none: reads history and records | coverage of each source change | a record believed that is no longer true |
| Rebase (`rebase-*.js`) | `rebase.json`, anchors | start, continue, abort, interactive stops | as reconcile, with recreated merges and absorption |
| Forecasts (`forecasts.js`) | stored forecasts; a temporary worktree while one is made | simulate by one of two engines, approve | two engines that must agree; cleaning up after a failure; approval of something that changed since |
| Metadata exchange (`metadata*.js`) | envelopes, staged refs | export, inspect, import, migrate | a preview before the lock, a merge under it; two clones |
| Workspaces (`workspaces.js`, `workspace-lock.js`) | `workspaces.json`, `workspaces.lock`, worktrees, checkpoints | create, move, archive, restore, repair, prune, checkpoint | Git changed first, the registry afterwards |
| Sessions (`git.js`, the workers, `session.rs`) | a `git cat-file` process, a queue of requests | query, close | pipelining, deadlines, pairing of answers |
| Proof bundles and binding | bundles | create, verify, bind | a binding that is stale when read |
| Specifications (`specs.js`) | Markdown files and their sidecar manifests | index, plan a merge, apply it to a stopped pick | a three-way merge of blocks that must lose nothing of either side |
| Audit, provenance, schemas, CLI | none or files of text | reports, parsing | data rather than control |

How they interact: every operation that makes a record (reconcile, rebase,
landings, provenance, import, dispositions) publishes through the notes lock and
one `git update-ref --stdin` transaction. That is the one place where processes
of different worktrees meet, so it is modelled first and in the finest steps.
Reconcile is the heaviest user; its model takes each publication as the
indivisible step that `NotesLock` is proved to implement. What is published then
feeds the merge plan of the next reconciliation. The parts around the operations
share little with each other: reads and forecasts share the worker protocol
(`Forecasts` extends `Sessions`), a forecast's choices meet the resolutions and
specification merges when a pick stops (`Settling`), and `Services` puts them side
by side.

For each part, what makes it correct: the notes lose no record and no retention
whatever the lock does; a resolution or quarantine ref moves with its record; a
journal never claims more than Git did, publishes nothing before the operation is
whole and nothing twice, leaves no coverage behind that is untrue, and can always
be ended; an abort gives back branch and draft; a rebase the same, with anchors
released only after the tip is restored; an import changes all refs or none and
two clones that exchange everything agree on what nobody disputes; the registry
and Git's worktrees can be brought back together; an answer of a session belongs
to its request, and every read ends; both engines of a forecast say the same and
leave nothing behind; a specification merge keeps what either side changed; what is
recorded of a conflict is what was committed.

## Modules

| Module | What it is |
| --- | --- |
| `NoteContainers` | records, containers, what causet reads, adds and replaces in one; constants shared by the two modules below |
| `NotesStore` | the abstract store: a publication is one indivisible step, with no lock, process or transaction |
| `NotesLock` | the protocol: claim file, critical section, checked transaction, retention backfill, crashes, foreign tools |
| `Reconcile` | the operation, its journal, the worktree, the person |
| `Rebase` | the rewriting operation: topology, program, absorption, anchors, forecast, the person |
| `Sessions` | object reads and merge simulations through a worker and its Git process |
| `Forecasts` | the two simulation engines, the temporary worktree, the stored forecast; extends `Sessions` |
| `Workspaces` | the registry, its lock, Git's worktrees, checkpoints; several processes |
| `Exchange` | envelopes between clones: export, preview, import, parking, disposing |
| `SpecMerge` | the three-way merge of a specification, as operators |
| `Settling` | settling the conflicts of a stopped pick, and what is recorded of it; extends `SpecMerge` |
| `Services` | the five of them composed, one service per behaviour |
| `MCNotesLock`, `MCReconcile`, `MCRebase`, `MCServices` | instances for TLC |
| `NotesLockProofs`, `ReconcileProofs`, `RebaseProofs` and `RebaseWorkProofs`, `WorkspacesProofs`, `ExchangeProofs`, `ForecastsProofs` (also about `Sessions`), `SettlingProofs` | the theorems about each, with their inductive invariants and lemmas |

In the modules that are proved about, what the code computes in a loop is a recursive
function or a least set, never a `RECURSIVE` operator.

### NotesLock

One *writer* is one process that publishes at most once; a process that publishes
a second time takes the lock anew and is another writer. Every step is one system
call or one Git command.

* `lock` is `notes.lock`: who made the file, whether the claim has been written
  into it yet, whether it is older than `NOTES_LOCK_STALE_MS`. `CreateClaim` is
  the exclusive open, `WriteClaim` the write (to the file the writer opened, even
  if it has been renamed away since), `InspectLock` is `inspectNotesLock`,
  `Renamed` and `RenameRefused` are the outcomes of `abandonNotesLock`,
  `PollAgain` and `GiveUp` the 20 ms pause and the 5 s deadline, `CheckHolder` and
  `RemoveClaim` are `releaseNotesLock`.
* `notes`, `notesTip` are the tree of the notes ref and a generation number of its
  tip; the same for the retention ref. A container is a form (a causet note, text
  from before containers, JSON of another tool, too big) and a set of records;
  canonical order and bytes are left out.
* `ReadNotesTip`, `ReadRetentionTip`, `ReadText`, `Publish` are `rewriteNote` in the
  order of the code: tips before content. `Publish` is the ref transaction: it
  succeeds only if both tips, and the job's own ref, are as they were read.
* `ReadSnapshot`, `RecheckTips`, `PublishRetention` are `retainSnapshot`.
* `KeepLocal` is `dispose --keep-local`, which takes no lock. `ForeignPublish` is a
  tool that is not causet, or Git itself.

### Reconcile

A commit is its history since the branches diverged: a sequence of picks, each with
the change, the operation that made it and whether it was forked with an identity
of its own; ancestry is being a prefix. The worktree is one of a few states
(clean, conflicted, staged, the captured draft, the merged draft, torn, edited by
the person). `journal` is `reconciliation.json`, `op` the same object in the
memory of the running command; they differ exactly between a mutation and the
write that records it. `pc` names the step of the running command, and `Crash`
ends it between any two: a kill, or a failure it reports. The actions follow
`reconcileInSession`, `runReconciliationQueue`, `applyForecastResolutions`,
`recordSuccessfulApplication`, `finalizeReconciliation`,
`continueReconciliationInSession` and `abortReconciliation`.

The person acts between commands: resolves, continues or abandons the pick with
Git, checks out another branch, commits, edits, captures a draft, rewinds the
branch, picks again.

Not in the model: two commands at once in one worktree (no lock excludes them; Git's
`index.lock` would decide), the journal's display label, journals written by older
builds without a branch, changes equivalent by patch rather than by identity,
changes whose identity was amended, an overlay whose objects are gone, and a pending
rebase. `carryProvenance` reports its failures as a number and touches nothing else
of the operation; it is left out too. A reconciliation starts on one branch
(`target`); the person may be on the other one when the next command runs.

### Rebase

Commits are numbered in the order they are made (`objs`), each with its parents, the
change it is of, the contents of its tree as a set of changes (as written or
edited), and whether its message carries the Change-Id. A plan is the range of a
branch in topological order with the program that was declared for it; a step
picks a commit, recreates a merge with its rewritten parents, or absorbs a squashed
commit into the one before it. `anchors` are the refs that keep rewritten commits
reachable while nothing else names them. Between commit and anchor, anchor and
journal write, and in every other gap, the command may be killed. `Reword`, `Edit`
and the awaiting states are the pauses with which a command ends and from which
`--continue` goes on. A forecast is a reviewed head, base and queue; `Approved` is
`rebaseForecastForPlan`. Fixup is a squash (they differ in the message); resolutions
and carried provenance are left out of its publication; a conflict's settling is in
`Settling`.

### Sessions and Forecasts

The command posts one request and blocks (`Atomics.wait`); the worker takes it,
writes to Git, pairs the answers by position, fills the shared buffer and wakes the
command; each of these is a step, and so is each of Git's answers, its exit, and the
worker's noticing it. The command's wait ends with an answer, with a failure, or at
its deadline, after which it reads with a process of its own (`Ordinary`).
`misled` and `held` are history: what a read may truly be told. `Forecasts` posts its
merge steps through the same worker (`kind = "merge"`) and gives up for the temporary
worktree when a step is not plainly clean or the session fails; the worktree's cleaning
is one action per Git command, with each failing.

### Workspaces

`registry` is `workspaces.json`, as several processes read and write it; `lock` is
`workspaces.lock`, which no waiter ever removes. A command is: take the lock, read,
decide (`Allowed`), change Git's worktrees (`Act`), write the registry, release. A kill
may fall between any two; a person moves or deletes directories and removes a stale
lock. Checkpoints take no lock.

### Exchange

Each clone has its facts (notes and refs), its parked conflicts and its
decisions. `Preview` computes, before the lock, what an import will add and what it
will park; `Apply` publishes under the lock with the tips checked. A fact is an
identifier, the commit it is attached to, the ref it claims if any, and a text.

### SpecMerge and Settling

A document is a sequence of sections, a block's id its title and how often the title
came up so far, as the manifest derives it. `PlanSpecMerge` follows `planSpecMerge`:
per-block decisions, the order of the side that moved blocks, additions anchored
after a surviving block, and the result rendered to text. `Settling` has one pick
that stops with conflicts in the specification, its sidecar, another file, or several;
the commands `resolve apply`, `resolve reject`, `spec resolve`, `--continue`, a
forecast's choices, the person staging by hand, and kills between staging and the
write of the journal.

## Runs

| Run | Question | Outcome |
| --- | --- | --- |
| `notes` (`MCNotesLock.cfg`) | Do records, retention, refs, exclusion, refinement and progress survive crashes, theft, transient failures and foreign tools? | pass, 75,894 states |
| `notes_spin` | Does every writer that asks for the lock come to an end? | no: finding 1 |
| `notes_read_failure` | Is a note that could not be read left alone? | no: finding 2 |
| `notes_backfill` | When a backfill finds nothing to do, is everything retained? | no: finding 3 |
| `reconcile` (`MCReconcile.cfg`) | Is the journal honest, publication whole and unrepeated, coverage true, an abort complete, the person's work safe, an end always in reach? | pass, 210,078 states |
| `reconcile_abort` | Can an interrupted abort be run again? | not with a draft: finding 4 |
| `reconcile_pruned` | Does an abort put the captured draft back? | not its deletions: finding 5 |
| `reconcile_redone` | Is a receipt true whatever the person did with Git? | no: finding 6 |
| `rebase` (`MCRebase.cfg`) | As for reconcile; and are rewritten commits always named by a ref, merges' parents kept, identities single, divergence declared, forecasts binding? | pass, 100,362 states |
| `rebase_dropped` | Does a squash land in its survivor when that one conflicted? | no: finding 7 |
| `rebase_amended` | Is an edit heeded by a later plan that covers its change by name? | no: finding 8 |
| `services` (`MCServices.cfg`) | Five services, one per behaviour: are reads true and do they end; do forecasts agree and clean up; is no workspace update, journal or checkpoint lost and everything recoverable; do clones exchange facts without doubling, dropping or deciding again; do specification merges keep both sides, and are recorded decisions true? | pass, 615,458 states |

The violation runs each check one statement of a comment, a document or a test of
the repository against what the code does; `PROJECT.json` quotes the line.

**Bounds of `notes`.** Two writers, one that resolves and one with any of the four
jobs; two commits, so that one has a disputed record and one has none; one
signature that both may claim; one crash; one publication by a foreign tool; at
most two records in a container, so that the size limit is met. Two writers
suffice for every race between a read and a write: the third actors are the foreign
tool, the crash and `KeepLocal`. A claim that is old enough, or the leftover of a crashed
writer, is broken in `notes`, also when a live writer has taken it over in between.

**Bounds of `reconcile`.** A source of two changes (one with a Change-Id trailer,
one that only a receipt can cover), so that there is a first, a middle and a last
point of the queue; two operations, so that the second plans on what the first
published or left behind; and two events, each a kill or an act of the person, so
that a kill can follow an act, an act a kill, and a kill can hit the abort of an
operation that was already killed. Resolving a conflict, cleaning up and going back
to the branch cost nothing.

**Bounds of `rebase`.** Histories of one change, of two in a line and of two joined by
a merge, on a main that has nothing, the first change by its name, or its patch without
the name; plain programs and each action (reword, edit, squash), with a forecast and
with a captured draft; two rebases in a row where there are no merges, of the same
branch or of a copy; one event, a kill or an act of the person. With one event no
abort is both interrupted and followed by an act; what two events do to the shared
machinery (journal, abort, draft) is checked in `reconcile`, and some of it that
concerns rebase alone is listed under "Observed". An edit meets a plan that covers it by
name only in the third rebase: `rebase_amended` has three, and no event.

**Bounds of `services`.** *Reads*: three reads or writes of the command, one publication
by others, one fault (a hung or dying Git, a dying worker, an odd answer, an early
deadline); three notes trees, one within the budgets of a listing, one with too many
trees, one with too many bytes. *Forecasts*: programs of up to two steps of every nature
(clean, attributes, covered by a resolution, conflict, merge, edit), onto a target that
has the change or not; one fault and two failing cleaning commands, so that both the
removal and what is tried after it can fail. *Workspaces*: two processes, two
workspaces, two paths, each process one command and one more between them, two mishaps
(a kill, a deleted or moved directory, an operation begun or ended, a lock removed).
*Exchange*: two clones; three facts of one identifier and three resolutions of one
conflict, two of these of one identifier, three of them all recorded, two exports,
three imports, one disposal, so that a decided dispute is met again. *Conflicts*: about
8,000 triples of versions - every way two sides can edit, delete, move and add up to three
sections of a document of none to three, and documents with a preamble, a repeated title,
another artifact, a stale manifest - each merged once; and for two of them (one clean, one disputed) two picks in
a row with every set of unmerged paths and three acts of persons, other worktrees or
kills, so that the second pick meets what the first published.

Deadlock is not checked: writers that have published, and a person who has reached
the bounds, stop.

**Fairness.** `NotesLock`: a started process keeps running (weak fairness of each
writer's steps); a writer that polls again and again meets its deadline
(`SF(GiveUp)`: five seconds of wall clock); and, for the passing run only, a rename
that fails for a transient reason does not fail for ever (`SF(Renamed)`), which is
what the code's retry assumes. `notes_spin` is about doing without that last one.
`Reconcile`: a started command goes on (`WF(CommandStep)`; kills are bounded), and
a person who wants to be rid of an operation puts the worktree in order, goes back
to its branch and asks for the abort as often as it takes (`WF(CleanUp)`,
`WF(GoBack)`, `SF(Abort)`). Nobody is assumed to continue, so `EverySettles` says
that nothing strands an operation beyond `--abort`.

`Rebase` assumes the same as `Reconcile`. In `Services`, fairness is stated for reads and
forecasts only: the command, the worker's event loop and Git go on (`SessionFairness`;
a hung Git is a fault and stays hung, and it is the deadline, part of the command, that
gets past it), and a forecast's own steps are taken. Nobody is assumed to start a read,
a workspace command, an import or a disposition; those services have safety only.

## What is proved

`NotesLockProofs` proves, for all sets of writers, hosts, commits, signatures and
disputes, all sizes and all bounds:

* `TypeCorrect`: the type invariant.
* `LockExcludes`: until a claim has been abandoned, at most one writer is in the
  critical section (`ExclusiveUntilAbandoned`).
* `RecordsKept`, `RetentionKept`, `RefsInStep`: if reads of a note do not fail
  silently (`~ReadsFail`), no record is lost, what is published is retained, refs
  move with their records. None of them assumes that the lock excludes anybody:
  they hold with claims stolen at will.
* `StoreImplemented`: under the same assumption the protocol implements
  `NotesStore`. `Publish`, `PublishRetention`, `ForeignPublish` and `KeepLocal` map to
  steps of the store, everything else to stuttering.

Assumptions: the ones named in `NoteContainers` and `NotesLock`, which TLC evaluates in
the runs; `~ReadsFail` is the condition finding 2 shows to be needed.

The argument. The lock is not what keeps records safe; the checked transaction is.
The invariant says what a snapshot is worth: `SnapshotsTrue`, if a tip a writer read is
still the tip, the tree and the retained set it read are still the current ones
(tips only grow, and every change of a tree moves its tip); `TextsTrue`, the text a
writer is about to rewrite is, if its tip still stands, the current one and one it
accepts; `DisputesSeen`, quarantine refs only disappear, so a backfill's list of
disputes covers those still standing; `SettledOnce` and `OwnersKnown`, a writer
publishes at most once and a ref names a writer that did. `Publish` is enabled only
with unmoved tips, so with these it acts on the current container, and then
`NoLostRecord`, `RetentionCovers` and `RefsMoveWithRecords` are preserved one by
one (`PublishRecords`, `RetentionRecords`, `ForeignRecords`, `KeepLocalRecords`),
together, because each needs another: that a replaced record is not one somebody
published needs `KindsApart`. The refinement uses the same facts: the abstract guard
speaks of the current container, the concrete one of the text read.

`LockExcludes` is separate and needs only the type invariant's neighbours: while no
claim was abandoned, a writer that holds the lock is the one in the file.

In the other proof modules the pattern is the same: an inductive invariant whose parts
are named for what they say, one lemma per action (or group of actions) for what it
preserves, and theorems that read the properties off it.

**`ReconcileProofs`** - any source branch, tagged changes, drafts, forecasts, number of
operations, kills and acts of the person. Theorems `OperationTypes`, `JournalNeverAhead`,
`PublicationIsWhole`, `RecordsAreUnique`, `CoverageIsTrue` and, for the action property,
`AbortPutsBack`. `ReconcileIInv` has: `Journaled` (a journal is `Coherent`: no change
twice in its queue, as many applications as it says, each of the change it was for; and
`Founded`: while nobody redid a pick, the branch still has what the operation started
from and what was applied), `Running` (journal and memory differ only where a step says
so, and what each step may rely on), `PickTrue` (a pick Git holds is the journal's and
stands where it began), `NothingToLose` (no edits of the person where a command moves
the worktree), `PublishingTrue` (what is published of an operation is exactly what its
counter says) and `ReceiptsTrue`. `JournalHonest` alone is not inductive: that the tip is
right at rest depends on what a killed command had in memory, and that on what a pick had
done. `CoverageTrue` needs that a plan leaves out only what is covered, which is induction
along the source (`LeastMember`: the first change that lacks a property).

**`RebaseProofs`** - any history of commits with at most two parents, programs, number of
operations, kills and acts of the person. Theorems `RebaseTypeCorrect`, `PublicationIsWhole`,
`RewrittenStayReachable` and, for the action property, `ForecastsAreHonoured`.
`RebaseIInv`: `RebaseKinds` (a journal and a command's memory are operations, `Sound`),
`Journaled` (while a command runs, memory and journal are about the `Same` operation -
number, branch, head, base, queue, draft, forecast - and equal wherever no step is half
done; a journal that can be continued has a step left; what finishes an operation has
none), `ForecastTrue` (a forecast that a journal counts on stands: nothing is forecast
while an operation is pending, and a start without one drops it) and `PublishingTrue`
(an operation with steps left has no record; of one that publishes, the first
`nextNote - 1` records are there). `PublishedWhole` alone is not inductive: `Publish`
preserves it because the queue was done when publication began, which the journal has to
say for a memory that kills and continues replace. That a plan is a sequence at all rests
on two definitions by recursion over a repository, `ResolveRange` and `Store`; what they
satisfy is proved from least counterexamples (`InOrderExists`, `InOrderTrue`, `StoreTrue`).

`TypeOK` is not a matter of shapes here: a step looks up what its parents were rewritten to,
and that this is a commit at all is a fact about the order of the queue. `TypesIInv`, which
TLC has checked on the run's instance too, adds to `RebaseIInv`: `Repository` (with `Lineage`: commits come
after their parents, which are one or two but for a root), `Memory` (journal and memory are
`Typed` for the repository as it is: the queue is `Planned`, each step's parents precede it
there; every step behind `next` that leaves a commit is mapped to a commit), `Standing` (a
command within a step remembers which step; a join has its second parent) and `Bounded`.
A commit that is made only adds to the repository, so what was typed stays typed
(`TypedGrows`), and a step that is done maps its commit before the next looks it up
(`MappedTrue`, `TypedCompleted`).

`AnchorsHold` - what an operation has rewritten is in the past of a branch or of an anchor -
needs to know why the branch holds it where no anchor does. Anchors are written only for a
topology with a merge still to come, and between two lines of a merge the branch is moved
away from the one just rewritten. `LinesIInv` (checked by TLC on the run's instance as well)
adds to `TypesIInv`: `Descent` (a commit's past is itself and its parents' pasts) and, of an
operation that is not being undone, `Tracked`. Its parts: `Drawn` (in the queue, whatever has
no merge after it is one line: `QueueDrawn`, from the order of the queue alone, backwards
from its last step), `Retraced` (what was rewritten comes after what its original came
after), `Led` (where no merge is left, the branch holds the last commit rewritten), `Held`
(before a merge, each has an anchor - but the one that `AnchorStep` is about to name), and
where the command is within a step (`Placed`, `Over`, `Above`: the branch holds the commit
the step began on; where a message or a content is awaited it is past it). What a person
does to the branch in between only adds to it (`AboveGrows`, `TrackedRests`): the model's
person commits, checks out, lands and abandons picks, but does not reset the branch back -
against that nothing but an anchor could help, and the property does not claim it.
`LinesHold` then reads the property off: before a merge by the anchors, else along the line.

**`RebaseWorkProofs`** - goes on from there. Theorems `JournalsAreHonest`, `EditsAreDeclared`,
`NamesStayUnique` and, for the action properties, `AbortsRestore` and `MergesAreRecreated`.
`AbortRestores` is about the branch, the worktree and the refs, and the journal speaks of
none of them. `WorkIInv` adds to `TypesIInv`: `Settled` (where a command stands, journal,
memory, branch and what Git has pending agree: which pick or merge can be there, and on which
commit), `Orderly` - of an operation whose pauses the person left alone (`~meddled`) - and
`Anchoring` (a ref names a commit of the queue; when an abort is about to forget, those of
the steps the journal knows of are gone). `Orderly` says what worktree and staged content can
be: by the command's place (`Kempt`), by what the journal waits for (`Parked`), after a draft
was put back (`Redrafted`) and in an abort (`Undone`). It takes all four: that an abort loses
no edits is a fact about the worktree when it *begins*, and that depends on what a killed
command had staged and on whether it had journaled why.

`JournalHonest` adds `Honest` (`HonestIInv`): the commit a step has reached stands on the one
it began from (`On`), and what the cursor counts is in it or staged (`TakenIn`). It holds of
memory while a step is under way and of the journal where one is awaited; in between, the
one commit an absorption is ahead of its cursor is what `AbsorbApplies` has staged.
`TopologyKept` adds `Topological` (`TopologyIInv`): of every step done, the commit it is mapped
to has the mapped parents (`Recreated`) and comes after the new base (`Rooted`); and HEAD is
where the line that is left starts (`AtLast`), which is why a step that states no parents may
be picked onto it. That a join has the second parent its step asks for rests on `On` again.

`DivergenceDeclared` relates a receipt to records published before it. `DeclaredIInv` adds
`Divergence`, of an operation under way, and of what is published `Vouches` (an application
of a receipt that edits its change has the amendment, or the absorption of that edit, before
it) and `Shown` (what memory and journal count as published is there). `Divergence` follows
an edit from where it enters: it is in a step's tree only if the step began with it, brought it,
took it in or amended to it (`Explained`, and `Explains` for what a pause awaits); what a
conflict stages is the pick's own (`OwnOnly`); and an application with an edit its origin has
not is amended or took it in (`Warranted`, `Declares`). A cherry-pick brings the difference of
a commit to its parents, so what a commit adds (`Brought`) is followed from commit to commit;
and which records come before a receipt is read off the order in which an operation
publishes (`ChainMade`).

`OneIdentity` adds `Unique` (`UniqueIInv`) to `TopologyIInv`: no past holds two commits alike
in name, on any branch or none (`Singles`); what is yet to be rewritten is not in the past of
the new base under its name, nor twice in the plan (`Fresh`: the plan omits what is), and what an operation made has
in its past, beyond that base, only names of steps it has done (`Lineal`); a pick or a
merge that Git has pending repeats no name (`InGit`), since `git commit` may finish it outside
the command; and HEAD, while its step is being finished, bears that step's name (`Borne`), so
melding or amending it makes no second one. The theorem supposes `NamesApart`: no history to
start from has a Change-Id twice in the past of a commit. A range that does is carried as it
is. The hypothesis is on constants, and TLC evaluates it on the runs' histories
(`ApartAssumption` of `MCRebase`). Of the commits that come later nothing is supposed beyond
the model: what main gains of its own and what the person commits carry no Change-Id.

`~meddled` in these is the property's own exception: at a pause the person committed, or
dropped what an absorption had staged, or an abort that was cut short was continued; no journal
sees that. From then on only what has no such exception is claimed: types, anchors, the branch
an abort puts back, and that what is published is whole.

**`WorkspacesProofs`** - any processes, workspaces, paths, initial registry. Theorems
`WorkspaceTypes`, `SavesCompose`, `JournalsSurvive`, `NothingStranded`,
`CheckpointsKeepNames`. `WorkspaceIInv`: `JobsFit` (which command a process runs where),
`Excluded` (the claim's holder is the only process past it, and what it read is the
registry still), `UniqueIds`, `DiskTrue` (a worktree on disk is known to Git, at one
place, on a branch), `ChecksHold` (what `archive` and `prune` checked still holds but for
what `late` names), `CheckpointsSeen` (who replaces a checkpoint has kept the present one).

**`ExchangeProofs`** - any clones and facts. Theorems `ExchangeTypes`, `NoSecondFact`,
`ImportsWhole`, `DecisionsStay`. `ExchangeIInv`: `ExchangeShapes` (envelopes, plans and
quarantines are single by identifier and by ref), `PlansSafe` (what a plan adds is new or
collides visibly, or its identifier was raced), `CopiesSafe` and `ClearedSafe` (the steps
of a disposition), `ParksSafe` (a plan parks nothing rejected). A plan is made before the
lock; the invariant says which of its conclusions survive until it is applied.

**`ForecastsProofs`**, on `Sessions` - any repository of trees and notes, any reads, moves and faults;
for the object session of `SessionSpec`. Theorems `AnswersAreTrue`, `CatalogIsWhole`.
`SessionIInv`: `CacheTrue` (what is cached cannot have changed since), `Talking` (outside a
request nothing is in flight - `Quiet`; during one it is `Posted`, `Gone` with the worker,
or `Flowing`: the answers in the pipe followed by the requests not answered yet are, in
order, what the worker has pending, so pairing by position is right), `GotTrue` (what a
query brought is complete and true) and `ListTrue` (a listing has seen some of the trees of
one root the ref was at and asks for all they lead to, so when it runs out of trees to ask
for it has seen them all).

The same module on `Forecasts` - any source, programs, targets. Theorems `ForecastsCleanUp`
(`TempTrue`: where the temporary worktree is, and how many cleaning commands failed, by
where the forecast is) and `EnginesSayTheSame` (`MergePaired`: one merge at a time is with
the worker and its answer is the one asked for, whatever died; `SimTrue`: what either
engine has so far is what the remaining program started from makes of the whole).

**`SettlingProofs`** - any versions, drafts and results, any unmerged paths. Theorem
`DecisionsAreTrue`. `SettlingIInv`: `PickTrue`, `ChoicesTrue` (what is journaled was offered,
at most one per path), `ForecastTrue` (an approved choice is staged before it is
journaled), `CapturesTrue` (what is captured is of what is staged).

All assumptions are those on constants, named in the modules (`SourceAssumption`,
`ChangeAssumption`, `CasesAssumption`, `WorkspaceAssumption`, `FactAssumption`,
`TreeAssumption`, `NatureAssumption`, `SettlingAssumption` and the bounds'), and TLC
evaluates them in the runs; `NamesStayUnique` alone supposes one thing more, `NamesApart`
(above). `CasesAssumption` asks that no commit has more than two
parents: a plan with an octopus is refused (`rebase-topology.js:58-71`).

Only model-checked:

* liveness (`DeadClaimCleared`, `EverySettles`, `EveryReadEnds`), which is out of the
  prover's reach;
* `CoverageTrue` of `Rebase`. It is not true of every history the proofs speak of: a commit
  on main may have the name of a change and other content, which coverage by name takes for
  that change. What would exclude it is a condition on all later commits too (the person's,
  and the edits that absorbed commits bring in), not on the constants. `CoverageTrue` leaves
  out the edits that a published amendment is about; `rebase_amended` shows why;
* `MergeKeepsBoth`, what `PlanSpecMerge` computes over the documents enumerated, and the
  classification of a rebase, which recurse over data;
* the composition `Services` as such (`ServicesTypeOK`), which adds nothing to its parts but
  the choice of one.

## Observed, without a run

* The comment at `notes.js:133-134` says a live writer's lock must never be taken from it;
  the claim is inspected first and then whatever file is at the path is renamed
  (`notes.js:192-208`), so a claim created in between is taken. No record is lost: the
  ref transaction checks both tips, which is what `NoLostRecord` shows under any theft.
* `docs/architecture.md:1556` says a pending operation the user has edited by hand
  still refuses to abort; once the operation has put a draft back
  (`overlayRematerialized`) an abort discards later edits too. `AbortRestores`
  is stated with that exception.
* A kill after a conflicted pick and before the conflict is journaled: the
  application record made by the later `--continue` lists no conflict and no
  resolution.
* `docs/architecture.md:1469` reads as if `--continue` were possible when only
  publication is left; the code refuses (`operations.js:943-946`) and the operation
  can only be aborted.

Rebase:

* A change the person amends during a rebase keeps the amended identity only until
  the next rewrite (`provenance.js:233-248`, `merge-plan.js:27-38,190-202`, against
  `README.md:308-313`).
* An abort that completes after one that was cut short keeps what the person edited in
  between; `AbortRestores` says so.
* After an interrupted abort, `--continue` at an awaiting state is accepted and amends
  the original tip. A person's own commit at such a pause is amended by `--continue`
  too, which gives two commits one Change-Id.
* Anchor refs leak when the command is killed between anchor and journal write. A kill
  in the middle of an absorption leaves state `applying` with staged content: both
  `--continue` and `--abort` refuse until the person cleans up.
* Once publication has begun, only the abort is possible, even after the receipt.
* A kill after `applyForecastResolutions` wrote the journal leaves an ordinary conflict:
  the person may continue or fork it under a forecast. A reword under a forecast never
  runs `validateForecastAfter`. A forecast made on one branch is accepted on another
  with the same head.
* In merge-preserving mode, positioning (`reset --hard`) discards unstaged edits made at
  a pause. Staged edits at a reword pause are committed, then refused, then lost by the
  abort that is advised.

Sessions and forecasts:

* The object worker has no error listener on Git's stdin; a write to a Git that is gone
  may end the worker, and the deadline saves the command. Closing after a kill by
  signal throws in the worker, and the parent waits its five seconds.
* A failed `git notes list` is taken for no notes (`git.js:1519-1523`; `misled`). A mutation
  made by another process or under another directory does not clear a cached "missing".
* A killed forecast leaves its temporary worktree registered with Git.

Workspaces:

* Two checkpoints of one workspace at once lose one of them from the history
  (`CheckpointsNamed` is stated without them). All worktrees that are not registered
  share the id "main" and its checkpoint ref.
* After a killed move, or a person's `git worktree move`, another workspace can be
  created at the path recorded for the first; archive and move of the first then act on
  the other's worktree, and repair is refused. An archived entry earlier in the registry
  with the same path makes `checkpoint` in the newer workspace refuse.
* `archive` looks for a journal in the worktree at the recorded path and removes that
  path afterwards; a person who moves another worktree there in between, or begins an
  operation, has it removed with its journal. `JournalsKept` and `JournalsSurvive`
  exempt just that (`late`).
* A restore whose directory is deleted afterwards needs `git worktree prune`.

Exchange:

* A parked resolution without a local copy cannot be disposed of, unlike
  `docs/architecture.md:1249-1254` and `README.md:934-936` say.
* A resolution refused because its ref points elsewhere in this clone is parked even if
  the person rejected it before: the refusal is looked at before the decisions.
* A preview made before a disposition and applied after it parks the decided conflict
  again. Refs that are refused take precedence over "disposed". Two dispositions at once
  can lose a line of `dispositions.json`. A later conflict of the same identifier and
  lineage replaces the parked one. With two lineages parked, `dispose` asks for an
  option the command line does not have (`cli.js:147`).

Specifications and settling:

* Ids are derived from title and occurrence. Where a title occurs twice, a clean merge
  can renumber or swap the ids of the repeated sections; `ReadsBack` exempts repeated
  titles (`docs/structured-document-adapters.md:94-96` admits it, `docs/architecture.md`
  section 13.4 speaks of "the same IDs").
* A preamble added on one side while the other adds a section at the start is rendered
  after that section and becomes part of it: the block is gone from the result's manifest.
* A specification resolved by hand, without `spec resolve`, can be committed with a stale
  sidecar: only journaled semantic merges are verified (`specs.js:1228`), although
  `README.md:771-773` says stale sidecars block.
* The mode of a result is not part of a resolution's identity. A suggestion can be
  recorded as "rejected" and as reused at once.

## Not modelled, and what is left

Not modelled: the grammar of the Markdown parser, indexing and manifest migration; schema
checking and canonical JSON; names and their one-shot migration; the command line; the
identity audit and the reports; proof bundles and their binding (a status computed from
stored facts, no state of its own); benchmarks and scripts; the native port as a program
of its own (it is mapped where it follows the same protocol). Within modelled parts: two
reconcile commands at once in one worktree, absorbing steps, target overlays and
workspace comparisons inside a forecast, the absorbed and carried provenance of a rebase,
landings and candidate equivalences of the merge plan, shape checks of an envelope.

Left, in this order:

1. `CoverageTrue` of `Rebase` under a condition on the names of a history that every later
   commit keeps.
2. The lattice of coverage classes of the merge plan as operators, checked against a
   reference definition.
3. An abstract operation (published whole or not at all) that both `Reconcile` and
   `Rebase` implement.
