-------------------------------- MODULE Rebase --------------------------------
(***************************************************************************)
(* `cst rebase`: rewriting the commits of a branch onto the tip of main,   *)
(* with its merges recreated, under a declared program of actions          *)
(* (reword, edit, squash), supervised by a private journal from which a    *)
(* later process continues or aborts, and publishing its records only when *)
(* the whole program has run.                                              *)
(*                                                                         *)
(* src/src/rebase-operations.js, src/src/rebase-plan.js,                   *)
(* src/src/rebase-topology.js, src/src/rebase-interactive.js,              *)
(* src/src/rebase-state.js, src/src/rebase-forecast.js, rebaseProgram of   *)
(* src/src/forecasts.js, and the classification of src/src/merge-plan.js.  *)
(*                                                                         *)
(* One command runs at a time; it may be killed between any two steps, a   *)
(* step being one Git mutation or one write of the journal.  Between       *)
(* commands a person works in the worktree with Git itself.                *)
(***************************************************************************)
EXTENDS Integers, Sequences, FiniteSets

CONSTANTS
    Change,      \* the changes the source branch may consist of
    Cases,       \* histories to start from (base, main's commit, the range),
                 \* each with a bound: what the first rebase of it may be
                 \* asked to do, the second, and so on (sets of Request)
    MaxEvents    \* bound: commands that are killed, and things the person
                 \* does with Git between commands

None == "none"
NoCommit == 0

(* What a tree holds: a change as its author wrote it, or an edit made     *)
(* under its name; None stands for work outside the modelled changes.      *)
Content == (Change \cup {None}) \X BOOLEAN
AsWritten(x) == <<x, FALSE>>
Edited(x) == <<x, TRUE>>

(* A commit of a starting history: its parents, the change it is of, and   *)
(* whether its message carries the Change-Id.                              *)
Entry == [parents : Seq(Nat), of : Change \cup {None}, named : BOOLEAN]

(* What is done with each change, and the one the absorbed ones go into.   *)
Program == [action : [Change -> {"replay", "reword", "edit", "absorbed"}],
            into : Change \cup {None}]

(* A program, and whether it runs under a forecast that was reviewed, with *)
(* a captured draft (target overlay) or none.                              *)
Request == [program : Program, forecasted : BOOLEAN, overlay : {"draft", None}]

ASSUME ChangeAssumption == Change \subseteq STRING /\ None \notin Change
ASSUME CasesAssumption ==
    \A case \in Cases :
        /\ case.repo \in Seq(Entry) /\ Len(case.repo) > 2 /\ case.asks \in Seq(SUBSET Request)
        /\ \A i \in 1..Len(case.repo) :
              /\ Len(case.repo[i].parents) <= 2     \* an octopus is refused
              /\ \A k \in 1..Len(case.repo[i].parents) : case.repo[i].parents[k] \in 1..(i - 1)
ASSUME EventsAssumption == MaxEvents \in Nat

Branch == {"main", "source", "copy"}
Worktree == {"clean", "conflict", "staged", "edited", "draft", "merged", "torn"}

VARIABLES
    objs,          \* the commits of the repository, oldest first
    branch, tip,   \* HEAD's branch, and the commit each branch is at
    cp, mh,        \* CHERRY_PICK_HEAD and MERGE_HEAD
    wt, index,     \* the worktree, and what is staged on top of HEAD
    anchors,       \* the refs that name rewritten commits: <<op, origin, commit>>
    journal,       \* rebase.json
    pc, op, nextNote,  \* the running command: where it is, the operation in
                       \* its memory, the record it publishes next
    notes,         \* the records published, in order
    forecast,      \* the forecast that was reviewed last
    undoing,       \* has an abort of the journaled operation begun? (history)
    meddled,       \* has the person done what a paused journal cannot see?
    dropped,       \* operations that recorded a survivor without what it was
                   \* to absorb (history)
    asks,          \* what this case asks for
    ops, events    \* how often each bound was used

headVars == <<branch, tip>>
treeVars == <<cp, mh, wt, index>>
gitVars == <<objs, headVars, treeVars>>
procVars == <<pc, op, nextNote>>
histVars == <<undoing, meddled, dropped>>
boundVars == <<asks, ops, events>>
vars == <<gitVars, anchors, journal, procVars, notes, forecast, histVars, boundVars>>

-----------------------------------------------------------------------------
(* Commits.                                                                *)

Commit == [parents : Seq(Nat), of : Change \cup {None}, named : BOOLEAN,
           tree : SUBSET Content, past : SUBSET Nat]

(* The next commit of a store: its tree is its parents' and what it adds.  *)
Made(store, parents, of, named, content) ==
    LET From == {parents[k] : k \in 1..Len(parents)} IN
    [parents |-> parents, of |-> of, named |-> named,
     tree |-> content \cup UNION {store[p].tree : p \in From},
     past |-> {Len(store) + 1} \cup UNION {store[p].past : p \in From}]

Store(repo) ==
    LET Built[n \in 0..Len(repo)] ==
          IF n = 0 THEN <<>>
          ELSE Append(Built[n - 1],
                 Made(Built[n - 1], repo[n].parents, repo[n].of, repo[n].named,
                      IF repo[n].of = None THEN {} ELSE {AsWritten(repo[n].of)}))
    IN Built[Len(repo)]

(* No history to start from has one Change-Id twice in the past of a       *)
(* commit: what a trailer is meant for, though nothing in Git sees to it.  *)
NamesApart ==
    \A case \in Cases : LET s == Store(case.repo) IN
        \A h \in 1..Len(s) : \A c, d \in s[h].past :
            s[c].named /\ s[d].named /\ s[c].of = s[d].of => c = d

Objects == 1..Len(objs)
HEAD == tip[branch]
New == Len(objs) + 1
IsMerge(c) == Len(objs[c].parents) = 2
Delta(c) == objs[c].tree \ UNION {objs[p].tree : p \in {objs[c].parents[k] : k \in 1..Len(objs[c].parents)}}

(* A commit on top of HEAD, and HEAD replaced by `commit --amend`.         *)
AddCommit(parents, of, named, content) ==
    /\ objs' = Append(objs, Made(objs, parents, of, named, content))
    /\ tip' = [tip EXCEPT ![branch] = New]
Amend(of, named, content) ==
    AddCommit(objs[HEAD].parents, of, named, objs[HEAD].tree \cup content)

-----------------------------------------------------------------------------
(* The journal.                                                            *)

Step == [kind : {"pick", "omit", "merge"}, commit : Nat, action : {"replay", "reword", "edit", "omit", "review", "absorbed"},
         absorbs : Seq(Nat), parents : Seq(Nat)]

Current == [commit : Nat, before : Nat, conflicted : BOOLEAN, fork : BOOLEAN,
            cursor : Nat, joins : Nat, treeBefore : SUBSET Content]
NoCurrent == [commit |-> NoCommit, before |-> NoCommit, conflicted |-> FALSE, fork |-> FALSE,
              cursor |-> 0, joins |-> NoCommit, treeBefore |-> {}]

(* "applying" stands for every state in which the command itself works,    *)
(* "blocked" for those that only an abort leaves.                          *)
State == {"applying", "conflicted", "awaiting-message", "awaiting-content",
          "awaiting-absorption", "blocked"}

Application == [origin : Nat, commit : Nat, fork : BOOLEAN]
Join == [origin : Nat, commit : Nat, parents : Seq(Nat)]
Amendment == [of : Change \cup {None}, commit : Nat, origin : Nat]
Absorption == [survivor : Nat, absorbed : SUBSET Nat]

NoOperation == [id |-> 0, branch |-> "source", orig |-> NoCommit, onto |-> NoCommit,
                queue |-> <<>>, next |-> 1, rewritten |-> <<>>, applied |-> <<>>, joins |-> <<>>,
                amendments |-> <<>>, absorptions |-> <<>>, current |-> NoCurrent,
                state |-> "applying", overlay |-> None, remat |-> FALSE, forecast |-> FALSE]
Pending == journal # NoOperation

IsOperation(o) ==
    /\ DOMAIN o = DOMAIN NoOperation
    /\ o.id \in 0..ops /\ o.branch \in Branch /\ {o.orig, o.onto} \subseteq 0..Len(objs)
    /\ o.queue \in Seq(Step) /\ o.next \in 1..(Len(o.queue) + 1)
    /\ \A c \in DOMAIN o.rewritten : c \in Objects /\ o.rewritten[c] \in 0..Len(objs)
    /\ o.applied \in Seq(Application) /\ o.joins \in Seq(Join)
    /\ o.amendments \in Seq(Amendment) /\ o.absorptions \in Seq(Absorption)
    /\ o.current \in Current /\ o.state \in State
    /\ o.overlay \in {"draft", None} /\ {o.remat, o.forecast} \subseteq BOOLEAN

NoForecast == [head |-> NoCommit, onto |-> NoCommit, queue |-> <<>>, overlay |-> None]

PC == {"idle", "reduce", "reduced", "reset", "queue", "pick", "merge", "join", "paused", "batch",
       "absorb", "cursor", "finish", "record", "record-join", "anchor", "advance",
       "continue", "reword", "edit", "verify", "materialize", "remat", "publish", "release",
       "clear", "undo", "restore", "undone", "forget"}

TypeOK ==
    /\ objs \in Seq(Commit)
    /\ branch \in Branch /\ tip \in [Branch -> Objects] /\ {cp, mh} \subseteq 0..Len(objs)
    /\ wt \in Worktree /\ index \in SUBSET Content
    /\ anchors \subseteq (1..ops) \X Objects \X Objects
    /\ IsOperation(journal) /\ IsOperation(op) /\ pc \in PC /\ nextNote \in Nat
    /\ forecast.queue \in Seq(Step)
    /\ {undoing, meddled} \subseteq BOOLEAN /\ dropped \subseteq 1..ops
    /\ ops \in 0..Len(asks) /\ events \in 0..MaxEvents

Init ==
    /\ \E case \in Cases :
         /\ objs = Store(case.repo) /\ asks = case.asks
         /\ tip = [b \in Branch |-> IF b = "main" THEN 2 ELSE Len(case.repo)]
    /\ branch = "source" /\ cp = NoCommit /\ mh = NoCommit /\ wt = "clean" /\ index = {}
    /\ anchors = {} /\ journal = NoOperation
    /\ pc = "idle" /\ op = NoOperation /\ nextNote = 0
    /\ notes = <<>> /\ forecast = NoForecast
    /\ undoing = FALSE /\ meddled = FALSE /\ dropped = {}
    /\ ops = 0 /\ events = 0

-----------------------------------------------------------------------------
(* The plan: what is done with each commit of the range.                   *)

Published == {notes[i] : i \in 1..Len(notes)}
Receipts == {n \in Published : n.type = "rebase"}
ReceiptsIn(onto) == {r \in Receipts : r.result \in objs[onto].past}

SameName(c, d) == objs[c].named /\ objs[d].named /\ objs[c].of = objs[d].of

(* A Change-Id whose content an edit changed proves nothing by itself.     *)
AmendedIn(onto, c) ==
    \E n \in Published : n.type = "amendment" /\ n.commit \in objs[onto].past /\ n.of = objs[c].of

NamedIn(onto, c) ==
    \/ \E d \in objs[onto].past : SameName(c, d)
    \/ \E r \in ReceiptsIn(onto) : \E d \in r.absorbed : SameName(c, d)

Covered(onto, c) ==
    \/ \E r \in ReceiptsIn(onto) : c \in r.absorbed
    \/ NamedIn(onto, c) /\ ~AmendedIn(onto, c)

(* A name that was amended, or a commit of main with the same patch.       *)
Candidate(onto, c) ==
    /\ ~Covered(onto, c)
    /\ \/ NamedIn(onto, c)
       \/ Delta(c) # {} /\ \E d \in objs[onto].past : Delta(d) = Delta(c)

(* Commits of a set, oldest first.                                         *)
InOrder(S) ==
    LET upTo[n \in 0..Len(objs)] ==
          IF n = 0 THEN <<>>
          ELSE IF n \in S THEN Append(upTo[n - 1], n) ELSE upTo[n - 1]
    IN upTo[Len(objs)]

(* What one branch has and another has not.                                *)
ResolveRange(head, onto) == InOrder(objs[head].past \ objs[onto].past)

Replayable(onto, c) == ~IsMerge(c) /\ ~Covered(onto, c) /\ ~Candidate(onto, c)

(* resolveInteractiveProgram: every commit an action names is replayed, an *)
(* absorbed one comes after the survivor it goes into.                     *)
Declarable(head, onto, program) ==
    LET Replayed == {c \in objs[head].past \ objs[onto].past : Replayable(onto, c)}
        Subject(x) == {c \in Replayed : objs[c].of = x} IN
    \A x \in Change : program.action[x] # "replay" =>
        /\ Subject(x) # {}
        /\ program.action[x] = "absorbed" =>
              /\ program.into \notin {x, None} /\ program.action[program.into] # "absorbed"
              /\ Subject(program.into) # {}
              /\ \A c \in Subject(program.into), d \in Subject(x) : c < d

Action(onto, program, c) ==
    IF Covered(onto, c) THEN "omit"
    ELSE IF Candidate(onto, c) THEN "review"
    ELSE IF objs[c].of = None THEN "replay" ELSE program.action[objs[c].of]

Survives(action) == action \in {"replay", "reword", "edit"}

Kind(onto, program, c) ==
    IF IsMerge(c) THEN "merge"
    ELSE IF Survives(Action(onto, program, c)) THEN "pick" ELSE "omit"

(* analyzeRebaseTopology and rebaseProgram: every commit of the range in   *)
(* order, with its parents in the range, or the new base (NoCommit) for    *)
(* those outside it and for the one a root has not, and a survivor with    *)
(* what it absorbs.                                                        *)
Queue(head, onto, program) ==
    LET range == ResolveRange(head, onto)
        In == {range[i] : i \in 1..Len(range)}
        Absorbs(c) == IF objs[c].of # None /\ program.into = objs[c].of
                      THEN InOrder({d \in In : ~IsMerge(d) /\ Action(onto, program, d) = "absorbed"})
                      ELSE <<>> IN
    [i \in 1..Len(range) |->
        LET c == range[i] IN
        [kind |-> Kind(onto, program, c), commit |-> c,
         action |-> IF IsMerge(c) THEN "replay" ELSE Action(onto, program, c),
         absorbs |-> IF Kind(onto, program, c) = "pick" THEN Absorbs(c) ELSE <<>>,
         parents |-> IF objs[c].parents = <<>> THEN <<NoCommit>>
                     ELSE [k \in 1..Len(objs[c].parents) |->
                             IF objs[c].parents[k] \in In THEN objs[c].parents[k] ELSE NoCommit]]]

Reviewed(queue) == {queue[i].commit : i \in {k \in 1..Len(queue) : queue[k].action = "review"}}
Preserving(o) == \E i \in 1..Len(o.queue) : o.queue[i].kind = "merge"

-----------------------------------------------------------------------------
(* Steps of the running command.                                           *)

Write(o) == op' = o /\ journal' = o
Go(label) == pc' = label
Stop == Go("idle") /\ op' = NoOperation /\ nextNote' = 0

(* A step that only moves the command on, or changes its own memory.       *)
Thinks == UNCHANGED <<gitVars, anchors, journal, nextNote, notes, forecast, histVars, boundVars>>
(* A step that writes the journal, and one that works on the repository.   *)
Journals == UNCHANGED <<gitVars, anchors, nextNote, notes, forecast, histVars, boundVars>>
Works == UNCHANGED <<anchors, journal, nextNote, notes, forecast, histVars, boundVars>>

Mapped(o, p) == IF p = NoCommit THEN o.onto ELSE o.rewritten[p]
NextStep == op.queue[op.next]
MoreSteps == op.next <= Len(op.queue)

(* Mutant: an approval is taken wherever main is by now.                   *)
Approved_SameQueue(queue, overlay) == forecast.overlay = overlay /\ forecast.queue = queue

(* rebaseForecastForPlan: the approval is for these heads and this queue.  *)
Approved(queue, overlay) ==
    /\ forecast.overlay = overlay
    /\ forecast.head = HEAD /\ forecast.onto = tip["main"] /\ forecast.queue = queue

(* startRebaseInSession.  Candidates need an explicit acceptance; without  *)
(* an overlay the worktree must be clean, with one it must be the captured *)
(* draft exactly.  A forecast that is not used now is not used later.      *)
Begin(request, accept) ==
    LET onto == tip["main"]
        queue == Queue(HEAD, onto, request.program) IN
    /\ pc = "idle" /\ ~Pending /\ cp = NoCommit /\ mh = NoCommit /\ branch # "main"
    /\ Declarable(HEAD, onto, request.program)
    /\ accept = (Reviewed(queue) # {})
    /\ request.forecasted => Approved(queue, request.overlay)
    /\ wt = IF request.overlay = None THEN "clean" ELSE request.overlay
    /\ ops' = ops + 1 /\ undoing' = FALSE
    /\ Write([NoOperation EXCEPT
                !.id = ops + 1, !.branch = branch, !.orig = HEAD, !.onto = onto, !.queue = queue,
                !.rewritten = [c \in {queue[i].commit : i \in 1..Len(queue)} |-> NoCommit],
                !.overlay = request.overlay, !.forecast = request.forecasted])
    /\ Go(IF request.overlay = None THEN "reset" ELSE "reduce")
    /\ forecast' = IF request.forecasted THEN forecast ELSE NoForecast
    /\ UNCHANGED <<gitVars, anchors, nextNote, notes, meddled, dropped, asks, events>>

(* reduceToCommittedHead, before the reset that would strand the draft's   *)
(* untracked files.                                                        *)
RemoveDraftFiles ==
    /\ pc = "reduce" /\ wt' = "torn" /\ Go("reduced")
    /\ Works /\ UNCHANGED <<objs, headVars, cp, mh, index, op>>

ReduceToHead ==
    /\ pc = "reduced" /\ wt' = "clean" /\ Go("reset")
    /\ Works /\ UNCHANGED <<objs, headVars, cp, mh, index, op>>

ResetOnto ==
    /\ pc = "reset" /\ tip' = [tip EXCEPT ![branch] = op.onto]
    /\ wt' = "clean" /\ index' = {} /\ Go("queue")
    /\ Works /\ UNCHANGED <<objs, branch, cp, mh, op>>

(* The journal learns of a step only after its ref and its commit exist.   *)
Keep(o) == op' = o /\ Go(IF Preserving(o) THEN "anchor" ELSE "advance")

(* A commit that collapses out of the line: only the mapping moves on.     *)
OmitStep ==
    /\ pc = "queue" /\ MoreSteps /\ NextStep.kind = "omit"
    /\ Keep([op EXCEPT !.rewritten[NextStep.commit] = Mapped(op, NextStep.parents[1]), !.next = @ + 1])
    /\ Thinks

(* A step states the parent it applies onto.                               *)
InPlace(o) == HEAD = Mapped(o, o.queue[o.next].parents[1])

PositionStep ==
    /\ pc = "queue" /\ MoreSteps /\ NextStep.kind # "omit" /\ ~InPlace(op)
    /\ tip' = [tip EXCEPT ![branch] = Mapped(op, NextStep.parents[1])]
    /\ wt' = "clean" /\ index' = {}
    /\ Works /\ UNCHANGED <<objs, branch, cp, mh, pc, op>>

BeginStep ==
    /\ pc = "queue" /\ MoreSteps /\ NextStep.kind # "omit" /\ InPlace(op)
    /\ Write([op EXCEPT !.state = "applying",
                !.current = [NoCurrent EXCEPT !.commit = NextStep.commit, !.before = HEAD,
                               !.joins = IF NextStep.kind = "merge" THEN Mapped(op, NextStep.parents[2])
                                                                   ELSE NoCommit]])
    /\ Go(NextStep.kind) /\ Journals

(* Applying a commit to HEAD; nothing to apply leaves Git's pick pending.  *)
Adds(c) == Delta(c) \ objs[HEAD].tree

PickApplies ==
    /\ pc = "pick" /\ Adds(op.current.commit) # {}
    /\ LET c == op.current.commit IN AddCommit(<<HEAD>>, objs[c].of, objs[c].named, Delta(c))
    /\ Go(IF NextStep.absorbs = <<>> THEN "finish" ELSE "absorb")
    /\ Works /\ UNCHANGED <<branch, treeVars, op>>

PickConflicts ==
    /\ pc = "pick" /\ Adds(op.current.commit) # {}
    /\ cp' = op.current.commit /\ wt' = "conflict" /\ index' = Adds(op.current.commit)
    /\ op' = [op EXCEPT !.state = "conflicted", !.current.conflicted = TRUE] /\ Go("paused")
    /\ Works /\ UNCHANGED <<objs, headVars, mh>>

(* An empty pick, or one or a merge that Git refuses to start.             *)
StepBlocked ==
    /\ pc = "pick" \/ (pc = "merge" /\ op.current.joins \notin objs[HEAD].past)
    /\ cp' = IF pc = "pick" /\ Adds(op.current.commit) = {} THEN op.current.commit ELSE cp
    /\ op' = [op EXCEPT !.state = "blocked"] /\ Go("paused")
    /\ Works /\ UNCHANGED <<objs, headVars, mh, wt, index>>

MergeApplies ==
    /\ pc = "merge" /\ op.current.joins \notin objs[HEAD].past
    /\ mh' = op.current.joins /\ index' = objs[op.current.joins].tree \ objs[HEAD].tree
    /\ wt' = "staged" /\ Go("join")
    /\ Works /\ UNCHANGED <<objs, headVars, cp, op>>

MergeConflicts ==
    /\ pc = "merge" /\ op.current.joins \notin objs[HEAD].past
    /\ mh' = op.current.joins /\ index' = objs[op.current.joins].tree \ objs[HEAD].tree
    /\ wt' = "conflict"
    /\ op' = [op EXCEPT !.state = "conflicted", !.current.conflicted = TRUE] /\ Go("paused")
    /\ Works /\ UNCHANGED <<objs, headVars, cp>>

(* Both parents became the same line: the person decides.                  *)
MergeJoinsNothing ==
    /\ pc = "merge" /\ op.current.joins \in objs[HEAD].past
    /\ op' = [op EXCEPT !.state = "blocked"] /\ Go("paused") /\ Thinks

(* Whatever stopped the step is journaled and left to the person; under a  *)
(* forecast a conflict it did not settle is a mismatch.                    *)
Pause ==
    /\ pc = "paused" /\ Stop
    /\ journal' = IF op.forecast /\ op.state = "conflicted" THEN [op EXCEPT !.state = "blocked"] ELSE op
    /\ UNCHANGED <<gitVars, anchors, notes, forecast, histVars, boundVars>>

(* applyForecastResolutions stages the approved results, journals them and *)
(* lets the pick or the join go on.                                        *)
ApplyForecast ==
    /\ pc = "paused" /\ op.forecast /\ op.state = "conflicted"
    /\ wt' = "staged" /\ journal' = op /\ Go("batch")
    /\ UNCHANGED <<objs, headVars, cp, mh, index, anchors, op, nextNote, notes, forecast, histVars, boundVars>>

(* markMismatch: trees that differ from the forecast's, or a batch that    *)
(* does not go through.                                                    *)
Mismatch ==
    /\ pc \in {"pick", "merge", "batch", "finish", "record", "record-join", "verify", "materialize"}
    /\ pc = "record" => op.current.conflicted
    /\ op.forecast /\ journal' = [op EXCEPT !.state = "blocked"] /\ Stop
    /\ UNCHANGED <<gitVars, anchors, notes, forecast, histVars, boundVars>>

(* `cherry-pick --continue`, for a batch or for a person; a fork gets an   *)
(* identity of its own.                                                    *)
ContinuePick ==
    /\ pc \in {"batch", "continue"} /\ NextStep.kind = "pick" /\ wt = "staged"
    /\ LET c == op.current.commit IN
         AddCommit(<<HEAD>>, objs[c].of, objs[c].named /\ ~op.current.fork, index)
    /\ cp' = NoCommit /\ wt' = "clean" /\ index' = {} /\ Go("record")
    /\ Works /\ UNCHANGED <<branch, mh, op>>

(* Mutant: the parents of a join swapped.                                  *)
CommitJoin_Swapped ==
    /\ pc \in {"join", "batch", "continue"} /\ NextStep.kind = "merge"
    /\ AddCommit(<<mh, HEAD>>, None, FALSE, index)
    /\ mh' = NoCommit /\ wt' = "clean" /\ index' = {} /\ Go("record-join")
    /\ Works /\ UNCHANGED <<branch, cp, op>>

(* commitRecreatedMerge: the join has the parents the plan states.         *)
CommitJoin ==
    /\ pc \in {"join", "batch", "continue"} /\ NextStep.kind = "merge"
    /\ AddCommit(<<HEAD, mh>>, None, FALSE, index)
    /\ mh' = NoCommit /\ wt' = "clean" /\ index' = {} /\ Go("record-join")
    /\ Works /\ UNCHANGED <<branch, cp, op>>

(* applyAbsorption and absorbOutstanding: what a survivor takes in is      *)
(* staged one commit at a time, the cursor being journaled after each.     *)
Item == NextStep.absorbs[op.current.cursor]
Outstanding == op.current.cursor <= Len(NextStep.absorbs)

BeginAbsorption ==
    /\ pc = "absorb" /\ op.current.cursor = 0
    /\ Write([op EXCEPT !.current.cursor = 1]) /\ Journals /\ UNCHANGED pc

(* Cleanly, or by the one exact resolution there is.                       *)
AbsorbApplies ==
    /\ pc = "absorb" /\ op.current.cursor > 0 /\ Outstanding
    /\ index' = index \cup Adds(Item)
    /\ wt' = IF index' = {} THEN wt ELSE "staged"
    /\ Go("cursor") /\ Works /\ UNCHANGED <<objs, headVars, cp, mh, op>>

AbsorbConflicts ==
    /\ pc = "absorb" /\ op.current.cursor > 0 /\ Outstanding /\ Adds(Item) # {}
    /\ index' = index \cup Adds(Item) /\ wt' = "conflict"
    /\ op' = [op EXCEPT !.state = "awaiting-absorption"] /\ Go("paused")
    /\ Works /\ UNCHANGED <<objs, headVars, cp, mh>>

AbsorbBlocked ==
    /\ pc = "absorb" /\ op.current.cursor > 0 /\ Outstanding
    /\ op' = [op EXCEPT !.state = "blocked"] /\ Go("paused") /\ Thinks

AdvanceCursor ==
    /\ pc = "cursor" /\ Write([op EXCEPT !.current.cursor = @ + 1]) /\ Go("absorb")
    /\ Journals

(* Mutant: what was staged becomes a commit after the survivor.            *)
Meld_OnTop ==
    /\ pc = "absorb" /\ op.current.cursor > 0 /\ ~Outstanding
    /\ AddCommit(<<HEAD>>, objs[op.current.commit].of, objs[op.current.commit].named, index)
    /\ wt' = "clean" /\ index' = {} /\ Go("finish")
    /\ Works /\ UNCHANGED <<branch, cp, mh, op>>

(* The survivor at HEAD is amended, under its one identity.                *)
Meld ==
    /\ pc = "absorb" /\ op.current.cursor > 0 /\ ~Outstanding
    /\ Amend(objs[op.current.commit].of, objs[op.current.commit].named, index)
    /\ wt' = "clean" /\ index' = {} /\ Go("finish")
    /\ Works /\ UNCHANGED <<branch, cp, mh, op>>

(* finishSurvivingStep: a reword or an edit now waits for the person.      *)
FinishStep ==
    /\ pc = "finish"
    /\ IF NextStep.action \in {"reword", "edit"}
       THEN /\ op' = [op EXCEPT !.current.treeBefore = objs[HEAD].tree,
                        !.state = IF NextStep.action = "reword" THEN "awaiting-message"
                                                                ELSE "awaiting-content"]
            /\ Go("paused")
       ELSE Go("record") /\ UNCHANGED op
    /\ Thinks

(* applicationRecord: but for a fork, the commit at HEAD kept the identity.*)
IdentityKept(o) ==
    LET c == o.current.commit IN objs[c].named /\ ~o.current.fork => SameName(c, HEAD)

Elements(s) == {s[i] : i \in 1..Len(s)}

Recorded(o) ==
    LET c == o.current.commit IN
    [o EXCEPT !.applied = Append(@, [origin |-> c, commit |-> HEAD, fork |-> o.current.fork]),
              !.absorptions = IF o.current.cursor = 0 THEN @ ELSE
                 Append(@, [survivor |-> HEAD, absorbed |-> Elements(o.queue[o.next].absorbs)]),
              !.rewritten[c] = HEAD, !.next = @ + 1,
              !.current = NoCurrent, !.state = "applying"]

(* recordSuccessfulApplication, in memory.  After a conflict it comes      *)
(* straight here, whatever the step was still to absorb.                   *)
RecordApplication ==
    /\ pc = "record"
    /\ IF IdentityKept(op) THEN Keep(Recorded(op))
       ELSE op' = [op EXCEPT !.state = "blocked"] /\ Go("paused")
    /\ dropped' = IF NextStep.absorbs # <<>> /\ op.current.cursor = 0 THEN dropped \cup {op.id} ELSE dropped
    /\ UNCHANGED <<gitVars, anchors, journal, nextNote, notes, forecast, undoing, meddled, boundVars>>

(* recordRecreatedMerge, in memory: a join is no application.              *)
RecordJoin ==
    /\ pc = "record-join"
    /\ LET c == op.current.commit IN
         Keep([op EXCEPT !.joins = Append(@, [origin |-> c, commit |-> HEAD,
                                              parents |-> <<op.current.before, op.current.joins>>]),
                         !.rewritten[c] = HEAD, !.next = @ + 1,
                         !.current = NoCurrent, !.state = "applying"])
    /\ Thinks

(* Mutants: no ref; the name is taken from the journal, which does not     *)
(* know the commit yet.                                                    *)
Anchored_None(o, c) == {}
Anchored_FromJournal(o, c) == {<<o.id, c, journal.rewritten[c]>>}

(* anchorRewritten: a line that is left before it is joined is named by a  *)
(* ref of the operation's own.                                             *)
Anchored(o, c) == {<<o.id, c, o.rewritten[c]>>}

AnchorStep ==
    /\ pc = "anchor"
    /\ LET c == op.queue[op.next - 1].commit IN
         anchors' = {a \in anchors : a[1] # op.id \/ a[2] # c} \cup Anchored(op, c)
    /\ Go("advance")
    /\ UNCHANGED <<gitVars, journal, op, nextNote, notes, forecast, histVars, boundVars>>

Advance ==
    /\ pc = "advance" /\ journal' = op /\ Go("queue")
    /\ UNCHANGED <<gitVars, anchors, op, nextNote, notes, forecast, histVars, boundVars>>

-----------------------------------------------------------------------------
(* finalizeRebase.                                                         *)

QueueDone == pc = "queue" /\ ~MoreSteps /\ Go("verify") /\ Thinks /\ UNCHANGED op

Verified ==
    /\ pc = "verify" /\ nextNote' = 1
    /\ Go(IF op.overlay = None THEN "publish" ELSE "materialize")
    /\ UNCHANGED <<gitVars, anchors, journal, op, notes, forecast, histVars, boundVars>>

MaterializeOverlay ==
    /\ pc = "materialize" /\ wt' = "merged" /\ Go("remat")
    /\ Works /\ UNCHANGED <<objs, headVars, cp, mh, index, op>>

RecordOverlay ==
    /\ pc = "remat" /\ Write([op EXCEPT !.remat = TRUE]) /\ Go("publish") /\ Journals

OverlayMismatch ==
    /\ pc = "remat" /\ journal' = [op EXCEPT !.remat = TRUE, !.state = "blocked"] /\ Stop
    /\ UNCHANGED <<gitVars, anchors, notes, forecast, histVars, boundVars>>

(* Mutant: forks count as coverage of the change they were forked from.    *)
Absorbed_WithForks(o) ==
    {c \in {o.queue[i].commit : i \in 1..Len(o.queue)} : ~IsMerge(c)}

(* Every change of the plan, but for explicit forks; never a merge.        *)
Absorbed(o) ==
    {c \in {o.queue[i].commit : i \in 1..Len(o.queue)} :
        ~IsMerge(c) /\ ~\E i \in 1..Len(o.applied) : o.applied[i].origin = c /\ o.applied[i].fork}

Receipt(o) == [type |-> "rebase", op |-> o.id, onto |-> o.onto, result |-> HEAD,
               absorbed |-> Absorbed(o), accepted |-> Reviewed(o.queue),
               applied |-> o.applied, joins |-> o.joins]

(* Mutant: the receipt first, then what it names.                          *)
Publication_ReceiptFirst(o) ==
    <<Receipt(o)>>
    \o [i \in 1..Len(o.applied) |-> [type |-> "application", op |-> o.id, app |-> o.applied[i]]]

(* The order of publication (the resolutions that applications and joins   *)
(* used, and carried provenance, are left out): the receipt comes last.    *)
Publication(o) ==
    [i \in 1..Len(o.applied) |-> [type |-> "application", op |-> o.id, app |-> o.applied[i]]]
    \o [i \in 1..Len(o.amendments) |-> [type |-> "amendment", op |-> o.id, of |-> o.amendments[i].of,
            commit |-> o.amendments[i].commit, origin |-> o.amendments[i].origin]]
    \o [i \in 1..Len(o.absorptions) |-> [type |-> "absorption", op |-> o.id,
            survivor |-> o.absorptions[i].survivor, absorbed |-> o.absorptions[i].absorbed]]
    \o <<Receipt(o)>>

Publish ==
    /\ pc = "publish"
    /\ notes' = Append(notes, Publication(op)[nextNote]) /\ nextNote' = nextNote + 1
    /\ Go(IF nextNote = Len(Publication(op)) THEN "release" ELSE "publish")
    /\ UNCHANGED <<gitVars, anchors, journal, op, forecast, histVars, boundVars>>

(* releaseAnchors, of a finished or of an aborted operation: the refs its  *)
(* mapping knows of.                                                       *)
ReleaseAnchors ==
    /\ pc \in {"release", "undone"}
    /\ anchors' = {a \in anchors : ~(/\ a[1] = op.id /\ a[2] \in DOMAIN op.rewritten
                                     /\ op.rewritten[a[2]] # NoCommit)}
    /\ Go(IF pc = "release" THEN "clear" ELSE "forget")
    /\ UNCHANGED <<gitVars, journal, op, nextNote, notes, forecast, histVars, boundVars>>

ClearJournal ==
    /\ pc = "clear" /\ journal' = NoOperation /\ Stop
    /\ UNCHANGED <<gitVars, anchors, notes, forecast, histVars, boundVars>>

-----------------------------------------------------------------------------
(* `--continue` and `--abort`.                                             *)

(* requireOperationBranch.                                                 *)
OnBranch(o) == branch = o.branch

(* Mutant: Git's pending pick or merge is not compared with the journal's. *)
PendingInGit_Any(o) == TRUE

(* What Git has pending is what the journal names.                         *)
PendingInGit(o) ==
    IF o.queue[o.next].kind = "merge" THEN mh # NoCommit /\ mh = o.current.joins
                                      ELSE cp # NoCommit /\ cp = o.current.commit

Continuable(o) ==
    /\ OnBranch(o) /\ wt # "conflict"
    /\ \/ o.state = "conflicted" /\ PendingInGit(o)
       \/ o.state \in {"awaiting-message", "awaiting-content"} /\ cp = NoCommit /\ mh = NoCommit
       \/ o.state = "awaiting-absorption"

(* Nothing in the journal tells an abort that was cut short.               *)
Resumes(label) ==
    /\ pc = "idle" /\ Pending /\ Continuable(journal)
    /\ meddled' = (meddled \/ undoing)
    /\ Go(label)
    /\ UNCHANGED <<gitVars, anchors, nextNote, notes, forecast, undoing, dropped, boundVars>>

(* continueRebaseInSession; a join cannot be forked.                       *)
ContinueConflict(fork) ==
    /\ Resumes("continue") /\ journal.state = "conflicted"
    /\ fork => journal.queue[journal.next].kind = "pick"
    /\ Write([journal EXCEPT !.current.fork = @ \/ fork])

ContinueMessage ==
    /\ Resumes("reword") /\ journal.state = "awaiting-message"
    /\ op' = journal /\ UNCHANGED journal

ContinueContent ==
    /\ Resumes("edit") /\ journal.state = "awaiting-content"
    /\ op' = journal /\ UNCHANGED journal

(* completeAbsorption: the change that conflicted is folded in now.        *)
ContinueAbsorption ==
    /\ Resumes("absorb") /\ journal.state = "awaiting-absorption"
    /\ Write([journal EXCEPT !.current.cursor = @ + 1, !.state = "applying"])

(* A new message, which takes whatever is staged: a tree that moved blocks *)
(* the operation.                                                          *)
Staged(c) == IF wt = "edited" THEN {Edited(objs[c].of)} ELSE {}

RewordStep ==
    /\ pc = "reword"
    /\ LET c == op.current.commit IN
         /\ Amend(objs[c].of, objs[c].named, Staged(c))
         /\ IF objs[HEAD].tree \cup Staged(c) = op.current.treeBefore
            THEN Go("record") /\ UNCHANGED op
            ELSE Go("paused") /\ op' = [op EXCEPT !.state = "blocked"]
    /\ wt' = IF wt = "edited" THEN "clean" ELSE wt
    /\ Works /\ UNCHANGED <<branch, cp, mh, index>>

(* Mutant: the edit is compared with what HEAD held when it was resumed.   *)
Diverged_FromHead(o, tree) == tree # objs[HEAD].tree

(* Has the tree moved since the pause?                                     *)
Diverged(o, tree) == tree # o.current.treeBefore

EditStep ==
    /\ pc = "edit"
    /\ LET c == op.current.commit
           tree == objs[HEAD].tree \cup Staged(c) IN
         /\ Amend(objs[HEAD].of, objs[HEAD].named, Staged(c))
         /\ op' = IF Diverged(op, tree)
                  THEN [op EXCEPT !.amendments =
                          Append(@, [of |-> objs[c].of, commit |-> New, origin |-> c])]
                  ELSE op
    /\ wt' = IF wt = "edited" THEN "clean" ELSE wt
    /\ Go("record") /\ Works /\ UNCHANGED <<branch, cp, mh, index>>

(* Git refuses a commit: the command ends, and the journal stays as it is. *)
CommitFails ==
    /\ \/ pc \in {"join", "continue", "reword", "edit"}
       \/ pc = "absorb" /\ op.current.cursor > 0 /\ ~Outstanding
    /\ Stop
    /\ UNCHANGED <<gitVars, anchors, journal, notes, forecast, histVars, boundVars>>

(* Mutant: the state of an absorption is not known to abort.               *)
Disposable_PicksOnly(o) == cp # NoCommit \/ mh # NoCommit \/ o.remat \/ wt = "clean"

(* The worktree holds nothing an abort could cost the person: Git's own    *)
(* pick or merge, an absorption, nothing, or the draft put back.           *)
Disposable(o) ==
    cp # NoCommit \/ mh # NoCommit \/ o.state = "awaiting-absorption" \/ o.remat \/ wt = "clean"

(* abortRebase, up to the reset: Git's own pick or merge is aborted first. *)
Abort ==
    /\ pc = "idle" /\ Pending /\ OnBranch(journal) /\ Disposable(journal)
    /\ cp' = NoCommit /\ mh' = NoCommit
    /\ IF cp # NoCommit \/ mh # NoCommit THEN wt' = "clean" /\ index' = {} ELSE UNCHANGED <<wt, index>>
    /\ op' = journal /\ undoing' = TRUE /\ Go("undo")
    /\ UNCHANGED <<objs, headVars, anchors, journal, nextNote, notes, forecast, meddled, dropped, boundVars>>

(* Mutant: the journal, not Git, says whether there is anything to undo.   *)
AbortReset_ByJournal ==
    /\ pc = "undo" /\ Go("restore")
    /\ IF op.applied = <<>> THEN UNCHANGED <<tip, wt, index>>
       ELSE /\ tip' = [tip EXCEPT ![branch] = op.orig] /\ index' = {}
            /\ wt' \in {"clean"} \cup (IF wt = "merged" THEN {"torn"} ELSE {})
    /\ Works /\ UNCHANGED <<objs, branch, cp, mh, op>>

(* The hard reset leaves the untracked files of a draft where they are.    *)
AbortReset ==
    /\ pc = "undo" /\ Go("restore")
    /\ IF HEAD = op.orig THEN UNCHANGED <<tip, wt, index>>
       ELSE /\ tip' = [tip EXCEPT ![branch] = op.orig] /\ index' = {}
            /\ wt' \in {"clean"} \cup (IF wt = "merged" THEN {"torn"} ELSE {})
    /\ Works /\ UNCHANGED <<objs, branch, cp, mh, op>>

(* The committed tip first, then the draft, and the anchors last.          *)
AbortRestore ==
    /\ pc = "restore" /\ Go("undone")
    /\ wt' = IF op.overlay = None THEN wt ELSE op.overlay
    /\ Works /\ UNCHANGED <<objs, headVars, cp, mh, index, op>>

AbortClear ==
    /\ pc = "forget" /\ journal' = NoOperation /\ undoing' = FALSE /\ Stop
    /\ UNCHANGED <<gitVars, anchors, notes, forecast, meddled, dropped, boundVars>>

(* A kill: the journal stays as it was last written.                       *)
Crash ==
    /\ pc # "idle" /\ events < MaxEvents
    /\ events' = events + 1 /\ Stop
    /\ UNCHANGED <<gitVars, anchors, journal, notes, forecast, histVars, asks, ops>>

(* forecastRebase, complete: a program with an edit never is, and nothing  *)
(* is forecast while an operation is pending.                              *)
Forecast(request) ==
    /\ pc = "idle" /\ ~Pending /\ branch # "main" /\ request.forecasted
    /\ Declarable(HEAD, tip["main"], request.program)
    /\ \A x \in Change : request.program.action[x] # "edit"
    /\ wt = IF request.overlay = None THEN "clean" ELSE request.overlay
    /\ forecast' = [head |-> HEAD, onto |-> tip["main"],
                    queue |-> Queue(HEAD, tip["main"], request.program), overlay |-> request.overlay]
    /\ UNCHANGED <<gitVars, anchors, journal, procVars, notes, histVars, boundVars>>

-----------------------------------------------------------------------------
(* The person, between commands.                                           *)

AtRest == pc = "idle"
Outside == UNCHANGED <<anchors, journal, procVars, notes, forecast, undoing, dropped, asks, ops>>
Acts == AtRest /\ events < MaxEvents /\ events' = events + 1 /\ Outside
(* What is ordinary between operations is not counted.                     *)
ActsIf(ordinary) == IF ordinary THEN AtRest /\ Outside /\ UNCHANGED events ELSE Acts

Paused == Pending /\ OnBranch(journal)
             /\ journal.state \in {"awaiting-message", "awaiting-content", "awaiting-absorption"}

Resolve ==
    /\ AtRest /\ wt = "conflict" /\ wt' = "staged" /\ Outside
    /\ UNCHANGED <<objs, headVars, cp, mh, index, meddled, events>>

(* git cherry-pick --continue, git merge --continue or git commit, behind  *)
(* causet's back.                                                          *)
GitContinue ==
    /\ Acts /\ {cp, mh} # {NoCommit} /\ wt = "staged"
    /\ IF cp # NoCommit THEN AddCommit(<<HEAD>>, objs[cp].of, objs[cp].named, index)
                        ELSE AddCommit(<<HEAD, mh>>, None, FALSE, index)
    /\ cp' = NoCommit /\ mh' = NoCommit /\ wt' = "clean" /\ index' = {}
    /\ UNCHANGED <<branch, meddled>>

(* git cherry-pick --abort or --skip, git merge --abort.                   *)
GitAbandon ==
    /\ Acts /\ {cp, mh} # {NoCommit}
    /\ cp' = NoCommit /\ mh' = NoCommit /\ wt' = "clean" /\ index' = {}
    /\ UNCHANGED <<objs, headVars, meddled>>

(* What an absorption staged is committed by hand, or thrown away.         *)
CommitAbsorbed ==
    /\ Acts /\ Paused /\ wt = "staged" /\ cp = NoCommit /\ mh = NoCommit
    /\ AddCommit(<<HEAD>>, None, FALSE, index)
    /\ wt' = "clean" /\ index' = {} /\ meddled' = TRUE /\ UNCHANGED <<branch, cp, mh>>

ThrowAway ==
    /\ Acts /\ Paused /\ wt \in {"conflict", "staged"} /\ cp = NoCommit /\ mh = NoCommit
    /\ wt' = "clean" /\ index' = {} /\ meddled' = TRUE /\ UNCHANGED <<objs, headVars, cp, mh>>

(* git checkout -f, which also drops what is pending.                      *)
Checkout(b) ==
    /\ ActsIf(~Pending) /\ b # branch /\ b # "main" /\ wt \in {"clean", "conflict", "staged"}
    /\ branch' = b /\ cp' = NoCommit /\ mh' = NoCommit /\ wt' = "clean" /\ index' = {}
    /\ meddled' = (meddled \/ (Paused /\ index # {})) /\ UNCHANGED <<objs, tip>>

CommitOwn ==
    /\ Acts /\ wt = "clean" /\ cp = NoCommit /\ mh = NoCommit /\ branch # "main"
    /\ AsWritten(None) \notin objs[HEAD].tree
    /\ AddCommit(<<HEAD>>, None, FALSE, {AsWritten(None)})
    /\ meddled' = (meddled \/ Paused) /\ UNCHANGED <<branch, treeVars>>

Edit ==
    /\ ActsIf(Pending /\ OnBranch(journal) /\ journal.state = "awaiting-content")
    /\ wt = "clean" /\ cp = NoCommit /\ mh = NoCommit
    /\ wt' = "edited" /\ UNCHANGED <<objs, headVars, cp, mh, index, meddled>>

(* A draft is written and captured with `workspace checkpoint`.            *)
CaptureDraft ==
    /\ ActsIf(TRUE) /\ wt = "clean" /\ ~Pending
    /\ ops < Len(asks) /\ \E request \in asks[ops + 1] : request.overlay = "draft"
    /\ wt' = "draft" /\ UNCHANGED <<objs, headVars, cp, mh, index, meddled>>

(* Main moves: somebody else's commit, or a branch that is fast-forwarded  *)
(* into it.                                                                *)
MainMoves ==
    /\ Acts /\ objs' = Append(objs, Made(objs, <<tip["main"]>>, None, FALSE, {}))
    /\ tip' = [tip EXCEPT !["main"] = New] /\ UNCHANGED <<branch, treeVars, meddled>>

Land(b) ==
    /\ ActsIf(~Pending) /\ b # "main" /\ ~(Pending /\ journal.branch = b)
    /\ tip["main"] # tip[b] /\ tip["main"] \in objs[tip[b]].past
    /\ tip' = [tip EXCEPT !["main"] = tip[b]] /\ UNCHANGED <<objs, branch, treeVars, meddled>>

(* The person puts the worktree in order, or goes back to the branch.      *)
CleanUp ==
    /\ AtRest /\ wt # "clean" /\ cp = NoCommit /\ mh = NoCommit
    /\ ~(Paused /\ wt \in {"conflict", "staged"})
    /\ wt' = "clean" /\ index' = {} /\ Outside
    /\ UNCHANGED <<objs, headVars, cp, mh, meddled, events>>

GoBack ==
    /\ AtRest /\ Pending /\ branch # journal.branch /\ wt = "clean"
    /\ branch' = journal.branch /\ Outside
    /\ UNCHANGED <<objs, tip, treeVars, meddled, events>>

-----------------------------------------------------------------------------

CommandStep ==
    \/ RemoveDraftFiles \/ ReduceToHead \/ ResetOnto
    \/ OmitStep \/ PositionStep \/ BeginStep
    \/ PickApplies \/ PickConflicts \/ StepBlocked
    \/ MergeApplies \/ MergeConflicts \/ MergeJoinsNothing
    \/ Pause \/ ApplyForecast \/ Mismatch \/ ContinuePick \/ CommitJoin
    \/ BeginAbsorption \/ AbsorbApplies \/ AbsorbConflicts \/ AbsorbBlocked \/ AdvanceCursor \/ Meld
    \/ FinishStep \/ RecordApplication \/ RecordJoin \/ AnchorStep \/ Advance
    \/ QueueDone \/ Verified \/ MaterializeOverlay \/ RecordOverlay \/ OverlayMismatch
    \/ Publish \/ ReleaseAnchors \/ ClearJournal
    \/ RewordStep \/ EditStep \/ CommitFails
    \/ AbortReset \/ AbortRestore \/ AbortClear

PersonStep ==
    \/ Resolve \/ GitContinue \/ GitAbandon \/ CommitAbsorbed \/ ThrowAway
    \/ (\E b \in Branch : Checkout(b) \/ Land(b))
    \/ CommitOwn \/ Edit \/ CaptureDraft \/ MainMoves \/ CleanUp \/ GoBack

Begins == ops < Len(asks) /\ \E request \in asks[ops + 1], accept \in BOOLEAN : Begin(request, accept)
Forecasts == ops < Len(asks) /\ \E request \in asks[ops + 1] : Forecast(request)

Continues ==
    \/ \E fork \in BOOLEAN : ContinueConflict(fork)
    \/ ContinueMessage \/ ContinueContent \/ ContinueAbsorption

Next ==
    \/ Begins \/ Forecasts \/ Continues \/ Abort \/ CommandStep \/ Crash \/ PersonStep

Spec == Init /\ [][Next]_vars

(* A command that was started goes on, and a person who wants to be rid of *)
(* an operation cleans up, goes back to its branch and keeps asking for    *)
(* the abort.                                                              *)
FairSpec == Spec /\ WF_vars(CommandStep) /\ SF_vars(Abort) /\ SF_vars(CleanUp) /\ SF_vars(GoBack)

-----------------------------------------------------------------------------
(* "A journal never claims more progress than Git actually made": where    *)
(* `--continue` would be accepted, HEAD is where the journal's step left   *)
(* it, and everything the cursor counts as absorbed is in HEAD or staged - *)
(* unless the person worked on a pause, or an abort was cut short.         *)
JournalHonest ==
    AtRest /\ Pending /\ ~meddled /\ ~undoing /\ Continuable(journal) =>
        LET cur == journal.current
            step == journal.queue[journal.next] IN
        /\ journal.state = "conflicted" => HEAD = cur.before
        /\ journal.state # "conflicted" => objs[HEAD].parents = <<cur.before>>
        /\ \A k \in 1..cur.cursor : k <= Len(step.absorbs) =>
              Delta(step.absorbs[k]) \subseteq objs[HEAD].tree \cup index

(* "Keep every rewritten commit named by a ref": while an operation can    *)
(* still go on, no commit its mapping names is left to the reflog alone,   *)
(* also after a kill between any two of its steps.                         *)
Reachable == UNION {objs[c].past : c \in {tip[b] : b \in Branch} \cup {a[3] : a \in anchors}}

AnchorsHold ==
    Pending /\ ~undoing =>
        \A c \in DOMAIN journal.rewritten : journal.rewritten[c] \in Reachable \cup {NoCommit}

(* "The recreation keeps the parent order": when a receipt is published,   *)
(* every rewritten commit has the parents that replaced its original's,    *)
(* and the result is the rewritten head of the branch, on the new base.    *)
Publishes == Len(notes') > Len(notes) /\ notes'[Len(notes')].type = "rebase"

TopologyKept ==
    [][Publishes /\ ~meddled =>
        /\ op.onto \in objs[HEAD].past
        /\ op.queue # <<>> => HEAD = op.rewritten[op.queue[Len(op.queue)].commit]
        /\ \A i \in 1..Len(op.queue) : LET step == op.queue[i] IN
              step.kind # "omit" =>
                 /\ Len(objs[op.rewritten[step.commit]].parents) = Len(step.parents)
                 /\ \A k \in 1..Len(step.parents) :
                       objs[op.rewritten[step.commit]].parents[k] = Mapped(op, step.parents[k])]_vars

(* "squash and fixup leave exactly one trailer on the surviving commit",   *)
(* and no interruption makes a second one: no branch ever holds two        *)
(* commits with one Change-Id - unless the person committed at a pause.    *)
OneIdentity ==
    ~meddled => \A b \in Branch : \A c, d \in objs[tip[b]].past : SameName(c, d) => c = d

(* Whatever a receipt calls absorbed is in the tree of its result, and is  *)
(* named there by its Change-Id, by an absorption record or by an accepted *)
(* candidate - but for a survivor that conflicted (see AbsorbedKept), and  *)
(* for the edit of a change that a published amendment is about, which a   *)
(* Change-Id match does not see (see AmendedKept).                         *)
Traced(r, c) ==
    \/ c \in r.accepted \/ ~objs[c].named
    \/ \E d \in objs[r.result].past : SameName(c, d)
    \/ \E n \in Published : /\ n.type = "absorption" /\ c \in n.absorbed
                            /\ n.survivor \in objs[r.result].past
    \/ \E q \in ReceiptsIn(r.onto) : c \in q.absorbed

(* The edit that a published amendment tells of.                           *)
Divergent(c) ==
    {Edited(n.of) : n \in {m \in Published : m.type = "amendment" /\ m.of = objs[c].of}}

Truthful(r) ==
    \A c \in r.absorbed : Delta(c) \subseteq objs[r.result].tree /\ Traced(r, c)

CoverageTrue == ~meddled /\ dropped = {} => \A r \in Receipts : \A c \in r.absorbed :
    Delta(c) \ Divergent(c) \subseteq objs[r.result].tree /\ Traced(r, c)

(* "edit keeps the identity while changing what it contains, so it         *)
(* publishes an amendment": no receipt vouches for a commit with an edit   *)
(* that its original has not, under one name, without the record of the    *)
(* amendment published before it, or that of the absorption by which an    *)
(* edited commit came in - however often the edit was interrupted.         *)
DivergenceDeclared ==
    \A i \in 1..Len(notes) : notes[i].type = "rebase" /\ ~meddled =>
        \A k \in 1..Len(notes[i].applied) :
            LET app == notes[i].applied[k]
                x == objs[app.origin].of IN
            Edited(x) \in Delta(app.commit) \ Delta(app.origin) =>
                \E j \in 1..(i - 1) :
                    \/ /\ notes[j].type = "amendment"
                       /\ notes[j].commit = app.commit /\ notes[j].of = x
                    \/ /\ notes[j].type = "absorption" /\ notes[j].survivor = app.commit
                       /\ \E d \in notes[j].absorbed : Edited(x) \in Delta(d)

(* "No partial application receipts are shared before whole-operation      *)
(* success": a record of a pending operation means its queue is done, and  *)
(* a receipt comes after every record it names.                            *)
PublishedWhole ==
    \A i \in 1..Len(notes) : LET n == notes[i]
                                 Before == {notes[j] : j \in 1..(i - 1)} IN
        /\ Pending /\ journal.id = n.op => journal.next > Len(journal.queue)
        /\ n.type = "rebase" => \A k \in 1..Len(n.applied) :
              [type |-> "application", op |-> n.op, app |-> n.applied[k]] \in Before

(* Under a forecast nothing else than what was reviewed is published: from *)
(* the same head onto the same base, by the same program.                  *)
ForecastHonoured ==
    [][Publishes /\ op.forecast =>
        forecast.head = op.orig /\ forecast.onto = op.onto /\ forecast.queue = op.queue]_vars

(* An abort that completes leaves the branch where the operation found it, *)
(* nothing pending in Git and no anchor of a step the journal knows of; and*)
(* the worktree clean or with the captured draft, or with what the person  *)
(* edited after an abort that was cut short.  And it costs nobody work:    *)
(* edits a person made are not discarded by a command, but for the pause   *)
(* that asks for them, as long as the operation has not put a draft back   *)
(* itself (an absorption in progress is the operation's own).              *)
AbortRestores ==
    [][/\ pc = "forget" /\ journal' = NoOperation =>
            /\ tip[op.branch] = op.orig /\ {cp, mh} = {NoCommit}
            /\ ~meddled => /\ index = {}
                           /\ wt \in {IF op.overlay = None THEN "clean" ELSE op.overlay, "edited"}
            /\ \A a \in anchors : a[1] = op.id => op.rewritten[a[2]] = NoCommit
       /\ (wt = "edited" /\ wt' # "edited" /\ ~meddled
              /\ ~journal.remat /\ journal.state # "awaiting-absorption") =>
                (AtRest /\ pc' = "idle") \/ pc \in {"reword", "edit"}]_vars

(* No interruption strands an operation for good: a person who cleans up   *)
(* and asks for the abort gets out of it.                                  *)
EverySettles == Pending ~> ~Pending

-----------------------------------------------------------------------------
(* What the documentation says and the code does not do.                   *)

(* "squash and fixup land inside a surviving commit and leave it" and "a   *)
(* receipt is a claim about how the content was reached": a survivor whose *)
(* pick conflicted has what it was to absorb, as its receipt says.         *)
AbsorbedKept == ~meddled => \A r \in Receipts : Truthful(r)

(* "A reader that can see that record stops treating a bare Change-Id      *)
(* match for the identity as exact evidence": a commit with a published    *)
(* edit is not taken for one without it, and left out of its own branch    *)
(* while the receipt calls it absorbed.  (Survivors that conflicted are    *)
(* AbsorbedKept's.)                                                        *)
AmendedKept == ~meddled /\ dropped = {} => \A r \in Receipts : Truthful(r)
=============================================================================
