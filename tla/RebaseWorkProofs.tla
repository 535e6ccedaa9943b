-------------------------- MODULE RebaseWorkProofs --------------------------
(***************************************************************************)
(* More proofs about Rebase, for every history, every program and every    *)
(* bound: where the worktree, the branch and the commits made are what the *)
(* journal, an abort or a receipt says of them.                            *)
(***************************************************************************)
EXTENDS RebaseProofs

(* The command and the person.  What Git says of a pick or a merge in      *)
(* progress, which branch is checked out and what the journal says agree,  *)
(* wherever a command is killed: the ground of what follows.               *)
Still == cp = NoCommit /\ mh = NoCommit
Stops(o) ==
    IF o.queue[o.next].kind = "merge" THEN cp = NoCommit /\ mh = o.current.joins
                                      ELSE mh = NoCommit /\ cp = o.current.commit
Waiting == pc \in {"paused", "batch", "continue"} /\ op.state = "conflicted"
Listens == pc = "paused" /\ Awaits(op.state)
Home == tip[journal.branch]

Written == {"pick", "merge", "join", "batch", "absorb", "cursor", "finish", "continue", "reword", "edit"}

Settled ==
    /\ Pending => journal.branch # "main"
    /\ pc # "idle" => branch = journal.branch
    /\ pc \notin {"idle"} \cup Undoing /\ undoing => meddled
    /\ pc \notin {"idle", "join", "paused", "batch", "continue"} \/ Listens => Still
    /\ pc \in {"pick", "merge", "join"} \/ Waiting => HEAD = op.current.before /\ op.current.cursor = 0
    /\ pc = "join" => NextStep.kind = "merge"
    /\ pc = "join" \/ Waiting => Stops(op)
    /\ journal.state = "conflicted" =>
          /\ Still \/ (Stops(journal) /\ Home = journal.current.before /\ branch = journal.branch)
          /\ journal.current.cursor = 0
    /\ Awaits(journal.state) => Still
    /\ pc \in {"restore", "undone", "forget"} => HEAD = op.orig
    /\ pc \in Written => journal = op
    /\ pc \in {"pick", "merge", "join", "absorb", "cursor", "finish"} => op.state = "applying"
    /\ pc \in {"batch", "continue"} => op.state = "conflicted"
    /\ journal.state = "awaiting-absorption" => pc \in {"idle"} \cup Undoing

(* The same progress of the same operation, whatever its state.            *)
Turned(o, p) ==
    /\ Unmoved(o, p)
    /\ p.current.commit = o.current.commit /\ p.current.before = o.current.before
    /\ p.current.joins = o.current.joins

LEMMA TurnedSame ==
    ASSUME NEW o, NEW p, Turned(o, p)
    PROVE  Same(o, p) /\ p.next = o.next /\ p.rewritten = o.rewritten
  BY DEF Turned, Unmoved

(* What the steps of a command make of the operation it has in memory.     *)
LEMMA StepsTurn ==
    ASSUME TypesIInv, pc # "idle"
    PROVE  /\ PickConflicts \/ MergeConflicts =>
                 /\ Turned(op, op') /\ op'.state = "conflicted" /\ op'.current.cursor = op.current.cursor
                 /\ op'.remat = op.remat /\ op'.amendments = op.amendments
           /\ StepBlocked \/ MergeJoinsNothing \/ AbsorbBlocked =>
                 /\ Turned(op, op') /\ op'.state = "blocked" /\ op'.current = op.current
                 /\ op'.remat = op.remat /\ op'.amendments = op.amendments
           /\ AbsorbConflicts =>
                 /\ Turned(op, op') /\ op'.state = "awaiting-absorption" /\ op'.current = op.current
                 /\ op'.remat = op.remat /\ op'.amendments = op.amendments
           /\ BeginAbsorption =>
                 /\ Turned(op, op') /\ op'.state = op.state /\ op'.current.cursor = 1
                 /\ op'.remat = op.remat /\ op'.amendments = op.amendments
           /\ AdvanceCursor =>
                 /\ Turned(op, op') /\ op'.state = op.state /\ op'.current.cursor = op.current.cursor + 1
                 /\ op'.remat = op.remat /\ op'.amendments = op.amendments
           /\ FinishStep /\ pc' = "paused" =>
                 /\ Turned(op, op') /\ op'.state \in {"awaiting-message", "awaiting-content"}
                 /\ op'.current.cursor = op.current.cursor /\ op'.current.treeBefore = objs[HEAD].tree
                 /\ op'.remat = op.remat /\ op'.amendments = op.amendments
           /\ (RewordStep \/ RecordApplication) /\ pc' = "paused" =>
                 /\ Turned(op, op') /\ op'.state = "blocked" /\ op'.current = op.current
                 /\ op'.remat = op.remat /\ op'.amendments = op.amendments
           /\ EditStep =>
                 /\ Turned(op, op') /\ op'.state = op.state /\ op'.current = op.current /\ op'.remat = op.remat
                 /\ \/ op'.amendments = op.amendments
                    \/ /\ Diverged(op, objs[HEAD].tree \cup Staged(op.current.commit))
                       /\ op'.amendments = Append(op.amendments, [of |-> objs[op.current.commit].of,
                                              commit |-> New, origin |-> op.current.commit])
           /\ RecordOverlay =>
                 /\ Turned(op, op') /\ op'.state = op.state /\ op'.current = op.current /\ op'.remat = TRUE
                 /\ op'.amendments = op.amendments
           /\ Pause \/ Mismatch =>
                 /\ Turned(op, journal') /\ journal'.current = op.current
                 /\ journal'.remat = op.remat /\ journal'.amendments = op.amendments
                 /\ journal'.state = "blocked" \/ (journal' = op /\ pc = "paused")
           /\ OverlayMismatch =>
                 /\ Turned(op, journal') /\ journal'.state = "blocked" /\ journal'.current = op.current
                 /\ journal'.remat = TRUE /\ journal'.amendments = op.amendments
  <1>1. Sound(op) /\ op.current \in Current
    BY OperationTrue DEF Typed
  <1> USE <1>1 DEF Sound, Shaped, Same, Current, Turned, Unmoved, Write, Keep
  <1>2. ASSUME PickConflicts \/ MergeConflicts
        PROVE  /\ Turned(op, op') /\ op'.state = "conflicted" /\ op'.current.cursor = op.current.cursor
               /\ op'.remat = op.remat /\ op'.amendments = op.amendments
    <2>1. op' = [op EXCEPT !.state = "conflicted", !.current.conflicted = TRUE]
      BY <1>2, Zenon DEF PickConflicts, MergeConflicts
    <2>2. QED
      BY <2>1
  <1>3. ASSUME StepBlocked \/ MergeJoinsNothing \/ AbsorbBlocked \/ ((RewordStep \/ RecordApplication) /\ pc' = "paused")
        PROVE  /\ Turned(op, op') /\ op'.state = "blocked" /\ op'.current = op.current
               /\ op'.remat = op.remat /\ op'.amendments = op.amendments
    <2>1. op' = [op EXCEPT !.state = "blocked"]
      BY <1>3, Zenon DEF StepBlocked, MergeJoinsNothing, AbsorbBlocked, RewordStep, RecordApplication, Go
    <2>2. QED
      BY <2>1
  <1>4. ASSUME AbsorbConflicts
        PROVE  /\ Turned(op, op') /\ op'.state = "awaiting-absorption" /\ op'.current = op.current
               /\ op'.remat = op.remat /\ op'.amendments = op.amendments
    BY <1>4 DEF AbsorbConflicts
  <1>5. ASSUME BeginAbsorption
        PROVE  /\ Turned(op, op') /\ op'.state = op.state /\ op'.current.cursor = 1
               /\ op'.remat = op.remat /\ op'.amendments = op.amendments
    BY <1>5 DEF BeginAbsorption
  <1>6. ASSUME AdvanceCursor
        PROVE  /\ Turned(op, op') /\ op'.state = op.state /\ op'.current.cursor = op.current.cursor + 1
               /\ op'.remat = op.remat /\ op'.amendments = op.amendments
    BY <1>6 DEF AdvanceCursor
  <1>7. ASSUME FinishStep, pc' = "paused"
        PROVE  /\ Turned(op, op') /\ op'.state \in {"awaiting-message", "awaiting-content"}
               /\ op'.current.cursor = op.current.cursor /\ op'.current.treeBefore = objs[HEAD].tree
               /\ op'.remat = op.remat /\ op'.amendments = op.amendments
    <2> DEFINE t == objs[HEAD].tree
               v == IF NextStep.action = "reword" THEN "awaiting-message" ELSE "awaiting-content"
    <2>1. op' = [op EXCEPT !.current.treeBefore = t, !.state = v] /\ v \in {"awaiting-message", "awaiting-content"}
      BY <1>7, Zenon DEF FinishStep, Go
    <2> HIDE DEF t, v
    <2>2. Turned(op, op') /\ op'.state = v /\ op'.current.cursor = op.current.cursor /\ op'.current.treeBefore = t
          /\ op'.remat = op.remat /\ op'.amendments = op.amendments
      BY <2>1
    <2>3. QED
      BY <2>1, <2>2, Zenon DEF t
  <1>8. ASSUME EditStep
        PROVE  /\ Turned(op, op') /\ op'.state = op.state /\ op'.current = op.current /\ op'.remat = op.remat
               /\ \/ op'.amendments = op.amendments
                  \/ /\ Diverged(op, objs[HEAD].tree \cup Staged(op.current.commit))
                     /\ op'.amendments = Append(op.amendments, [of |-> objs[op.current.commit].of,
                                            commit |-> New, origin |-> op.current.commit])
    <2> DEFINE e == [of |-> objs[op.current.commit].of, commit |-> New, origin |-> op.current.commit]
               D == Diverged(op, objs[HEAD].tree \cup Staged(op.current.commit))
    <2>1. op' = op \/ (D /\ op' = [op EXCEPT !.amendments = Append(@, e)])
      BY <1>8, Zenon DEF EditStep
    <2> HIDE DEF e, D
    <2>2. Turned(op, op') /\ op'.state = op.state /\ op'.current = op.current /\ op'.remat = op.remat
          /\ (op'.amendments = op.amendments \/ (D /\ op'.amendments = Append(op.amendments, e)))
      BY <2>1
    <2>3. QED
      BY <2>2, Zenon DEF e, D
  <1>9. ASSUME RecordOverlay
        PROVE  /\ Turned(op, op') /\ op'.state = op.state /\ op'.current = op.current /\ op'.remat = TRUE
               /\ op'.amendments = op.amendments
    BY <1>9 DEF RecordOverlay
  <1>10. ASSUME Pause \/ Mismatch
         PROVE  /\ Turned(op, journal') /\ journal'.current = op.current
                /\ journal'.remat = op.remat /\ journal'.amendments = op.amendments
                /\ journal'.state = "blocked" \/ (journal' = op /\ pc = "paused")
    <2>1. journal' = [op EXCEPT !.state = "blocked"] \/ (journal' = op /\ pc = "paused")
      BY <1>10, Zenon DEF Pause, Mismatch
    <2>2. QED
      BY <2>1
  <1>11. ASSUME OverlayMismatch
         PROVE  /\ Turned(op, journal') /\ journal'.state = "blocked" /\ journal'.current = op.current
                /\ journal'.remat = TRUE /\ journal'.amendments = op.amendments
    BY <1>11 DEF OverlayMismatch
  <1> HIDE DEF Sound, Shaped, Same, Current, Turned, Unmoved, Write, Keep
  <1>12. QED
    BY <1>2, <1>3, <1>4, <1>5, <1>6, <1>7, <1>8, <1>9, <1>10, <1>11, Zenon

(* What a command that takes up a journal makes of it.                     *)
LEMMA ContinuesTurn ==
    ASSUME TypesIInv, Continues
    PROVE  /\ Turned(journal, op') /\ op'.remat = journal.remat /\ op'.amendments = journal.amendments
           /\ journal' = op' /\ Sound(journal) /\ journal.current \in Current /\ Pending
           /\ \/ /\ pc' = "continue" /\ journal.state = "conflicted" /\ op'.state = "conflicted"
                 /\ op'.current.cursor = journal.current.cursor
              \/ pc' = "reword" /\ journal.state = "awaiting-message" /\ op' = journal
              \/ pc' = "edit" /\ journal.state = "awaiting-content" /\ op' = journal
              \/ /\ pc' = "absorb" /\ journal.state = "awaiting-absorption" /\ op'.state = "applying"
                 /\ op'.current.cursor = journal.current.cursor + 1
  <1>1. Sound(journal) /\ journal.current \in Current /\ Pending
    BY DEF TypesIInv, RebaseIInv, RebaseKinds, Memory, Typed, Continues, ContinueConflict, ContinueMessage,
           ContinueContent, ContinueAbsorption, Resumes
  <1> USE <1>1 DEF Sound, Shaped, Same, Current, Turned, Unmoved, Write, Resumes, Go
  <1>2. ASSUME NEW fork \in BOOLEAN, ContinueConflict(fork)
        PROVE  /\ Turned(journal, op') /\ op'.remat = journal.remat /\ op'.amendments = journal.amendments
               /\ journal' = op' /\ pc' = "continue" /\ journal.state = "conflicted" /\ op'.state = "conflicted"
               /\ op'.current.cursor = journal.current.cursor
    BY <1>2 DEF ContinueConflict
  <1>3. ASSUME ContinueMessage \/ ContinueContent
        PROVE  /\ Turned(journal, op') /\ op'.remat = journal.remat /\ op'.amendments = journal.amendments
               /\ journal' = op' /\ op' = journal
               /\ \/ pc' = "reword" /\ journal.state = "awaiting-message"
                  \/ pc' = "edit" /\ journal.state = "awaiting-content"
    BY <1>3 DEF ContinueMessage, ContinueContent
  <1>4. ASSUME ContinueAbsorption
        PROVE  /\ Turned(journal, op') /\ op'.remat = journal.remat /\ op'.amendments = journal.amendments
               /\ journal' = op' /\ pc' = "absorb" /\ journal.state = "awaiting-absorption" /\ op'.state = "applying"
               /\ op'.current.cursor = journal.current.cursor + 1
    BY <1>4 DEF ContinueAbsorption
  <1> HIDE DEF Sound, Shaped, Same, Current, Turned, Unmoved, Write, Resumes, Go
  <1>5. QED
    BY <1>1, <1>2, <1>3, <1>4, Zenon DEF Continues

(* A command that runs keeps to the branch of its journal.                 *)
LEMMA RunsOn ==
    ASSUME TypesIInv, Settled, pc # "idle"
    PROVE  /\ Pending /\ branch = journal.branch /\ journal.branch = op.branch /\ journal.branch # "main"
           /\ Home = HEAD /\ Sound(op) /\ op.current \in Current /\ Typed(op, Len(objs))
           /\ op.queue = journal.queue /\ Same(journal, op) /\ branch \in Branch
  <1>1. Pending /\ Same(journal, op) /\ Sound(op) /\ Typed(op, Len(objs)) /\ branch \in Branch
    BY Runs, OperationTrue DEF TypesIInv, Repository
  <1>2. branch = journal.branch /\ journal.branch # "main"
    BY <1>1 DEF Settled
  <1>3. QED
    BY <1>1, <1>2 DEF Same, Home, HEAD, Typed

(* Git has nothing pending, and the command is not within a pick or merge. *)
LEMMA SettledMoves ==
    ASSUME TypesIInv, Settled, pc # "idle", Still, UNCHANGED <<branch, cp, mh, undoing, meddled>>,
           pc' \notin {"idle", "join", "paused", "batch", "continue", "pick", "merge", "reword", "edit",
                       "absorb", "cursor", "finish"},
           pc' \in Undoing <=> pc \in Undoing, Same(journal, journal'),
           journal'.state = "applying" \/ journal' = journal,
           pc' \in {"restore", "undone", "forget"} => HEAD' = op'.orig
    PROVE  Settled'
  <1>1. journal'.branch # "main" /\ journal'.branch = journal.branch /\ branch' = journal'.branch /\ Still'
    BY RunsOn DEF Same, Still
  <1>2. journal'.state # "applying" => /\ journal' = journal
                                       /\ journal.state = "conflicted" => journal.current.cursor = 0
    BY DEF Settled
  <1>3. pc' \notin Written /\ ~Awaits("applying")
    BY DEF Written, Awaits
  <1>4. undoing /\ pc \notin Undoing => meddled
    BY DEF Settled
  <1>5. QED
    BY <1>1, <1>2, <1>3, <1>4 DEF Settled, Waiting, Listens

LEMMA SettledPhases ==
    ASSUME TypesIInv, Settled,
           \/ RemoveDraftFiles \/ ReduceToHead \/ ResetOnto \/ OmitStep \/ PositionStep \/ AnchorStep \/ Advance
           \/ QueueDone \/ Verified \/ MaterializeOverlay \/ RecordOverlay \/ Publish \/ ReleaseAnchors
           \/ AbortReset \/ AbortRestore
    PROVE  Settled'
  <1> USE DEF Works, Thinks, Journals, Write, Go, Keep, gitVars, headVars, treeVars, histVars
  <1>1. /\ pc \in Starting \cup Moving \cup Finishing \cup Undoing /\ UNCHANGED <<branch, cp, mh, undoing, meddled>>
        /\ pc' \in Starting \cup Moving \cup Finishing \cup Undoing
        /\ pc' \in Undoing <=> pc \in Undoing
        /\ pc = "undone" \/ pc' # "forget"
    BY DEF RemoveDraftFiles, ReduceToHead, ResetOnto, OmitStep, PositionStep, AnchorStep, Advance, QueueDone, Verified,
           MaterializeOverlay, RecordOverlay, Publish, ReleaseAnchors, AbortReset, AbortRestore,
           Starting, Moving, Finishing, Sharing, Undoing
  <1>2. pc # "idle" /\ Still
    BY <1>1 DEF Settled, Starting, Moving, Finishing, Sharing, Undoing
  <1>3. /\ pc' \notin {"idle", "join", "paused", "batch", "continue", "pick", "merge", "reword", "edit",
                       "absorb", "cursor", "finish"}
    BY <1>1 DEF Starting, Moving, Finishing, Sharing, Undoing
  <1>4. Same(journal, op) /\ Sound(op) /\ op.current \in Current /\ branch \in Branch /\ tip \in [Branch -> Objects]
    BY <1>2, RunsOn DEF TypesIInv, Repository
  <1>5. Same(journal, journal') /\ (journal'.state = "applying" \/ journal' = journal)
    <2>1. CASE Advance
      BY <1>2, <1>4, <2>1, Runs DEF Advance, Moving, TypesIInv
    <2>2. CASE RecordOverlay
      <3>1. journal' = op' /\ op.state = "applying" /\ Turned(op, op') /\ op'.state = op.state
        BY <1>2, <2>2, Runs, StepsTurn DEF RecordOverlay, Finishing, TypesIInv
      <3>2. QED
        BY <1>4, <3>1, TurnedSame DEF Same
    <2>3. CASE ~Advance /\ ~RecordOverlay
      <3>1. journal' = journal
        BY <2>3 DEF RemoveDraftFiles, ReduceToHead, ResetOnto, OmitStep, PositionStep, AnchorStep, QueueDone, Verified,
           MaterializeOverlay, Publish, ReleaseAnchors, AbortReset, AbortRestore
      <3>2. QED
        BY <3>1 DEF Same
    <2>4. QED
      BY <2>1, <2>2, <2>3
  <1>6. pc' \in {"restore", "undone", "forget"} => HEAD' = op'.orig
    <2>1. CASE AbortReset
      <3>1. /\ op' = op /\ branch' = branch
            /\ (HEAD = op.orig /\ tip' = tip) \/ tip' = [tip EXCEPT ![branch] = op.orig]
        BY <2>1 DEF AbortReset
      <3>2. QED
        BY <1>4, <3>1 DEF HEAD
    <2>2. CASE AbortRestore \/ ReleaseAnchors
      <3>1. op' = op /\ HEAD' = HEAD /\ (pc' \in {"restore", "undone", "forget"} => pc \in {"restore", "undone"})
        BY <2>2 DEF AbortRestore, ReleaseAnchors, HEAD
      <3>2. QED
        BY <3>1 DEF Settled
    <2>3. CASE ~AbortReset /\ ~AbortRestore /\ ~ReleaseAnchors
      <3>1. pc' \notin Undoing
        BY <2>3 DEF RemoveDraftFiles, ReduceToHead, ResetOnto, OmitStep, PositionStep, AnchorStep, Advance, QueueDone,
           Verified, MaterializeOverlay, RecordOverlay, Publish, Undoing
      <3>2. QED
        BY <3>1 DEF Undoing
    <2>4. QED
      BY <2>1, <2>2, <2>3
  <1>7. QED
    BY <1>1, <1>2, <1>3, <1>5, <1>6, SettledMoves

(* A step that is under way.                                               *)
LEMMA SettledSteps ==
    ASSUME TypesIInv, Settled, pc \notin {"idle"} \cup Undoing, pc' \in Stepping,
           UNCHANGED <<branch, undoing, meddled>>, Same(journal, journal'),
           pc' \notin {"join", "paused", "batch", "continue"} \/ Listens' => Still',
           pc' \in {"pick", "merge", "join"} \/ Waiting' => HEAD' = op'.current.before /\ op'.current.cursor = 0,
           pc' = "join" => NextStep'.kind = "merge",
           pc' = "join" \/ Waiting' => Stops(op)',
           Still' \/ journal'.state \in {"applying", "blocked"} \/ (journal' = op' /\ Waiting'),
           journal'.state = "conflicted" => journal'.current.cursor = 0,
           pc' \in Written => journal' = op', journal' = journal \/ journal'.state \in {"applying", "conflicted"},
           pc' \in {"pick", "merge", "join", "absorb", "cursor", "finish"} => op'.state = "applying",
           pc' \in {"batch", "continue"} => op'.state = "conflicted"
    PROVE  Settled'
  <1>1. /\ journal'.branch # "main" /\ journal'.branch = journal.branch /\ branch' = journal'.branch
        /\ undoing => meddled
        /\ journal'.state # "awaiting-absorption"
    BY RunsOn DEF Same, Settled
  <1>2. pc' \notin {"idle", "restore", "undone", "forget"} \cup Undoing
    BY DEF Stepping, Undoing
  <1>3. journal' = op' /\ Waiting' => Stops(journal)' /\ Home' = journal'.current.before
    BY <1>1 DEF Home, HEAD, Stops
  <1>5. ~Awaits("applying") /\ ~Awaits("blocked")
    BY DEF Awaits
  <1>6. Awaits(journal'.state) => Still'
    BY <1>5 DEF Waiting, Awaits
  <1>7. QED
    BY <1>1, <1>2, <1>3, <1>5, <1>6 DEF Settled

LEMMA SettledInStep ==
    ASSUME TypesIInv, Settled, TypesIInv',
           \/ BeginStep \/ PickApplies \/ PickConflicts \/ StepBlocked \/ MergeApplies \/ MergeConflicts
           \/ MergeJoinsNothing \/ ApplyForecast \/ ContinuePick \/ CommitJoin
           \/ BeginAbsorption \/ AbsorbApplies \/ AbsorbConflicts \/ AbsorbBlocked \/ AdvanceCursor \/ Meld
           \/ FinishStep \/ RewordStep \/ EditStep
    PROVE  Settled'
  <1> USE DEF Works, Thinks, Journals, Write, Go, gitVars, headVars, treeVars, histVars
  <1>1. pc \notin {"idle"} \cup Undoing /\ UNCHANGED <<branch, undoing, meddled>>
    BY DEF BeginStep, PickApplies, PickConflicts, StepBlocked, MergeApplies, MergeConflicts,
           MergeJoinsNothing, ApplyForecast, ContinuePick, CommitJoin,
           BeginAbsorption, AbsorbApplies, AbsorbConflicts, AbsorbBlocked, AdvanceCursor, Meld,
           FinishStep, RewordStep, EditStep, Undoing
  <1>2. /\ Same(journal, op) /\ Sound(op) /\ op.current \in Current /\ Typed(op, Len(objs)) /\ Home = HEAD
        /\ op.next \in Nat
    BY <1>1, RunsOn DEF Sound
  <1>3. Same(journal, journal)
    BY DEF Same
  <1>4. CASE BeginStep
    <2> DEFINE c == [NoCurrent EXCEPT !.commit = NextStep.commit, !.before = HEAD,
                        !.joins = IF NextStep.kind = "merge" THEN Mapped(op, NextStep.parents[2]) ELSE NoCommit]
    <2>1. /\ op' = [op EXCEPT !.state = "applying", !.current = c] /\ journal' = op' /\ pc' = NextStep.kind /\ pc = "queue"
          /\ NextStep.kind # "omit" /\ HEAD' = HEAD /\ cp' = cp /\ mh' = mh /\ MoreSteps
      BY <1>4 DEF BeginStep, HEAD
    <2>2. c.before = HEAD /\ c.cursor = 0
      BY DEF NoCurrent
    <2> HIDE DEF c
    <2>3. op'.state = "applying" /\ op'.current = c /\ Same(op, op')
      BY <1>2, <2>1 DEF Sound, Shaped, Same
    <2>4. Still
      BY <2>1 DEF Settled
    <2>5. pc' \in {"pick", "merge"}
      BY <1>1, <2>1, OperationTrue
    <2>6. Same(journal, journal') /\ Still'
      BY <1>2, <2>1, <2>3, <2>4 DEF Same, Still
    <2>7. QED
      BY <1>1, <2>1, <2>2, <2>3, <2>5, <2>6, SettledSteps DEF Stepping, Waiting
  <1>5. CASE PickApplies
    <2>1. /\ pc = "pick" /\ pc' \in {"finish", "absorb"} /\ UNCHANGED <<op, journal, cp, mh>>
      BY <1>5 DEF PickApplies
    <2>2. Still' /\ journal = op /\ op.state = "applying"
      BY <2>1 DEF Settled, Still, Written
    <2>3. QED
      BY <1>1, <1>3, <2>1, <2>2, SettledSteps DEF Stepping, Waiting
  <1>6. CASE PickConflicts \/ MergeConflicts
    <2>1. /\ pc \in {"pick", "merge"} /\ pc' = "paused" /\ journal' = journal /\ HEAD' = HEAD
          /\ pc = "pick" => cp' = op.current.commit /\ mh' = mh
          /\ pc = "merge" => mh' = op.current.joins /\ cp' = cp
      BY <1>6 DEF PickConflicts, MergeConflicts, HEAD
    <2>2. Turned(op, op') /\ op'.state = "conflicted" /\ op'.current.cursor = op.current.cursor
      BY <1>1, <1>6, StepsTurn
    <2>3. /\ HEAD = op.current.before /\ op.current.cursor = 0 /\ Still /\ journal = op /\ op.state = "applying"
      BY <2>1 DEF Settled, Written
    <2>4. NextStep.kind = pc /\ NextStep' = NextStep
      BY <2>1, <2>2 DEF TypesIInv, Standing, NextStep, Turned, Unmoved, Same
    <2>5. Stops(op)'
      BY <2>1, <2>2, <2>3, <2>4 DEF Stops, Still, NextStep, Turned
    <2>6. op'.current.before = op.current.before
      BY <2>2 DEF Turned
    <2>7. QED
      BY <1>1, <1>3, <2>1, <2>2, <2>3, <2>5, <2>6, SettledSteps DEF Stepping, Listens, Awaits, Written
  <1>7. CASE StepBlocked \/ MergeJoinsNothing \/ AbsorbBlocked
    <2>1. /\ pc \in {"pick", "merge", "absorb"} /\ pc' = "paused" /\ journal' = journal
      BY <1>7 DEF StepBlocked, MergeJoinsNothing, AbsorbBlocked
    <2>2. op'.state = "blocked" /\ journal.state = "applying"
      BY <1>1, <1>7, <2>1, StepsTurn DEF Settled, Written
    <2>3. QED
      BY <1>1, <1>3, <2>1, <2>2, SettledSteps DEF Stepping, Waiting, Listens, Awaits, Written
  <1>8. CASE MergeApplies
    <2>1. /\ pc = "merge" /\ pc' = "join" /\ journal' = journal /\ op' = op /\ HEAD' = HEAD
          /\ mh' = op.current.joins /\ cp' = cp
      BY <1>8 DEF MergeApplies, HEAD
    <2>2. /\ HEAD = op.current.before /\ op.current.cursor = 0 /\ Still /\ journal = op /\ op.state = "applying"
      BY <2>1 DEF Settled, Written
    <2>3. NextStep.kind = "merge" /\ NextStep' = NextStep
      BY <2>1 DEF TypesIInv, Standing, NextStep
    <2>4. Stops(op)'
      BY <2>1, <2>2, <2>3 DEF Stops, Still, NextStep
    <2>5. QED
      BY <1>1, <1>3, <2>1, <2>2, <2>3, <2>4, SettledSteps DEF Stepping, Listens, Waiting
  <1>9. CASE ApplyForecast
    <2>1. /\ pc = "paused" /\ op.state = "conflicted" /\ pc' = "batch" /\ journal' = op /\ op' = op /\ HEAD' = HEAD
          /\ cp' = cp /\ mh' = mh
      BY <1>9 DEF ApplyForecast, HEAD
    <2>2. Waiting /\ HEAD = op.current.before /\ op.current.cursor = 0 /\ Stops(op)
      BY <2>1 DEF Settled, Waiting
    <2>3. Stops(op)'
      BY <2>1, <2>2 DEF Stops
    <2>4. Waiting' /\ Stops(op)'
      BY <2>1, <2>3 DEF Waiting
    <2>5. QED
      BY <1>1, <1>2, <2>1, <2>2, <2>4, SettledSteps DEF Stepping, Listens
  <1>10. CASE ContinuePick \/ CommitJoin
    <2>1. /\ pc \in {"join", "batch", "continue"} /\ pc' \in {"record", "record-join"} /\ UNCHANGED <<op, journal>>
          /\ \/ NextStep.kind = "pick" /\ cp' = NoCommit /\ mh' = mh
             \/ NextStep.kind = "merge" /\ mh' = NoCommit /\ cp' = cp
      BY <1>10 DEF ContinuePick, CommitJoin
    <2>2. Stops(op) /\ journal = op /\ op.current.cursor = 0
      BY <2>1 DEF Settled, Waiting, Written
    <2>3. Still'
      BY <2>1, <2>2 DEF Stops, Still, NextStep
    <2>4. QED
      BY <1>1, <1>3, <2>1, <2>2, <2>3, SettledSteps DEF Stepping, Listens, Waiting, Written
  <1>11. CASE BeginAbsorption \/ AdvanceCursor
    <2>1. /\ pc \in {"absorb", "cursor"} /\ pc' = "absorb" /\ journal' = op' /\ cp' = cp /\ mh' = mh
      BY <1>11 DEF BeginAbsorption, AdvanceCursor
    <2>2. Turned(op, op') /\ op'.state = op.state
      BY <1>1, <1>11, StepsTurn
    <2>3. Still' /\ op.state = "applying" /\ Same(journal, journal')
      BY <1>2, <2>1, <2>2 DEF Settled, Still, Turned, Unmoved, Same
    <2>4. QED
      BY <1>1, <2>1, <2>2, <2>3, SettledSteps DEF Stepping, Waiting
  <1>12. CASE AbsorbApplies \/ Meld
    <2>1. /\ pc = "absorb" /\ pc' \in {"cursor", "finish"} /\ UNCHANGED <<op, journal, cp, mh>>
      BY <1>12 DEF AbsorbApplies, Meld
    <2>2. Still' /\ journal = op /\ op.state = "applying"
      BY <2>1 DEF Settled, Still, Written
    <2>3. QED
      BY <1>1, <1>3, <2>1, <2>2, SettledSteps DEF Stepping, Waiting
  <1>13. CASE AbsorbConflicts
    <2>1. /\ pc = "absorb" /\ pc' = "paused" /\ UNCHANGED <<journal, cp, mh>>
      BY <1>13 DEF AbsorbConflicts
    <2>2. op'.state = "awaiting-absorption"
      BY <1>1, <1>13, StepsTurn
    <2>3. Still' /\ journal = op /\ op.state = "applying"
      BY <2>1 DEF Settled, Still, Written
    <2>4. QED
      BY <1>1, <1>3, <2>1, <2>2, <2>3, SettledSteps DEF Stepping, Waiting, Written
  <1>14. CASE FinishStep
    <2>1. pc = "finish" /\ UNCHANGED <<journal, cp, mh>> /\ pc' \in {"record", "paused"}
      BY <1>14 DEF FinishStep
    <2>2. pc' = "paused" => op'.state # "conflicted"
      BY <1>1, <1>14, StepsTurn
    <2>3. Still' /\ journal = op /\ op.state = "applying"
      BY <2>1 DEF Settled, Still, Written
    <2>4. QED
      BY <1>1, <1>3, <2>1, <2>2, <2>3, SettledSteps DEF Stepping, Waiting, Written
  <1>15. CASE RewordStep \/ EditStep
    <2>1. /\ pc \in {"reword", "edit"} /\ UNCHANGED <<journal, cp, mh>>
          /\ pc' = "record" \/ (RewordStep /\ pc' = "paused")
      BY <1>15, Zenon DEF RewordStep, EditStep
    <2>2. pc' = "paused" => op'.state = "blocked"
      BY <1>1, <2>1, StepsTurn
    <2>3. Still' /\ (journal'.state = "conflicted" => journal'.current.cursor = 0)
      BY <2>1 DEF Settled, Still
    <2>4. QED
      BY <1>1, <1>3, <2>1, <2>2, <2>3, SettledSteps DEF Stepping, Waiting, Written
  <1>16. QED
    BY <1>4, <1>5, <1>6, <1>7, <1>8, <1>9, <1>10, <1>11, <1>12, <1>13, <1>14, <1>15

(* A new operation, in a repository where nothing is pending.              *)
LEMMA BeginsAnew ==
    ASSUME TypesIInv, Begins
    PROVE  /\ pc = "idle" /\ ~Pending /\ Still /\ branch # "main" /\ pc' \in {"reset", "reduce"} /\ journal' = op'
           /\ op'.id = ops + 1 /\ op'.branch = branch /\ op'.orig = HEAD /\ op'.next = 1 /\ op'.applied = <<>>
           /\ op'.amendments = <<>> /\ op'.absorptions = <<>> /\ op'.current = NoCurrent
           /\ op'.state = "applying" /\ op'.remat = FALSE /\ undoing' = FALSE
           /\ pc' = (IF op'.overlay = None THEN "reset" ELSE "reduce")
           /\ wt = (IF op'.overlay = None THEN "clean" ELSE op'.overlay)
           /\ UNCHANGED <<objs, branch, tip, cp, mh, wt, index, anchors, meddled, notes, dropped>>
           /\ op'.rewritten = [c \in DOMAIN op'.rewritten |-> NoCommit]
  <1>1. PICK request \in asks[ops + 1], accept \in BOOLEAN : Begin(request, accept)
    BY Zenon DEF Begins
  <1> DEFINE onto == tip["main"]
             queue == Queue(HEAD, onto, request.program)
             rewritten == [c \in {queue[i].commit : i \in 1..Len(queue)} |-> NoCommit]
             on == branch
             head == HEAD
             draft == request.overlay
             approved == request.forecasted
             number == ops + 1
             begun == NewOperation(number, on, head, onto, queue, rewritten, draft, approved)
  <1>2. /\ op' = begun /\ journal' = begun /\ pc = "idle" /\ ~Pending /\ Still /\ on # "main" /\ undoing' = FALSE
        /\ pc' = IF draft = None THEN "reset" ELSE "reduce"
        /\ wt = IF draft = None THEN "clean" ELSE draft
        /\ UNCHANGED <<objs, branch, tip, cp, mh, wt, index, anchors, meddled, notes, dropped>>
    BY <1>1 DEF Begin, Write, Go, NewOperation, gitVars, headVars, treeVars, Still
  <1>3. rewritten = [c \in DOMAIN rewritten |-> NoCommit]
    OBVIOUS
  <1>4. on = branch /\ head = HEAD /\ number = ops + 1
    OBVIOUS
  <1> HIDE DEF onto, queue, on, head, draft, approved, number, rewritten
  <1>5. BegunAs(begun, number, on, head, onto, queue, rewritten, draft, approved)
    BY Begun, Zenon
  <1> HIDE DEF begun
  <1>6. /\ begun.id = number /\ begun.branch = on /\ begun.orig = head /\ begun.next = 1 /\ begun.rewritten = rewritten
        /\ begun.applied = <<>> /\ begun.amendments = <<>> /\ begun.absorptions = <<>> /\ begun.current = NoCurrent
        /\ begun.state = "applying" /\ begun.overlay = draft /\ begun.remat = FALSE
    BY <1>5, Zenon DEF BegunAs
  <1>7. op' = begun /\ journal' = begun
    BY <1>2
  <1>8. /\ op'.id = ops + 1 /\ op'.branch = branch /\ op'.orig = HEAD /\ op'.next = 1 /\ op'.rewritten = rewritten
        /\ op'.applied = <<>> /\ op'.amendments = <<>> /\ op'.absorptions = <<>> /\ op'.current = NoCurrent
        /\ op'.state = "applying" /\ op'.overlay = draft /\ op'.remat = FALSE
    BY <1>4, <1>6, <1>7
  <1>9. op'.rewritten = [c \in DOMAIN op'.rewritten |-> NoCommit]
    BY <1>3, <1>8, Zenon
  <1>10. QED
    BY <1>2, <1>4, <1>7, <1>8, <1>9

LEMMA SettledBegins ==
    ASSUME TypesIInv, Settled, Begins
    PROVE  Settled'
  <1>1. /\ pc' \in {"reset", "reduce"} /\ journal' = op' /\ op'.branch = branch /\ op'.state = "applying"
        /\ branch # "main" /\ undoing' = FALSE /\ UNCHANGED <<branch, cp, mh>> /\ Still
    BY BeginsAnew
  <1>2. pc' \notin Written /\ ~Awaits("applying") /\ Still'
    BY <1>1 DEF Written, Awaits, Still
  <1>3. QED
    BY <1>1, <1>2 DEF Settled, Waiting, Listens

(* A step ends in memory.                                                  *)
LEMMA SettledEnds ==
    ASSUME TypesIInv, Settled, RecordApplication \/ RecordJoin
    PROVE  Settled'
  <1> USE DEF Keep, Thinks, Go, gitVars, headVars, treeVars, histVars
  <1>1. /\ pc \in {"record", "record-join"} /\ UNCHANGED <<journal, branch, cp, mh, undoing, meddled>>
        /\ pc' \in {"anchor", "advance"} \/ (pc' = "paused" /\ RecordApplication)
    BY DEF RecordApplication, RecordJoin
  <1>2. pc # "idle" /\ pc \notin Undoing /\ Still /\ Same(journal, journal')
    BY <1>1 DEF Settled, Undoing, Same
  <1>3. CASE pc' # "paused"
    BY <1>1, <1>2, <1>3, SettledMoves DEF Undoing
  <1>4. CASE pc' = "paused"
    <2>1. op'.state = "blocked"
      BY <1>1, <1>2, <1>4, StepsTurn
    <2>2. Still' /\ (journal'.state = "conflicted" => journal'.current.cursor = 0)
      BY <1>1, <1>2 DEF Settled, Still
    <2>3. QED
      BY <1>1, <1>2, <1>4, <2>1, <2>2, SettledSteps DEF Stepping, Waiting, Listens, Awaits, Written
  <1>5. QED
    BY <1>3, <1>4

(* A command that ends.                                                    *)
LEMMA SettledStops ==
    ASSUME TypesIInv, Settled,
           Pause \/ Mismatch \/ OverlayMismatch \/ CommitFails \/ Crash \/ ClearJournal \/ AbortClear
    PROVE  Settled'
  <1> USE DEF Stop, Go, gitVars, headVars, treeVars
  <1>1. pc # "idle" /\ pc' = "idle" /\ UNCHANGED <<branch, tip, cp, mh>>
    BY DEF Pause, Mismatch, OverlayMismatch, CommitFails, Crash, ClearJournal, AbortClear
  <1>2. pc' \notin Written \cup Undoing
    BY <1>1 DEF Written, Undoing
  <1>3. ~Awaits("applying") /\ ~Awaits("blocked") /\ ~Awaits("conflicted")
    BY DEF Awaits
  <1>4. /\ branch = journal.branch /\ Same(journal, op) /\ journal.branch # "main" /\ Home = HEAD
    BY <1>1, RunsOn
  <1>5. CASE CommitFails \/ Crash
    <2>1. journal' = journal
      BY <1>5 DEF CommitFails, Crash
    <2>2. (Stops(journal)' <=> Stops(journal)) /\ Home' = Home /\ (Still' <=> Still)
      BY <1>1, <2>1 DEF Stops, Home, Still
    <2>3. QED
      BY <1>1, <1>2, <1>4, <2>1, <2>2 DEF Settled, Waiting, Listens
  <1>6. CASE ClearJournal \/ AbortClear
    <2>1. journal' = NoOperation
      BY <1>6 DEF ClearJournal, AbortClear
    <2>2. journal'.state = "applying" /\ journal'.branch # "main"
      BY <2>1 DEF NoOperation
    <2>3. QED
      BY <1>1, <1>2, <1>3, <2>2 DEF Settled, Waiting, Listens
  <1>7. CASE Pause \/ Mismatch \/ OverlayMismatch
    <2>1. Turned(op, journal') /\ (journal'.state = "blocked" \/ (journal' = op /\ pc = "paused"))
      BY <1>1, <1>7, StepsTurn
    <2>2. journal'.branch = journal.branch
      BY <1>4, <2>1, TurnedSame DEF Same
    <2>3. CASE journal'.state = "blocked"
      BY <1>1, <1>2, <1>3, <1>4, <2>2, <2>3 DEF Settled, Waiting, Listens
    <2>4. CASE journal' = op /\ pc = "paused"
      <3>1. op.state = "conflicted" => /\ Stops(op) /\ HEAD = op.current.before /\ op.current.cursor = 0
        BY <2>4 DEF Settled, Waiting
      <3>2. Awaits(op.state) => Still
        BY <2>4 DEF Settled, Listens
      <3>3. (Stops(journal)' <=> Stops(op)) /\ Home' = HEAD /\ (Still' <=> Still) /\ branch' = journal'.branch
        BY <1>1, <1>4, <2>2, <2>4 DEF Stops, Home, Still, HEAD
      <3>4. QED
        BY <1>1, <1>2, <1>3, <1>4, <2>2, <2>4, <3>1, <3>2, <3>3 DEF Settled, Waiting, Listens
    <2>5. QED
      BY <2>1, <2>3, <2>4
  <1>8. QED
    BY <1>5, <1>6, <1>7

(* A journal is taken up again, or undone.                                 *)
LEMMA SettledContinues ==
    ASSUME TypesIInv, Settled, Continues
    PROVE  Settled'
  <1> USE DEF Resumes, Go, gitVars, headVars, treeVars
  <1>1. /\ Pending /\ Continuable(journal) /\ meddled' = (meddled \/ undoing) /\ undoing' = undoing
        /\ UNCHANGED <<tip, branch, cp, mh>>
    BY DEF Continues, ContinueConflict, ContinueMessage, ContinueContent, ContinueAbsorption
  <1>2. /\ Turned(journal, op') /\ journal' = op'
        /\ \/ /\ pc' = "continue" /\ journal.state = "conflicted" /\ op'.state = "conflicted"
              /\ op'.current.cursor = journal.current.cursor
           \/ pc' = "reword" /\ journal.state = "awaiting-message" /\ op' = journal
           \/ pc' = "edit" /\ journal.state = "awaiting-content" /\ op' = journal
           \/ /\ pc' = "absorb" /\ journal.state = "awaiting-absorption" /\ op'.state = "applying"
              /\ op'.current.cursor = journal.current.cursor + 1
    BY ContinuesTurn
  <1>3. /\ op'.branch = journal.branch /\ branch = journal.branch /\ journal.branch # "main"
        /\ op'.current.before = journal.current.before /\ op'.current.commit = journal.current.commit
        /\ op'.current.joins = journal.current.joins /\ op'.queue = journal.queue /\ op'.next = journal.next
    BY <1>1, <1>2, TurnedSame DEF Settled, Continuable, OnBranch, Turned, Same
  <1>4. CASE pc' = "continue"
    <2>1. ~Still /\ journal.state = "conflicted"
      BY <1>1, <1>2, <1>4 DEF Continuable, PendingInGit, Still, Awaits
    <2>2. Stops(journal) /\ Home = journal.current.before /\ journal.current.cursor = 0
      BY <2>1 DEF Settled
    <2>3. Stops(op)' /\ HEAD' = op'.current.before /\ op'.current.cursor = 0 /\ Stops(journal)'
      BY <1>1, <1>2, <1>3, <1>4, <2>2 DEF Stops, HEAD, Home
    <2>4. Home' = HEAD'
      BY <1>1, <1>2, <1>3 DEF Home, HEAD
    <2>5. op'.state = "conflicted" /\ ~Awaits("conflicted")
      BY <1>2, <1>4 DEF Awaits
    <2>6. QED
      BY <1>1, <1>2, <1>3, <1>4, <2>3, <2>4, <2>5 DEF Settled, Waiting, Listens, Written, Undoing
  <1>5. CASE pc' # "continue"
    <2>1. /\ Awaits(journal.state) /\ pc' \in {"reword", "edit", "absorb"} /\ op'.state # "conflicted"
          /\ pc' = "absorb" => op'.state = "applying"
      BY <1>2, <1>5 DEF Awaits
    <2>2. Still'
      BY <1>1, <2>1 DEF Settled, Still
    <2>3. QED
      BY <1>1, <1>2, <1>3, <2>1, <2>2 DEF Settled, Waiting, Listens, Written, Undoing
  <1>6. QED
    BY <1>4, <1>5

LEMMA SettledAborts ==
    ASSUME TypesIInv, Settled, Abort
    PROVE  Settled'
  <1>1. /\ Pending /\ branch = journal.branch /\ Still' /\ op' = journal /\ pc' = "undo"
        /\ UNCHANGED <<branch, journal>>
    BY DEF Abort, OnBranch, Still, Go, headVars
  <1>2. pc' \notin Written /\ pc' \in Undoing
    BY <1>1 DEF Written, Undoing
  <1>3. QED
    BY <1>1, <1>2 DEF Settled, Waiting, Listens, Pending

(* What the person does, and steps that touch neither Git nor a journal.   *)
LEMMA RestsAlone ==
    ASSUME PersonStep \/ Forecasts \/ UNCHANGED vars
    PROVE  /\ UNCHANGED <<journal, op, pc, undoing, anchors, notes, dropped>>
           /\ PersonStep \/ Forecasts => pc = "idle"
  <1> USE DEF Outside, Acts, ActsIf, AtRest, procVars, gitVars, headVars, treeVars, histVars, vars
  <1>1. ASSUME \/ Resolve \/ GitContinue \/ GitAbandon \/ CommitAbsorbed \/ ThrowAway
        PROVE  UNCHANGED <<journal, op, pc, undoing, anchors, notes, dropped>> /\ pc = "idle"
    BY <1>1 DEF Resolve, GitContinue, GitAbandon, CommitAbsorbed, ThrowAway
  <1>2. ASSUME NEW b \in Branch, Checkout(b) \/ Land(b)
        PROVE  UNCHANGED <<journal, op, pc, undoing, anchors, notes, dropped>> /\ pc = "idle"
    BY <1>2 DEF Checkout, Land
  <1>3. ASSUME CommitOwn \/ Edit \/ CaptureDraft \/ MainMoves \/ CleanUp \/ GoBack
        PROVE  UNCHANGED <<journal, op, pc, undoing, anchors, notes, dropped>> /\ pc = "idle"
    BY <1>3 DEF CommitOwn, Edit, CaptureDraft, MainMoves, CleanUp, GoBack
  <1>4. ASSUME Forecasts
        PROVE  UNCHANGED <<journal, op, pc, undoing, anchors, notes, dropped>> /\ pc = "idle"
    BY <1>4 DEF Forecasts, Forecast
  <1>5. ASSUME UNCHANGED vars
        PROVE  UNCHANGED <<journal, op, pc, undoing, anchors, notes, dropped>>
    BY <1>5
  <1>6. QED
    BY <1>1, <1>2, <1>3, <1>4, <1>5, Zenon DEF PersonStep

LEMMA SettledRests ==
    ASSUME TypesIInv, Settled, PersonStep \/ Forecasts \/ UNCHANGED vars
    PROVE  Settled'
  <1> USE DEF Outside, Acts, ActsIf, AtRest, procVars, gitVars, headVars, treeVars, histVars
  <1>0. UNCHANGED <<journal, op, pc, undoing>>
    BY RestsAlone
  <1>1. CASE UNCHANGED vars
    <2>1. UNCHANGED <<journal, op, pc, undoing, meddled, branch, tip, cp, mh>>
      BY <1>1 DEF vars
    <2>2. /\ Still' <=> Still
          /\ Stops(op)' <=> Stops(op)
          /\ Stops(journal)' <=> Stops(journal)
          /\ HEAD' = HEAD /\ Home' = Home
      BY <2>1 DEF Still, Stops, HEAD, Home
    <2>3. Pending' <=> Pending
      BY <2>1 DEF Pending
    <2>4. QED
      BY <2>1, <2>2, <2>3 DEF Settled, Waiting, Listens, NextStep
  <1>2. ASSUME pc = "idle", Still => Still',
               journal.state = "conflicted" => Still' \/ (UNCHANGED <<cp, mh, branch>> /\ Home' = Home)
        PROVE  Settled'
    <2>1. UNCHANGED <<cp, mh, branch>> /\ Home' = Home =>
             /\ Stops(journal)' <=> Stops(journal)
             /\ Still' <=> Still
      BY <1>0 DEF Stops, Still
    <2>2. /\ journal.state = "conflicted" =>
                /\ Still' \/ (Stops(journal)' /\ Home' = journal.current.before /\ branch' = journal.branch)
                /\ journal.current.cursor = 0
          /\ Awaits(journal.state) => Still'
      BY <1>2, <2>1 DEF Settled
    <2>3. pc' = "idle" /\ journal' = journal /\ pc' \notin Written \cup Undoing
      BY <1>0, <1>2 DEF Written, Undoing
    <2>4. Pending' => journal'.branch # "main"
      BY <1>0 DEF Settled, Pending
    <2>5. QED
      BY <2>2, <2>3, <2>4 DEF Settled, Waiting, Listens
  <1>3. CASE Resolve \/ ThrowAway \/ Edit \/ CaptureDraft \/ CleanUp \/ Forecasts
    <2>1. pc = "idle" /\ UNCHANGED <<cp, mh, branch, tip>>
      BY <1>3, RestsAlone DEF Resolve, ThrowAway, Edit, CaptureDraft, CleanUp, Forecasts, Forecast, PersonStep
    <2>2. QED
      BY <1>0, <1>2, <2>1 DEF Still, Home
  <1>4. CASE GitContinue \/ GitAbandon \/ CommitAbsorbed \/ CommitOwn
    <2>1. pc = "idle" /\ Still'
      BY <1>4 DEF GitContinue, GitAbandon, CommitAbsorbed, CommitOwn, Still
    <2>2. QED
      BY <1>2, <2>1
  <1>5. CASE MainMoves
    <2>1. pc = "idle" /\ UNCHANGED <<cp, mh, branch>> /\ tip' = [tip EXCEPT !["main"] = New]
      BY <1>5 DEF MainMoves
    <2>2. journal.state = "conflicted" => Home' = Home
      BY <1>0, <2>1 DEF Home, Settled, Pending, NoOperation, TypesIInv, Repository, Memory, Typed
    <2>3. QED
      BY <1>2, <2>1, <2>2 DEF Still
  <1>6. CASE \E b \in Branch : Checkout(b) \/ Land(b)
    <2>1. PICK b \in Branch : Checkout(b) \/ Land(b)
      BY <1>6
    <2>2. CASE Checkout(b)
      BY <1>2, <2>2 DEF Checkout, Still
    <2>3. CASE Land(b)
      <3>1. pc = "idle" /\ UNCHANGED <<cp, mh, branch>> /\ tip' = [tip EXCEPT !["main"] = tip[b]]
        BY <2>3 DEF Land
      <3>2. journal.state = "conflicted" => Home' = Home
        BY <1>0, <3>1 DEF Home, Settled, Pending, NoOperation, TypesIInv, Repository, Memory, Typed
      <3>3. QED
        BY <1>2, <3>1, <3>2 DEF Still
    <2>4. QED
      BY <2>1, <2>2, <2>3
  <1>7. CASE GoBack
    <2>1. pc = "idle" /\ UNCHANGED <<cp, mh>> /\ branch # journal.branch
      BY <1>7 DEF GoBack
    <2>2. journal.state = "conflicted" => Still
      BY <2>1 DEF Settled
    <2>3. QED
      BY <1>2, <2>1, <2>2 DEF Still
  <1>8. QED
    BY <1>1, <1>3, <1>4, <1>5, <1>6, <1>7, Zenon DEF PersonStep

LEMMA SettledStarts == Init => Settled
  <1> SUFFICES ASSUME Init PROVE Settled
    OBVIOUS
  <1>1. pc = "idle" /\ ~Pending /\ journal.state = "applying" /\ pc \notin Written \cup Undoing
    BY DEF Init, Pending, NoOperation, Written, Undoing
  <1>2. QED
    BY <1>1 DEF Settled, Waiting, Listens, Awaits

LEMMA SettledStep ==
    ASSUME TypesIInv, Settled, [Next]_vars
    PROVE  Settled'
  <1>0. TypesIInv'
    BY TypesStep
  <1>1. CASE \/ RemoveDraftFiles \/ ReduceToHead \/ ResetOnto \/ OmitStep \/ PositionStep \/ AnchorStep \/ Advance
             \/ QueueDone \/ Verified \/ MaterializeOverlay \/ RecordOverlay \/ Publish \/ ReleaseAnchors
             \/ AbortReset \/ AbortRestore
    BY <1>1, SettledPhases
  <1>2. CASE \/ BeginStep \/ PickApplies \/ PickConflicts \/ StepBlocked \/ MergeApplies \/ MergeConflicts
             \/ MergeJoinsNothing \/ ApplyForecast \/ ContinuePick \/ CommitJoin
             \/ BeginAbsorption \/ AbsorbApplies \/ AbsorbConflicts \/ AbsorbBlocked \/ AdvanceCursor \/ Meld
             \/ FinishStep \/ RewordStep \/ EditStep
    BY <1>0, <1>2, SettledInStep
  <1>3. CASE RecordApplication \/ RecordJoin \/ Begins \/ Continues \/ Abort
    BY <1>3, SettledEnds, SettledBegins, SettledContinues, SettledAborts
  <1>4. CASE Pause \/ Mismatch \/ OverlayMismatch \/ CommitFails \/ Crash \/ ClearJournal \/ AbortClear
    BY <1>4, SettledStops
  <1>5. CASE PersonStep \/ Forecasts \/ UNCHANGED vars
    BY <1>5, SettledRests
  <1>6. QED
    BY <1>1, <1>2, <1>3, <1>4, <1>5, Zenon DEF Next, CommandStep

-----------------------------------------------------------------------------

(* The worktree and what is staged, by where the command is.               *)
CleanAt == {"reset", "queue", "pick", "merge", "finish", "record", "record-join", "anchor", "advance", "verify",
            "materialize"}
Unsettled == {"conflict", "staged"}
Kempt ==
    /\ index # {} => wt \in Unsettled
    /\ pc \in CleanAt => wt = "clean"
    /\ pc \in {"reduce", "reduced", "remat"} => index = {}
    /\ pc \in {"reduce", "reduced", "materialize", "remat"} => op.overlay # None
    /\ pc \in {"absorb", "cursor"} => wt \in {"clean", "staged"}
    /\ pc \in {"reword", "edit"} => wt \in {"clean", "edited"}
    /\ wt = "edited" => Still /\ pc \in {"idle", "reword", "edit"} \cup Undoing
    /\ Waiting => wt \in Unsettled
    /\ pc = "paused" /\ op.state = "awaiting-absorption" => wt = "conflict" /\ index # {}
    /\ pc = "paused" /\ op.state \in {"awaiting-message", "awaiting-content"} => wt = "clean"

(* An abort puts the draft back, or leaves the worktree with nothing in it *)
(* but what the person edited.                                             *)
Untorn(o) == o.overlay = None => wt \in {"clean", "edited"}

(* What a journal waits for is in the worktree, on the branch it was made. *)
Parked ==
    /\ journal.state = "conflicted" /\ ~Still => wt \in Unsettled
    /\ journal.state \in {"awaiting-message", "awaiting-content"} /\ ~undoing => wt \in {"clean", "edited"}
    /\ journal.state = "awaiting-absorption" =>
          /\ Home # journal.orig => branch = journal.branch /\ wt \in Unsettled /\ index # {}
          /\ Home = journal.orig => index = {} /\ Untorn(journal)
    /\ pc \in Carries \/ Listens \/ (Awaits(journal.state) /\ ~undoing) => Home # journal.orig
    /\ Pending /\ journal.overlay = None => wt \in {"clean", "conflict", "staged", "edited"}

(* A draft that was put back under a finished queue.                       *)
Redrafted ==
    /\ journal.remat => /\ journal.overlay # None /\ index = {} /\ journal.state \in {"applying", "blocked"}
                        /\ pc \in {"idle"} \cup Sharing \cup Undoing
    /\ op.remat => journal.remat

(* An abort under way.                                                     *)
Undone ==
    /\ pc = "undo" /\ HEAD = op.orig => index = {} /\ Untorn(op)
    /\ pc \in {"restore", "undone", "forget"} => index = {} /\ Untorn(op)
    /\ pc \in {"undone", "forget"} /\ op.overlay # None => wt = op.overlay
    /\ pc \in {"undo", "restore"} /\ wt = "edited" => journal.remat \/ journal.state = "awaiting-absorption"

Orderly == Kempt /\ Parked /\ Redrafted /\ Undone

Ord == TypesIInv /\ (pc \in Undoing => undoing) /\ Settled /\ Orderly

(* Before a step, between steps and after the last one.                    *)
LEMMA OrderlyMoves ==
    ASSUME Ord, pc \notin {"idle"} \cup Undoing, Still', pc' \in Starting \cup Moving \cup Finishing,
           UNCHANGED undoing, Same(journal, journal'),
           journal'.state = "applying" \/ (journal' = journal /\ UNCHANGED <<wt, tip>>),
           index' # {} => wt' \in Unsettled, pc' \in CleanAt => wt' = "clean", wt' # "edited",
           pc' \in {"reduce", "reduced", "remat"} => index' = {},
           pc' \in {"reduce", "reduced", "materialize", "remat"} => op'.overlay # None,
           journal.overlay = None => wt' \in {"clean", "conflict", "staged", "edited"},
           journal'.remat => /\ journal'.overlay # None /\ index' = {} /\ journal'.state = "applying"
                             /\ pc' \in Sharing,
           op'.remat => journal'.remat
    PROVE  Orderly'
  <1>1. pc' \notin {"idle", "paused", "absorb", "cursor", "reword", "edit", "batch", "continue", "undo", "restore",
                    "undone", "forget"} \cup Carries
    BY DEF Starting, Moving, Finishing, Sharing, Carries
  <1>2. /\ journal'.state # "applying" => journal' = journal /\ UNCHANGED <<wt, tip>> /\ Home' = Home
        /\ journal.state # "awaiting-absorption" /\ ~Awaits("applying") /\ journal'.orig = journal.orig
    BY DEF Ord, Settled, Home, Awaits, Same
  <1>3. Kempt'
    BY <1>1 DEF Kempt, Waiting
  <1>4. Parked'
    BY <1>1, <1>2 DEF Parked, Listens, Ord, Orderly, Same
  <1>5. Redrafted' /\ Undone'
    BY <1>1 DEF Redrafted, Undone
  <1>6. QED
    BY <1>3, <1>4, <1>5 DEF Orderly

LEMMA OrderlyPhases ==
    ASSUME Ord, Settled', pc \notin Undoing,
           \/ RemoveDraftFiles \/ ReduceToHead \/ ResetOnto \/ OmitStep \/ PositionStep \/ AnchorStep \/ Advance
           \/ QueueDone \/ Verified \/ MaterializeOverlay \/ RecordOverlay \/ Publish \/ ReleaseAnchors
    PROVE  Orderly'
  <1> USE DEF Works, Thinks, Journals, Write, Go, Keep, gitVars, headVars, treeVars, histVars
  <1>1. /\ pc \in Starting \cup Moving \cup Finishing /\ UNCHANGED <<branch, cp, mh, undoing, objs>>
        /\ pc' \in Starting \cup Moving \cup Finishing
    BY DEF RemoveDraftFiles, ReduceToHead, ResetOnto, OmitStep, PositionStep, AnchorStep, Advance, QueueDone, Verified,
           MaterializeOverlay, RecordOverlay, Publish, ReleaseAnchors, Starting, Moving, Finishing, Sharing, Undoing
  <1>2. pc \notin {"idle"} \cup Undoing /\ Still /\ Still' /\ pc \notin {"reword", "edit"}
    BY <1>1 DEF Ord, Settled, Still, Starting, Moving, Finishing, Sharing, Undoing
  <1>3. /\ Same(journal, op) /\ Sound(op) /\ op.state = "applying"
        /\ pc \notin Moving => journal = op
        /\ Same(journal, journal)
    BY <1>1, <1>2, Runs, RunsOn DEF Ord, TypesIInv, Same
  <1>4. /\ wt # "edited" /\ (index # {} => wt \in Unsettled) /\ (pc \in CleanAt => wt = "clean")
        /\ journal.remat => journal.overlay # None /\ index = {} /\ pc \in Sharing
        /\ op.remat => journal.remat
        /\ journal.overlay = None => wt \in {"clean", "conflict", "staged", "edited"}
        /\ pc \in {"reduce", "reduced", "remat"} => index = {}
        /\ pc \in {"reduce", "reduced", "materialize", "remat"} => op.overlay # None
    <2>1. Pending
      BY <1>2, Runs DEF Ord, TypesIInv
    <2>2. QED
      BY <1>2, <2>1 DEF Ord, Orderly, Kempt, Parked, Redrafted
  <1>5. CASE RemoveDraftFiles \/ ReduceToHead \/ ResetOnto \/ PositionStep \/ MaterializeOverlay
    <2>1. /\ op' = op /\ journal' = journal /\ pc \notin Moving \cup Sharing
          /\ \/ pc = "reduce" /\ pc' = "reduced" /\ wt' = "torn" /\ index' = index
             \/ pc = "reduced" /\ pc' = "reset" /\ wt' = "clean" /\ index' = index
             \/ pc' = "queue" /\ wt' = "clean" /\ index' = {}
             \/ pc = "materialize" /\ pc' = "remat" /\ wt' = "merged" /\ index' = index
      BY <1>5 DEF RemoveDraftFiles, ReduceToHead, ResetOnto, PositionStep, MaterializeOverlay, Moving, Sharing
    <2>2. journal = op /\ journal'.state = "applying" /\ ~journal'.remat /\ ~op'.remat
      BY <1>3, <1>4, <2>1
    <2>3. index' # {} => wt' \in Unsettled
      <3>1. "clean" \notin Unsettled
        BY DEF Unsettled
      <3>2. QED
        BY <1>4, <2>1, <3>1 DEF CleanAt
    <2>4. pc' \in CleanAt => wt' = "clean"
      BY <2>1 DEF CleanAt
    <2>5. /\ wt' # "edited" /\ (pc' \in {"reduce", "reduced", "remat"} => index' = {})
          /\ pc' \in {"reduce", "reduced", "materialize", "remat"} => op'.overlay # None
          /\ journal.overlay = None => wt' \in {"clean", "conflict", "staged", "edited"}
      BY <1>4, <2>1, <2>2 DEF CleanAt, Unsettled
    <2>6. QED
      BY <1>1, <1>2, <1>3, <2>1, <2>2, <2>3, <2>4, <2>5, OrderlyMoves
  <1>6. CASE QueueDone \/ Verified \/ Publish \/ ReleaseAnchors \/ AnchorStep \/ Advance \/ OmitStep
    <2>1. /\ UNCHANGED <<wt, index, tip>> /\ (journal' = journal \/ (journal' = op /\ pc = "advance"))
          /\ op' = op \/ OmitStep
          /\ \/ pc \in {"queue", "anchor", "advance"} /\ pc' \in {"queue", "verify", "anchor", "advance"}
             \/ pc = "verify" /\ pc' = "publish"
             \/ pc = "verify" /\ pc' = "materialize" /\ op.overlay # None /\ ~OmitStep
             \/ pc \in Sharing /\ pc' \in Sharing
      BY <1>2, <1>6 DEF QueueDone, Verified, Publish, ReleaseAnchors, AnchorStep, Advance, OmitStep, Sharing, Undoing
    <2>2. OmitStep => op'.remat = op.remat
      BY <1>3 DEF OmitStep, Sound, Shaped
    <2>3. /\ Same(journal, journal') /\ (journal'.state = "applying" \/ journal' = journal)
          /\ journal'.remat => journal.remat /\ journal' = journal /\ pc \in Sharing /\ op' = op
          /\ op'.remat => journal'.remat
      BY <1>3, <1>4, <2>1, <2>2 DEF Sharing, OmitStep
    <2>4. /\ pc \in CleanAt \cup Sharing /\ (pc' \in CleanAt => wt' = "clean")
          /\ pc' \notin {"reduce", "reduced", "remat"} /\ (pc' = "materialize" => op'.overlay # None)
          /\ journal'.remat => pc' \in Sharing /\ journal'.state = "applying" /\ index' = {} /\ journal'.overlay # None
      <3>1. pc \in CleanAt \cup Sharing /\ pc' \notin {"reduce", "reduced", "remat"}
        BY <2>1 DEF CleanAt, Sharing
      <3>2. pc' \in CleanAt => pc \in CleanAt
        BY <2>1 DEF CleanAt, Sharing
      <3>3. pc' = "materialize" => op'.overlay # None
        BY <2>1 DEF Sharing
      <3>4. pc \in Sharing => pc' \in Sharing /\ journal = op
        BY <1>3, <2>1 DEF Sharing, Moving
      <3>5. QED
        BY <1>3, <1>4, <2>1, <2>3, <3>1, <3>2, <3>3, <3>4
    <2>5. QED
      BY <1>1, <1>2, <1>4, <2>1, <2>3, <2>4, OrderlyMoves
  <1>7. CASE RecordOverlay
    <2>1. /\ pc = "remat" /\ pc' = "publish" /\ UNCHANGED <<wt, index, tip>> /\ journal' = op'
          /\ Turned(op, op') /\ op'.state = "applying" /\ op'.remat = TRUE
      BY <1>2, <1>3, <1>7, StepsTurn DEF RecordOverlay, Ord
    <2>2. op'.overlay = op.overlay /\ op.overlay # None /\ journal.overlay = op.overlay /\ Same(journal, journal')
      BY <1>3, <1>4, <2>1, TurnedSame DEF Same
    <2>3. index = {}
      BY <2>1 DEF Ord, TypesIInv, Repository, Orderly, Kempt
    <2>4. QED
      BY <1>1, <1>2, <1>4, <2>1, <2>2, <2>3, OrderlyMoves DEF CleanAt, Sharing
  <1>8. QED
    BY <1>5, <1>6, <1>7

(* A commit made by a command is none that was there.                      *)
LEMMA MakesNew ==
    ASSUME TypesIInv, branch' = branch,
           PickApplies \/ ContinuePick \/ CommitJoin \/ Meld \/ RewordStep \/ EditStep
    PROVE  HEAD' = New /\ New \notin 0..Len(objs) /\ branch \in Branch
  <1>1. tip' = [tip EXCEPT ![branch] = New]
    BY DEF PickApplies, ContinuePick, CommitJoin, Meld, RewordStep, EditStep, AddCommit, Amend
  <1>2. Len(objs) \in Nat /\ tip \in [Branch -> Objects] /\ branch \in Branch
    BY CommitsTrue DEF TypesIInv, Repository
  <1>3. QED
    BY <1>1, <1>2 DEF HEAD, New

(* A step of the queue that is under way.                                  *)
LEMMA OrderlySteps ==
    ASSUME Ord, Settled', pc \notin {"idle"} \cup Undoing, pc' \in Stepping \ {"reword", "edit"},
           UNCHANGED undoing, Same(journal, journal'),
           index' # {} => wt' \in Unsettled, pc' \in CleanAt => wt' = "clean", wt' # "edited",
           pc' \in {"absorb", "cursor"} => wt' \in {"clean", "staged"},
           Waiting' => wt' \in Unsettled,
           pc' = "paused" /\ op'.state = "awaiting-absorption" => wt' = "conflict" /\ index' # {},
           pc' = "paused" /\ op'.state \in {"awaiting-message", "awaiting-content"} => wt' = "clean",
           journal'.state = "conflicted" => Still' \/ wt' \in Unsettled,
           Awaits(journal'.state) => wt' = "clean",
           pc' \in Carries \/ Listens' \/ Awaits(journal'.state) => HEAD' # op.orig,
           wt' \in {"clean", "conflict", "staged"} \/ wt' = wt,
           ~journal'.remat, ~op'.remat
    PROVE  Orderly'
  <1>1. /\ pc' \notin {"idle", "undo", "restore", "undone", "forget"} \cup Undoing \cup Starting \cup Finishing
        /\ pc' \notin {"reduce", "reduced", "remat", "materialize", "reword", "edit"}
    BY DEF Stepping, Undoing, Starting, Finishing, Sharing
  <1>2. /\ Home' = HEAD' /\ journal'.orig = op.orig /\ journal'.overlay = journal.overlay /\ Pending
        /\ journal.branch = journal'.branch /\ branch' = journal'.branch
        /\ journal'.state # "awaiting-absorption"
    BY <1>1, RunsOn DEF Settled, Ord, Home, HEAD, Same
  <1>3. Kempt'
    BY <1>1 DEF Kempt
  <1>4. Parked'
    <2>1. journal'.state \in {"awaiting-message", "awaiting-content"} => wt' = "clean"
      BY DEF Awaits
    <2>2. journal.overlay = None => wt' \in {"clean", "conflict", "staged", "edited"}
      BY <1>2 DEF Ord, Orderly, Parked
    <2>3. QED
      BY <1>2, <2>1, <2>2 DEF Parked
  <1>5. Redrafted' /\ Undone'
    BY <1>1 DEF Redrafted, Undone
  <1>6. QED
    BY <1>3, <1>4, <1>5 DEF Orderly

LEMMA OrderlyInStep ==
    ASSUME Ord, Settled',
           \/ BeginStep \/ PickApplies \/ PickConflicts \/ StepBlocked \/ MergeApplies \/ MergeConflicts
           \/ MergeJoinsNothing \/ ApplyForecast \/ ContinuePick \/ CommitJoin
           \/ BeginAbsorption \/ AbsorbApplies \/ AbsorbConflicts \/ AbsorbBlocked \/ AdvanceCursor \/ Meld
           \/ FinishStep \/ RewordStep \/ EditStep
    PROVE  Orderly'
  <1> USE DEF Works, Thinks, Journals, Write, Go, gitVars, headVars, treeVars, histVars
  <1>1. pc \in {"queue"} \cup Stepping /\ UNCHANGED <<branch, undoing>>
    BY DEF BeginStep, PickApplies, PickConflicts, StepBlocked, MergeApplies, MergeConflicts,
           MergeJoinsNothing, ApplyForecast, ContinuePick, CommitJoin,
           BeginAbsorption, AbsorbApplies, AbsorbConflicts, AbsorbBlocked, AdvanceCursor, Meld,
           FinishStep, RewordStep, EditStep, Stepping
  <1>2. pc \notin {"idle"} \cup Undoing \cup Sharing
    BY <1>1 DEF Stepping, Undoing, Sharing
  <1>3. /\ Same(journal, op) /\ Sound(op) /\ op.current \in Current /\ Typed(op, Len(objs)) /\ Home = HEAD
        /\ op.orig \in 0..Len(objs) /\ Pending
    BY <1>2, RunsOn, OperationTrue DEF Sound, Ord, Objects
  <1>4. /\ Same(journal, journal) /\ journal.orig = op.orig /\ ~journal.remat /\ ~op.remat
        /\ journal.state # "awaiting-absorption"
        /\ wt = "edited" => pc \in {"reword", "edit"}
        /\ index # {} => wt \in Unsettled
        /\ pc \in CleanAt => wt = "clean"
        /\ pc \in Carries => HEAD # op.orig
        /\ pc \in {"pick", "merge", "join", "absorb", "cursor", "finish"} => journal = op /\ op.state = "applying"
    <2>1. ~journal.remat /\ ~op.remat
      BY <1>2 DEF Ord, Orderly, Redrafted
    <2>2. wt = "edited" => pc \in {"reword", "edit"}
      BY <1>2 DEF Ord, Orderly, Kempt
    <2>3. Same(journal, journal) /\ journal.orig = op.orig
      BY <1>3 DEF Same
    <2>4. pc \in Carries => HEAD # op.orig
      BY <1>3, <2>3 DEF Ord, Orderly, Parked
    <2>5. /\ pc \in {"pick", "merge", "join", "absorb", "cursor", "finish"} => journal = op /\ op.state = "applying"
          /\ journal.state # "awaiting-absorption"
      BY <1>2 DEF Ord, Settled, Written
    <2>6. QED
      BY <2>1, <2>2, <2>3, <2>4, <2>5 DEF Ord, Orderly, Kempt
  <1>5. ~Awaits("applying") /\ ~Awaits("conflicted") /\ ~Awaits("blocked")
    BY DEF Awaits
  <1>6. CASE BeginStep
    <2>1. /\ pc = "queue" /\ pc' = NextStep.kind /\ NextStep.kind # "omit" /\ journal' = op' /\ UNCHANGED <<wt, index>>
          /\ MoreSteps
      BY <1>6 DEF BeginStep
    <2>2. op'.state = "applying" /\ op'.remat = op.remat /\ Same(op, op')
      BY <1>3, <1>6 DEF BeginStep, Sound, Shaped, Same
    <2>3. pc' \in {"pick", "merge"}
      BY <1>2, <2>1, OperationTrue DEF Ord
    <2>4. wt = "clean" /\ Same(journal, journal')
      BY <1>3, <1>4, <2>1, <2>2 DEF CleanAt, Same
    <2>5. QED
      BY <1>1, <1>2, <1>4, <1>5, <2>1, <2>2, <2>3, <2>4, OrderlySteps DEF Stepping, Waiting, Listens, Carries
  <1>7. CASE PickApplies
    <2>1. pc = "pick" /\ pc' \in {"finish", "absorb"} /\ UNCHANGED <<op, journal, wt, index>>
      BY <1>7 DEF PickApplies
    <2>2. wt = "clean" /\ HEAD' # op.orig
      BY <1>1, <1>3, <1>4, <1>7, <2>1, MakesNew DEF CleanAt, Ord
    <2>3. QED
      BY <1>1, <1>2, <1>4, <1>5, <2>1, <2>2, OrderlySteps DEF Stepping, Waiting, Listens
  <1>8. CASE PickConflicts \/ MergeConflicts
    <2>1. pc \in {"pick", "merge"} /\ pc' = "paused" /\ journal' = journal /\ wt' = "conflict"
      BY <1>8 DEF PickConflicts, MergeConflicts
    <2>2. op'.state = "conflicted" /\ op'.remat = op.remat
      BY <1>2, <1>8, StepsTurn DEF Ord
    <2>3. wt' \in Unsettled
      BY <2>1 DEF Unsettled
    <2>4. QED
      BY <1>1, <1>2, <1>4, <1>5, <2>1, <2>2, <2>3, OrderlySteps DEF Stepping, Listens, CleanAt, Carries
  <1>9. CASE StepBlocked \/ MergeJoinsNothing \/ AbsorbBlocked
    <2>1. pc \in {"pick", "merge", "absorb"} /\ pc' = "paused" /\ journal' = journal /\ UNCHANGED <<wt, index>>
      BY <1>9 DEF StepBlocked, MergeJoinsNothing, AbsorbBlocked
    <2>2. op'.state = "blocked" /\ op'.remat = op.remat
      BY <1>2, <1>9, StepsTurn DEF Ord
    <2>3. QED
      BY <1>1, <1>2, <1>4, <1>5, <2>1, <2>2, OrderlySteps DEF Stepping, Waiting, Listens, CleanAt, Carries
  <1>10. CASE MergeApplies
    <2>1. pc = "merge" /\ pc' = "join" /\ UNCHANGED <<journal, op>> /\ wt' = "staged"
      BY <1>10 DEF MergeApplies
    <2>2. wt' \in Unsettled
      BY <2>1 DEF Unsettled
    <2>3. QED
      BY <1>1, <1>2, <1>4, <1>5, <2>1, <2>2, OrderlySteps DEF Stepping, Waiting, Listens, CleanAt, Carries
  <1>11. CASE ApplyForecast
    <2>1. /\ pc = "paused" /\ op.state = "conflicted" /\ pc' = "batch" /\ journal' = op /\ op' = op /\ wt' = "staged"
          /\ index' = index
      BY <1>11 DEF ApplyForecast
    <2>2. wt' \in Unsettled
      BY <2>1 DEF Unsettled
    <2>3. QED
      BY <1>1, <1>2, <1>3, <1>4, <1>5, <2>1, <2>2, OrderlySteps DEF Stepping, Listens, CleanAt, Carries
  <1>12. CASE ContinuePick \/ CommitJoin
    <2>1. /\ pc \in {"join", "batch", "continue"} /\ pc' \in {"record", "record-join"} /\ UNCHANGED <<op, journal>>
          /\ wt' = "clean" /\ index' = {}
      BY <1>12 DEF ContinuePick, CommitJoin
    <2>2. Still' /\ HEAD' # op.orig
      BY <1>1, <1>3, <1>12, <2>1, MakesNew DEF Settled, Ord
    <2>3. journal = op
      BY <2>1 DEF Ord, Settled, Written
    <2>4. QED
      BY <1>1, <1>2, <1>4, <1>5, <2>1, <2>2, <2>3, OrderlySteps DEF Stepping, Waiting, Listens
  <1>13. CASE BeginAbsorption \/ AdvanceCursor
    <2>1. pc \in {"absorb", "cursor"} /\ pc' = "absorb" /\ journal' = op' /\ UNCHANGED <<wt, index, tip>>
      BY <1>13 DEF BeginAbsorption, AdvanceCursor
    <2>2. Turned(op, op') /\ op'.state = op.state /\ op'.remat = op.remat
      BY <1>2, <1>13, StepsTurn DEF Ord
    <2>3. HEAD' # op.orig /\ Same(journal, journal')
      BY <1>1, <1>3, <1>4, <2>1, <2>2, TurnedSame DEF HEAD, Carries, Same
    <2>4. wt \in {"clean", "staged"}
      BY <2>1 DEF Ord, Orderly, Kempt
    <2>5. QED
      BY <1>1, <1>2, <1>4, <1>5, <2>1, <2>2, <2>3, <2>4, OrderlySteps DEF Stepping, Waiting, Listens, CleanAt
  <1>14. CASE AbsorbApplies
    <2>1. /\ pc = "absorb" /\ pc' = "cursor" /\ UNCHANGED <<op, journal, tip>> /\ index \subseteq index'
          /\ wt' = IF index' = {} THEN wt ELSE "staged"
      BY <1>14 DEF AbsorbApplies
    <2>2. HEAD' # op.orig /\ wt \in {"clean", "staged"}
      BY <1>1, <1>4, <2>1 DEF HEAD, Carries, Ord, Orderly, Kempt
    <2>3. QED
      BY <1>1, <1>2, <1>4, <1>5, <2>1, <2>2, OrderlySteps DEF Stepping, Waiting, Listens, CleanAt, Unsettled
  <1>15. CASE AbsorbConflicts
    <2>1. /\ pc = "absorb" /\ pc' = "paused" /\ UNCHANGED <<journal, tip>> /\ wt' = "conflict"
          /\ index' # {}
      BY <1>15 DEF AbsorbConflicts
    <2>2. op'.state = "awaiting-absorption" /\ op'.remat = op.remat
      BY <1>2, <1>15, StepsTurn DEF Ord
    <2>3. HEAD' # op.orig
      BY <1>1, <1>4, <2>1 DEF HEAD, Carries
    <2>4. QED
      BY <1>1, <1>2, <1>4, <1>5, <2>1, <2>2, <2>3, OrderlySteps DEF Stepping, Waiting, CleanAt, Unsettled
  <1>16. CASE Meld
    <2>1. /\ pc = "absorb" /\ pc' = "finish" /\ UNCHANGED <<op, journal>> /\ wt' = "clean" /\ index' = {}
      BY <1>16 DEF Meld
    <2>2. HEAD' # op.orig
      BY <1>1, <1>3, <1>16, MakesNew DEF Ord
    <2>3. QED
      BY <1>1, <1>2, <1>4, <1>5, <2>1, <2>2, OrderlySteps DEF Stepping, Waiting, Listens
  <1>17. CASE FinishStep
    <2>1. pc = "finish" /\ UNCHANGED <<journal, tip, wt, index>> /\ pc' \in {"record", "paused"}
          /\ (pc' = "record" => op' = op)
      BY <1>17 DEF FinishStep
    <2>2. /\ pc' = "paused" => op'.state \in {"awaiting-message", "awaiting-content"}
          /\ op'.remat = op.remat
      BY <1>2, <1>17, <2>1, StepsTurn DEF Ord
    <2>3. HEAD' # op.orig /\ wt = "clean"
      BY <1>1, <1>4, <2>1 DEF HEAD, Carries, CleanAt
    <2>4. QED
      BY <1>1, <1>2, <1>4, <1>5, <2>1, <2>2, <2>3, OrderlySteps DEF Stepping, Waiting
  <1>18. CASE RewordStep \/ EditStep
    <2>1. /\ pc \in {"reword", "edit"} /\ UNCHANGED <<journal, index, cp, mh>>
          /\ (pc' = "record" /\ (op' = op \/ EditStep)) \/ (RewordStep /\ pc' = "paused")
          /\ wt' = IF wt = "edited" THEN "clean" ELSE wt
      BY <1>18, Zenon DEF RewordStep, EditStep
    <2>2. (pc' = "paused" => op'.state = "blocked") /\ op'.remat = op.remat
      BY <1>2, <2>1, StepsTurn DEF Ord
    <2>3. HEAD' # op.orig /\ wt \in {"clean", "edited"}
      BY <1>1, <1>3, <1>18, <2>1, MakesNew DEF Ord, Orderly, Kempt
    <2>4. wt' = "clean" /\ index = {} /\ Still'
      BY <1>4, <2>1, <2>2, <2>3 DEF Unsettled, Settled, Still, Ord
    <2>5. QED
      BY <1>1, <1>2, <1>4, <1>5, <2>1, <2>2, <2>3, <2>4, OrderlySteps DEF Stepping, Waiting, Awaits
  <1>19. QED
    BY <1>6, <1>7, <1>8, <1>9, <1>10, <1>11, <1>12, <1>13, <1>14, <1>15, <1>16, <1>17, <1>18

LEMMA OrderlyEnds ==
    ASSUME Ord, Settled', RecordApplication \/ RecordJoin
    PROVE  Orderly'
  <1> USE DEF Keep, Thinks, Go, gitVars, headVars, treeVars, histVars
  <1>1. /\ pc \in {"record", "record-join"} /\ UNCHANGED <<journal, branch, tip, cp, mh, wt, index, undoing>>
        /\ pc' \in {"anchor", "advance"} \/ (pc' = "paused" /\ RecordApplication)
    BY DEF RecordApplication, RecordJoin
  <1>2. /\ pc \notin {"idle"} \cup Undoing \cup Sharing /\ Still /\ Still' /\ Sound(op)
        /\ Same(journal, journal') /\ Home = HEAD /\ journal.orig = op.orig
    <2>1. pc \notin {"idle"} \cup Undoing \cup Sharing
      BY <1>1 DEF Undoing, Sharing
    <2>2. QED
      BY <1>1, <2>1, RunsOn DEF Ord, Settled, Same, Still
  <1>3. wt = "clean" /\ index = {} /\ ~journal.remat /\ ~op.remat
    BY <1>1, <1>2 DEF Ord, Orderly, Kempt, Redrafted, CleanAt, Unsettled
  <1>4. CASE pc' # "paused"
    <2>1. op'.remat = op.remat
      BY <1>1, <1>2, <1>4 DEF RecordApplication, RecordJoin, Recorded, Sound, Shaped
    <2>2. QED
      BY <1>1, <1>2, <1>3, <1>4, <2>1, OrderlyMoves DEF Moving
  <1>5. CASE pc' = "paused"
    <2>1. op'.state = "blocked" /\ op'.remat = op.remat
      BY <1>1, <1>2, <1>5, StepsTurn DEF Ord
    <2>2. pc = "record" /\ HEAD' = HEAD
      BY <1>1, <1>5 DEF HEAD, RecordApplication
    <2>3. HEAD' # op.orig
      BY <1>2, <2>2 DEF Ord, Orderly, Parked, Carries
    <2>4. QED
      BY <1>1, <1>2, <1>3, <1>5, <2>1, <2>3, OrderlySteps DEF Stepping, Waiting, Listens, Awaits, Carries
  <1>6. QED
    BY <1>4, <1>5

(* An abort, from its reset on.                                            *)
LEMMA OrderlyUndoes ==
    ASSUME Ord, Settled', pc \in Undoing, AbortReset \/ AbortRestore \/ ReleaseAnchors
    PROVE  Orderly'
  <1> USE DEF Works, Go, gitVars, headVars, treeVars, histVars
  <1>1. /\ UNCHANGED <<op, journal, branch, cp, mh, undoing>> /\ pc' \in {"restore", "undone", "forget"}
        /\ pc' # "restore" => tip' = tip
    BY DEF AbortReset, AbortRestore, ReleaseAnchors, Undoing
  <1>2. /\ pc # "idle" /\ journal = op /\ undoing /\ Still /\ Home = HEAD /\ branch = journal.branch /\ Pending
        /\ op.overlay = None => wt \in {"clean", "conflict", "staged", "edited"}
    <2>1. pc # "idle" /\ journal = op /\ undoing /\ Home = HEAD /\ branch = journal.branch /\ Pending
      BY Runs, RunsOn DEF Ord, Undoing, TypesIInv
    <2>2. QED
      BY <2>1 DEF Ord, Orderly, Parked, Settled, Undoing
  <1>3. Still' /\ Home' = HEAD' /\ HEAD' = op.orig
    BY <1>1, <1>2 DEF Settled, Still, Home, HEAD
  <1>4. /\ index' = {} /\ (op.overlay = None => wt' \in {"clean", "edited"})
        /\ pc' = "restore" /\ wt' = "edited" => journal.remat \/ journal.state = "awaiting-absorption"
        /\ pc' \in {"undone", "forget"} /\ op.overlay # None => wt' = op.overlay
    <2>1. CASE AbortReset
      <3>1. /\ pc = "undo" /\ pc' = "restore"
            /\ \/ HEAD = op.orig /\ wt' = wt /\ index' = index
               \/ index' = {} /\ wt' = "clean"
               \/ index' = {} /\ wt' = "torn" /\ wt = "merged"
        BY <2>1 DEF AbortReset
      <3>2. QED
        BY <1>2, <3>1 DEF Ord, Orderly, Undone, Untorn
    <2>2. CASE AbortRestore
      <3>1. pc = "restore" /\ pc' = "undone" /\ index' = index /\ wt' = IF op.overlay = None THEN wt ELSE op.overlay
        BY <2>2 DEF AbortRestore
      <3>2. QED
        BY <1>2, <3>1 DEF Ord, Orderly, Undone, Untorn
    <2>3. CASE ReleaseAnchors
      <3>1. pc = "undone" /\ pc' = "forget" /\ UNCHANGED <<wt, index>>
        BY <2>3 DEF ReleaseAnchors, Undoing
      <3>2. QED
        BY <1>2, <3>1 DEF Ord, Orderly, Undone, Untorn
    <2>4. QED
      BY <2>1, <2>2, <2>3
  <1>5. pc' \notin CleanAt \cup Carries \cup {"reduce", "reduced", "remat", "materialize", "paused", "batch", "continue", "undo"}
        /\ pc' \in Undoing
    BY <1>1 DEF CleanAt, Carries, Undoing
  <1>6. Kempt'
    BY <1>1, <1>3, <1>4, <1>5 DEF Kempt, Waiting, Carries
  <1>7. Parked'
    BY <1>1, <1>2, <1>3, <1>4, <1>5 DEF Parked, Listens, Untorn
  <1>8. Redrafted'
    BY <1>1, <1>4, <1>5 DEF Ord, Orderly, Redrafted
  <1>9. Undone'
    BY <1>1, <1>4, <1>5 DEF Undone, Untorn
  <1>10. QED
    BY <1>6, <1>7, <1>8, <1>9 DEF Orderly

LEMMA OrderlyStops ==
    ASSUME Ord, Pause \/ Mismatch \/ OverlayMismatch \/ CommitFails \/ Crash \/ ClearJournal \/ AbortClear
    PROVE  Orderly'
  <1> USE DEF Stop, Go, gitVars, headVars, treeVars
  <1>1. pc # "idle" /\ pc' = "idle" /\ op' = NoOperation /\ UNCHANGED <<branch, tip, cp, mh, wt, index>>
    BY DEF Pause, Mismatch, OverlayMismatch, CommitFails, Crash, ClearJournal, AbortClear
  <1>2. /\ Same(journal, op) /\ Home = HEAD /\ branch = journal.branch /\ Pending
        /\ (Still' <=> Still) /\ HEAD' = HEAD
    BY <1>1, RunsOn DEF Ord, Still, HEAD
  <1>3. Kempt'
    BY <1>1, <1>2 DEF Ord, Orderly, Kempt, CleanAt, Waiting
  <1>4. Undone' /\ ~op'.remat
    BY <1>1 DEF Undone, NoOperation
  <1>5. pc' \notin Carries /\ ~Listens'
    BY <1>1 DEF Carries, Listens
  <1>6. CASE CommitFails \/ Crash
    <2>1. UNCHANGED <<journal, undoing>>
      BY <1>6 DEF CommitFails, Crash, histVars
    <2>2. Home' = Home
      BY <1>1, <2>1 DEF Home
    <2>3. Parked'
      BY <1>1, <1>2, <1>5, <2>1, <2>2 DEF Ord, Orderly, Parked, Untorn
    <2>4. Redrafted'
      BY <1>1, <1>4, <2>1 DEF Ord, Orderly, Redrafted
    <2>5. QED
      BY <1>3, <1>4, <2>3, <2>4 DEF Orderly
  <1>7. CASE ClearJournal \/ AbortClear
    <2>1. journal' = NoOperation
      BY <1>7 DEF ClearJournal, AbortClear
    <2>2. journal'.state = "applying" /\ ~journal'.remat /\ ~Pending'
      BY <2>1 DEF NoOperation, Pending
    <2>3. Parked' /\ Redrafted'
      BY <1>4, <1>5, <2>2 DEF Parked, Redrafted, Awaits
    <2>4. QED
      BY <1>3, <1>4, <2>3 DEF Orderly
  <1>8. CASE Pause \/ Mismatch \/ OverlayMismatch
    <2>1. /\ Turned(op, journal') /\ (journal'.state = "blocked" \/ (journal' = op /\ pc = "paused"))
          /\ OverlayMismatch => journal'.remat /\ journal'.state = "blocked"
          /\ ~OverlayMismatch => journal'.remat = op.remat
      BY <1>1, <1>8, StepsTurn DEF Ord
    <2>2. /\ journal'.branch = journal.branch /\ journal'.overlay = journal.overlay /\ journal'.orig = journal.orig
          /\ Home' = Home
      BY <1>1, <1>2, <2>1, TurnedSame DEF Same, Home
    <2>3. OverlayMismatch => pc = "remat"
      BY DEF OverlayMismatch
    <2>4. pc \notin {"idle"} \cup Sharing \cup Undoing
      BY <1>8 DEF Pause, Mismatch, OverlayMismatch, Sharing, Undoing
    <2>5. Redrafted'
      <3>1. ~op.remat
        BY <2>4 DEF Ord, Orderly, Redrafted
      <3>2. OverlayMismatch => index = {} /\ journal.overlay # None
        BY <1>2, <2>3 DEF Ord, Orderly, Kempt, Same
      <3>3. QED
        BY <1>1, <1>4, <2>1, <2>2, <3>1, <3>2 DEF Redrafted
    <2>6. journal.overlay = None => wt \in {"clean", "conflict", "staged", "edited"}
      BY <1>2 DEF Ord, Orderly, Parked
    <2>7. CASE journal'.state = "blocked"
      BY <1>1, <1>3, <1>4, <1>5, <2>2, <2>5, <2>6, <2>7 DEF Orderly, Parked, Awaits
    <2>8. CASE journal' = op /\ pc = "paused"
      <3>1. /\ op.state = "conflicted" => wt \in Unsettled
            /\ op.state \in {"awaiting-message", "awaiting-content"} => wt = "clean"
            /\ op.state = "awaiting-absorption" => wt = "conflict" /\ index # {}
        BY <2>8 DEF Ord, Orderly, Kempt, Waiting
      <3>2. Awaits(op.state) => Home # journal.orig
        BY <2>8 DEF Ord, Orderly, Parked, Listens
      <3>3. op.state = "awaiting-absorption" => Awaits(op.state)
        BY DEF Awaits
      <3>4. Parked'
        BY <1>1, <1>2, <1>5, <2>2, <2>6, <2>8, <3>1, <3>2, <3>3 DEF Parked, Unsettled
      <3>5. QED
        BY <1>3, <1>4, <2>5, <3>4 DEF Orderly
    <2>9. QED
      BY <2>1, <2>7, <2>8
  <1>9. QED
    BY <1>6, <1>7, <1>8

LEMMA OrderlyBegins ==
    ASSUME Ord, TypesIInv', Begins
    PROVE  Orderly'
  <1>1. /\ pc' \in {"reset", "reduce"} /\ journal' = op' /\ op'.state = "applying" /\ op'.remat = FALSE
        /\ UNCHANGED <<wt, index>>
        /\ pc' = (IF op'.overlay = None THEN "reset" ELSE "reduce")
        /\ wt = (IF op'.overlay = None THEN "clean" ELSE op'.overlay)
    BY BeginsAnew DEF Ord
  <1>2. wt \in {"clean", "draft"}
    BY <1>1 DEF TypesIInv, Memory, Typed
  <1>3. index = {}
    BY <1>2 DEF Ord, Orderly, Kempt, Unsettled
  <1>4. Kempt'
    BY <1>1, <1>2, <1>3 DEF Kempt, Waiting, CleanAt
  <1>5. Parked'
    BY <1>1, <1>2, <1>3 DEF Parked, Listens, Awaits, Carries
  <1>6. Redrafted' /\ Undone'
    BY <1>1 DEF Redrafted, Undone
  <1>7. QED
    BY <1>4, <1>5, <1>6 DEF Orderly

LEMMA OrderlyContinues ==
    ASSUME Ord, Settled', Continues, ~meddled'
    PROVE  Orderly'
  <1> USE DEF Resumes, Go, gitVars, headVars, treeVars
  <1>1. /\ Pending /\ Continuable(journal) /\ ~undoing /\ undoing' = undoing /\ branch = journal.branch
        /\ UNCHANGED <<tip, branch, cp, mh, wt, index>> /\ wt # "conflict"
    BY DEF Continues, ContinueConflict, ContinueMessage, ContinueContent, ContinueAbsorption, Continuable, OnBranch
  <1>2. /\ Turned(journal, op') /\ journal' = op' /\ op'.remat = journal.remat
        /\ \/ pc' = "continue" /\ journal.state = "conflicted" /\ op'.state = "conflicted"
           \/ pc' = "reword" /\ journal.state = "awaiting-message" /\ op' = journal
           \/ pc' = "edit" /\ journal.state = "awaiting-content" /\ op' = journal
           \/ pc' = "absorb" /\ journal.state = "awaiting-absorption" /\ op'.state = "applying"
    BY ContinuesTurn DEF Ord
  <1>3. /\ Home' = Home /\ journal'.orig = journal.orig /\ journal'.overlay = journal.overlay
        /\ (Still' <=> Still) /\ ~journal.remat
    <2>1. ~journal.remat
      BY <1>2 DEF Ord, Orderly, Redrafted
    <2>2. QED
      BY <1>1, <1>2, <2>1, TurnedSame DEF Same, Home, Still
  <1>4. /\ pc' # "continue" => Home # journal.orig /\ Awaits(journal.state)
        /\ pc' \in {"reword", "edit"} => wt \in {"clean", "edited"}
        /\ pc' = "absorb" => wt = "staged"
        /\ pc' = "continue" => wt \in Unsettled
    <2>1. pc' # "continue" => Awaits(journal.state)
      BY <1>2 DEF Awaits
    <2>2. pc' # "continue" => Home # journal.orig
      BY <1>1, <2>1 DEF Ord, Orderly, Parked
    <2>3. pc' = "continue" => ~Still
      BY <1>1, <1>2 DEF Continuable, PendingInGit, Still
    <2>4. pc' = "absorb" => wt \in Unsettled
      BY <1>1, <1>2, <2>2 DEF Ord, Orderly, Parked
    <2>5. pc' \in {"reword", "edit"} => wt \in {"clean", "edited"}
      BY <1>1, <1>2 DEF Ord, Orderly, Parked
    <2>6. pc' = "continue" => wt \in Unsettled
      BY <1>2, <2>3 DEF Ord, Orderly, Parked
    <2>7. QED
      BY <1>1, <2>1, <2>2, <2>4, <2>5, <2>6 DEF Unsettled
  <1>5. Kempt'
    <2>1. wt = "edited" => Still /\ pc' \in {"reword", "edit"}
      BY <1>2, <1>4 DEF Ord, Orderly, Kempt, Unsettled
    <2>2. index # {} => wt \in Unsettled
      BY DEF Ord, Orderly, Kempt
    <2>3. QED
      BY <1>1, <1>2, <1>3, <1>4, <2>1, <2>2 DEF Kempt, Waiting, CleanAt
  <1>6. Parked'
    <2>1. journal.overlay = None => wt \in {"clean", "conflict", "staged", "edited"}
      BY <1>1 DEF Ord, Orderly, Parked
    <2>2. pc' = "continue" => pc' \notin Carries /\ ~Listens' /\ ~Awaits(journal'.state)
      BY <1>2 DEF Carries, Listens, Awaits
    <2>3. journal'.state # "awaiting-absorption"
      BY <1>2
    <2>4. journal'.state \in {"awaiting-message", "awaiting-content"} => wt \in {"clean", "edited"}
      BY <1>2, <1>4
    <2>5. journal'.state = "conflicted" => wt \in Unsettled
      BY <1>2, <1>4
    <2>6. QED
      BY <1>1, <1>3, <1>4, <2>1, <2>2, <2>3, <2>4, <2>5 DEF Parked
  <1>7. Redrafted' /\ Undone'
    BY <1>2, <1>3 DEF Redrafted, Undone
  <1>8. QED
    BY <1>5, <1>6, <1>7 DEF Orderly

LEMMA OrderlyAborts ==
    ASSUME Ord, Abort
    PROVE  Orderly'
  <1>1. /\ Pending /\ branch = journal.branch /\ Still' /\ op' = journal /\ pc' = "undo" /\ undoing' = TRUE
        /\ UNCHANGED <<branch, tip, journal>> /\ Disposable(journal) /\ pc = "idle"
        /\ IF Still THEN wt' = wt /\ index' = index ELSE wt' = "clean" /\ index' = {}
    BY DEF Abort, OnBranch, Still, Go, headVars
  <1>2. /\ Home' = Home /\ HEAD' = Home
        /\ Awaits(journal.state) => Still
    BY <1>1 DEF Home, HEAD, Ord, Settled
  <1>3. /\ wt' = "clean" \/ (wt' = wt /\ Still)
        /\ index' # {} => wt' \in Unsettled
        /\ index' = {} \/ index' = index
    BY <1>1 DEF Ord, Orderly, Kempt
  <1>4. Kempt'
    BY <1>1, <1>3 DEF Kempt, Waiting, CleanAt, Undoing
  <1>5. Parked'
    <2>1. pc' \notin Carries /\ ~Listens'
      BY <1>1 DEF Carries, Listens
    <2>2. journal.overlay = None => wt' \in {"clean", "conflict", "staged", "edited"}
      BY <1>1, <1>3 DEF Ord, Orderly, Parked
    <2>3. journal.state = "awaiting-absorption" =>
             /\ wt' = wt /\ index' = index
             /\ Home # journal.orig => branch = journal.branch /\ wt \in Unsettled /\ index # {}
             /\ Home = journal.orig => index = {} /\ Untorn(journal)
      BY <1>1, <1>2 DEF Ord, Orderly, Parked, Awaits
    <2>4. QED
      BY <1>1, <1>2, <2>1, <2>2, <2>3 DEF Parked, Untorn
  <1>6. journal.remat => journal.overlay # None /\ index = {} /\ journal.state \in {"applying", "blocked"}
    BY DEF Ord, Orderly, Redrafted
  <1>7. Redrafted'
    BY <1>1, <1>3, <1>6 DEF Redrafted, Undoing
  <1>8. Undone'
    <2>1. Home = journal.orig => index' = {} /\ (journal.overlay = None => wt' \in {"clean", "edited"})
      <3>1. CASE ~Still \/ wt = "clean"
        <4>1. "clean" \notin Unsettled
          BY DEF Unsettled
        <4>2. QED
          BY <1>1, <1>3, <3>1, <4>1
      <3>2. CASE journal.state = "awaiting-absorption"
        BY <1>1, <1>2, <3>2 DEF Ord, Orderly, Parked, Awaits, Untorn
      <3>3. CASE journal.remat
        BY <1>3, <1>6, <3>3
      <3>4. QED
        BY <1>1, <3>1, <3>2, <3>3 DEF Disposable, Still
    <2>2. wt' = "edited" => journal.remat \/ journal.state = "awaiting-absorption"
      BY <1>1, <1>3 DEF Disposable, Still
    <2>3. QED
      BY <1>1, <1>2, <2>1, <2>2 DEF Undone, Untorn
  <1>9. QED
    BY <1>4, <1>5, <1>7, <1>8 DEF Orderly

(* What the person does: between commands, nothing but this matters.       *)
LEMMA OrderlyRest ==
    ASSUME Ord, pc = "idle", UNCHANGED <<journal, op, pc, undoing>>,
           index' # {} => wt' \in Unsettled, wt' = "edited" => Still', index' = {} \/ index' = index, Parked'
    PROVE  Orderly'
  <1>1. op' = NoOperation /\ op = NoOperation
    BY DEF Ord, TypesIInv, Memory
  <1>2. Kempt'
    BY DEF Kempt, Waiting, CleanAt
  <1>3. ~op'.remat
    BY <1>1 DEF NoOperation
  <1>4. Redrafted' /\ Undone'
    BY <1>3 DEF Ord, Orderly, Redrafted, Undone
  <1>5. QED
    BY <1>2, <1>4 DEF Orderly

LEMMA OrderlyRests ==
    ASSUME Ord, Settled', PersonStep \/ Forecasts \/ UNCHANGED vars, ~meddled'
    PROVE  Orderly'
  <1> USE DEF Outside, Acts, ActsIf, AtRest, procVars, gitVars, headVars, treeVars, histVars
  <1>1. UNCHANGED <<journal, op, pc, undoing>> /\ (PersonStep \/ Forecasts => pc = "idle")
    BY RestsAlone
  <1>2. ASSUME UNCHANGED <<branch, tip, cp, mh, wt, index>>
        PROVE  Orderly'
    <2>1. /\ Still' <=> Still
          /\ HEAD' = HEAD /\ Home' = Home
          /\ Untorn(op)' <=> Untorn(op)
          /\ Untorn(journal)' <=> Untorn(journal)
          /\ Waiting' <=> Waiting
          /\ Listens' <=> Listens
          /\ Pending' <=> Pending
      BY <1>1, <1>2 DEF Still, HEAD, Home, Untorn, Waiting, Listens, Pending
    <2>2. Kempt' /\ Redrafted' /\ Undone'
      BY <1>1, <1>2, <2>1 DEF Ord, Orderly, Kempt, Redrafted, Undone
    <2>3. Parked'
      BY <1>1, <1>2, <2>1 DEF Ord, Orderly, Parked
    <2>4. QED
      BY <2>2, <2>3 DEF Orderly
  <1>3. CASE UNCHANGED vars
    BY <1>2, <1>3 DEF vars
  <1>4. CASE Forecasts
    BY <1>2, <1>4 DEF Forecasts, Forecast
  <1>5. /\ pc = "idle" => pc \notin Carries /\ ~Listens
        /\ Awaits(journal.state) <=> journal.state \in {"awaiting-message", "awaiting-content", "awaiting-absorption"}
        /\ Pending' <=> Pending
    BY <1>1 DEF Carries, Listens, Awaits, Pending
  <1>6. /\ Awaits(journal.state) => Pending /\ Still /\ (branch = journal.branch => Paused)
        /\ index # {} => wt \in Unsettled
        /\ wt = "edited" => Still
        /\ tip \in [Branch -> Objects] /\ branch \in Branch /\ journal.branch \in Branch
        /\ Pending => journal.branch # "main"
    <2>1. Awaits(journal.state) => Pending
      BY DEF Awaits, Pending, NoOperation
    <2>2. Awaits(journal.state) => Still /\ (branch = journal.branch => Paused)
      BY <2>1 DEF Ord, Settled, Paused, OnBranch, Awaits
    <2>3. tip \in [Branch -> Objects] /\ branch \in Branch /\ journal.branch \in Branch
      BY DEF Ord, TypesIInv, Repository, Memory, Typed
    <2>4. QED
      BY <2>1, <2>2, <2>3 DEF Ord, Settled, Orderly, Kempt
  <1>7. CASE Resolve
    <2>1. wt = "conflict" /\ wt' = "staged" /\ UNCHANGED <<branch, tip, cp, mh, index>> /\ pc = "idle"
      BY <1>7 DEF Resolve
    <2>2. /\ Still' <=> Still
          /\ Home' = Home
      BY <1>1, <2>1 DEF Still, Home
    <2>3. Parked'
      BY <1>1, <1>5, <2>1, <2>2 DEF Ord, Orderly, Parked, Untorn, Unsettled, Listens
    <2>4. QED
      BY <1>1, <2>1, <2>3, OrderlyRest DEF Unsettled
  <1>8. CASE GitContinue \/ GitAbandon
    <2>1. ~Still /\ Still' /\ wt' = "clean" /\ index' = {} /\ pc = "idle"
      BY <1>8 DEF GitContinue, GitAbandon, Still
    <2>2. Parked'
      BY <1>1, <1>5, <1>6, <2>1 DEF Parked, Listens
    <2>3. QED
      BY <1>1, <2>1, <2>2, OrderlyRest
  <1>9. CASE CommitAbsorbed \/ ThrowAway
    BY <1>9 DEF CommitAbsorbed, ThrowAway
  <1>10. ASSUME wt' = "clean", index' = {}, UNCHANGED tip, Still', pc = "idle",
                journal.state = "awaiting-absorption" => Home = journal.orig
         PROVE  Orderly'
    <2>1. Home' = Home
      BY <1>1, <1>10 DEF Home
    <2>2. Awaits(journal.state) /\ ~undoing => Home # journal.orig
      BY DEF Ord, Orderly, Parked
    <2>3. Parked'
      BY <1>1, <1>5, <1>10, <2>1, <2>2 DEF Parked, Listens, Untorn
    <2>4. QED
      BY <1>1, <1>10, <2>3, OrderlyRest
  <1>11. CASE \E b \in Branch : Checkout(b) \/ Land(b)
    <2>1. PICK b \in Branch : Checkout(b) \/ Land(b)
      BY <1>11
    <2>2. CASE Checkout(b)
      <3>1. /\ wt' = "clean" /\ index' = {} /\ tip' = tip /\ Still' /\ pc = "idle"
            /\ meddled' = (meddled \/ (Paused /\ index # {}))
        BY <2>2 DEF Checkout, Still
      <3>2. journal.state = "awaiting-absorption" /\ Home # journal.orig => branch = journal.branch /\ index # {}
        BY DEF Ord, Orderly, Parked
      <3>3. journal.state = "awaiting-absorption" => Home = journal.orig
        BY <1>5, <1>6, <3>1, <3>2
      <3>4. QED
        BY <1>10, <3>1, <3>3
    <2>3. CASE Land(b)
      <3>1. pc = "idle" /\ UNCHANGED <<branch, cp, mh, wt, index>> /\ tip' = [tip EXCEPT !["main"] = tip[b]]
        BY <2>3 DEF Land
      <3>2. (Pending => Home' = Home) /\ (Still' <=> Still)
        BY <1>1, <1>6, <3>1 DEF Home, Still
      <3>3. Pending \/ journal.state = "applying"
        BY DEF Pending, NoOperation
      <3>4. Parked'
        BY <1>1, <1>5, <3>1, <3>2, <3>3 DEF Ord, Orderly, Parked, Untorn, Listens
      <3>5. QED
        BY <1>1, <1>6, <3>1, <3>2, <3>4, OrderlyRest
    <2>4. QED
      BY <2>1, <2>2, <2>3
  <1>12. CASE MainMoves
    <2>1. pc = "idle" /\ UNCHANGED <<branch, cp, mh, wt, index>> /\ tip' = [tip EXCEPT !["main"] = New]
      BY <1>12 DEF MainMoves
    <2>2. (Pending => Home' = Home) /\ (Still' <=> Still)
      BY <1>1, <1>6, <2>1 DEF Home, Still
    <2>3. Pending \/ journal.state = "applying"
      BY DEF Pending, NoOperation
    <2>4. Parked'
      BY <1>1, <1>5, <2>1, <2>2, <2>3 DEF Ord, Orderly, Parked, Untorn, Listens
    <2>5. QED
      BY <1>1, <1>6, <2>1, <2>2, <2>4, OrderlyRest
  <1>13. CASE CommitOwn
    <2>1. /\ wt = "clean" /\ UNCHANGED <<branch, cp, mh, wt, index>> /\ Still /\ pc = "idle"
          /\ meddled' = (meddled \/ Paused) /\ tip' = [tip EXCEPT ![branch] = New]
      BY <1>13 DEF CommitOwn, Still, AddCommit
    <2>2. Awaits(journal.state) => branch # journal.branch /\ Home' = Home
      BY <1>1, <1>6, <2>1 DEF Home
    <2>3. "clean" \notin Unsettled
      BY DEF Unsettled
    <2>4. Parked'
      BY <1>1, <1>5, <1>6, <2>1, <2>2, <2>3 DEF Ord, Orderly, Parked, Untorn, Listens, Still
    <2>5. QED
      BY <1>1, <1>6, <2>1, <2>3, <2>4, OrderlyRest
  <1>14. CASE Edit \/ CaptureDraft
    <2>1. /\ wt = "clean" /\ UNCHANGED <<branch, tip, cp, mh, index>> /\ pc = "idle"
          /\ \/ wt' = "edited" /\ Still
             \/ wt' = "draft" /\ ~Pending
      BY <1>14 DEF Edit, CaptureDraft, Still
    <2>2. /\ Still' <=> Still
          /\ Home' = Home
      BY <1>1, <2>1 DEF Still, Home
    <2>3. index = {}
      BY <1>6, <2>1 DEF Unsettled
    <2>4. Pending \/ journal.state = "applying"
      BY DEF Pending, NoOperation
    <2>5. Parked'
      BY <1>1, <1>5, <1>6, <2>1, <2>2, <2>3, <2>4 DEF Ord, Orderly, Parked, Untorn, Listens, Unsettled
    <2>6. QED
      BY <1>1, <2>1, <2>2, <2>3, <2>5, OrderlyRest
  <1>15. CASE CleanUp
    <2>1. /\ wt' = "clean" /\ index' = {} /\ tip' = tip /\ Still' /\ pc = "idle" /\ ~(Paused /\ wt \in Unsettled)
      BY <1>15 DEF CleanUp, Still, Unsettled
    <2>2. journal.state = "awaiting-absorption" /\ Home # journal.orig => branch = journal.branch /\ wt \in Unsettled
      BY DEF Ord, Orderly, Parked
    <2>3. journal.state = "awaiting-absorption" => Home = journal.orig
      BY <1>5, <1>6, <2>1, <2>2
    <2>4. QED
      BY <1>10, <2>1, <2>3
  <1>16. CASE GoBack
    <2>1. wt = "clean" /\ UNCHANGED <<tip, cp, mh, wt, index>> /\ pc = "idle" /\ branch # journal.branch
      BY <1>16 DEF GoBack
    <2>2. index = {}
      BY <1>6, <2>1 DEF Unsettled
    <2>3. journal.state = "awaiting-absorption" => Home = journal.orig
      BY <2>1 DEF Ord, Orderly, Parked
    <2>4. journal.state = "conflicted" => Still
      BY <2>1 DEF Ord, Settled
    <2>5. /\ Still' <=> Still
          /\ Home' = Home
      BY <1>1, <2>1 DEF Still, Home
    <2>6. Parked'
      BY <1>1, <1>5, <2>1, <2>2, <2>3, <2>4, <2>5 DEF Ord, Orderly, Parked, Untorn, Listens
    <2>7. QED
      BY <1>1, <2>1, <2>2, <2>6, OrderlyRest
  <1>17. QED
    BY <1>3, <1>4, <1>7, <1>8, <1>9, <1>11, <1>12, <1>13, <1>14, <1>15, <1>16, Zenon DEF PersonStep

LEMMA OrderlyStarts == Init => Orderly
  <1> SUFFICES ASSUME Init PROVE Orderly
    OBVIOUS
  <1>1. /\ pc = "idle" /\ ~Pending /\ journal.state = "applying" /\ wt = "clean" /\ index = {}
        /\ ~journal.remat /\ ~op.remat
    BY DEF Init, Pending, NoOperation
  <1>2. QED
    BY <1>1 DEF Orderly, Kempt, Parked, Redrafted, Undone, CleanAt, Carries, Listens, Waiting, Awaits

(* Meddling is not forgotten.                                              *)
LEMMA MeddledStays ==
    ASSUME [Next]_vars, meddled \in BOOLEAN
    PROVE  meddled => meddled'
  <1> USE DEF Works, Thinks, Journals, Stop, Outside, Acts, ActsIf, gitVars, histVars
  <1>1. ASSUME CommandStep PROVE meddled' = meddled
    BY <1>1 DEF CommandStep,
       RemoveDraftFiles, ReduceToHead, ResetOnto, OmitStep, PositionStep, BeginStep, PickApplies, PickConflicts,
       StepBlocked, MergeApplies, MergeConflicts, MergeJoinsNothing, Pause, ApplyForecast, Mismatch, ContinuePick,
       CommitJoin, BeginAbsorption, AbsorbApplies, AbsorbConflicts, AbsorbBlocked, AdvanceCursor, Meld, FinishStep,
       RecordApplication, RecordJoin, AnchorStep, Advance, QueueDone, Verified, MaterializeOverlay, RecordOverlay,
       OverlayMismatch, Publish, ReleaseAnchors, ClearJournal, RewordStep, EditStep, CommitFails, AbortReset,
       AbortRestore, AbortClear
  <1>2. ASSUME PersonStep PROVE meddled => meddled'
    <2>1. ASSUME NEW b \in Branch, Checkout(b) \/ Land(b) PROVE meddled => meddled'
      BY <2>1 DEF Checkout, Land
    <2>2. QED
      BY <1>2, <2>1 DEF PersonStep, Resolve, GitContinue, GitAbandon, CommitAbsorbed, ThrowAway, CommitOwn, Edit,
         CaptureDraft, MainMoves, CleanUp, GoBack
  <1>3. ASSUME Begins \/ Forecasts PROVE meddled' = meddled
    BY <1>3 DEF Begins, Forecasts, Begin, Forecast
  <1>4. ASSUME Continues PROVE meddled => meddled'
    BY <1>4 DEF Continues, ContinueConflict, ContinueMessage, ContinueContent, ContinueAbsorption, Resumes
  <1>5. ASSUME Abort \/ Crash \/ UNCHANGED vars PROVE meddled' = meddled
    BY <1>5 DEF Abort, Crash, vars
  <1>6. QED
    BY <1>1, <1>2, <1>3, <1>4, <1>5, Zenon DEF Next

LEMMA OrderlyStep ==
    ASSUME TypesIInv, pc \in Undoing => undoing, Settled, ~meddled => Orderly, [Next]_vars
    PROVE  ~meddled' => Orderly'
  <1> SUFFICES ASSUME ~meddled' PROVE Orderly'
    OBVIOUS
  <1>0. TypesIInv' /\ Settled' /\ Ord
    BY TypesStep, SettledStep, MeddledStays DEF Ord, TypesIInv, Bounded
  <1>1. CASE \/ RemoveDraftFiles \/ ReduceToHead \/ ResetOnto \/ OmitStep \/ PositionStep \/ AnchorStep \/ Advance
             \/ QueueDone \/ Verified \/ MaterializeOverlay \/ RecordOverlay \/ Publish
    <2>1. pc \notin Undoing
      BY <1>1 DEF RemoveDraftFiles, ReduceToHead, ResetOnto, OmitStep, PositionStep, AnchorStep, Advance, QueueDone,
         Verified, MaterializeOverlay, RecordOverlay, Publish, Undoing
    <2>2. QED
      BY <1>0, <1>1, <2>1, OrderlyPhases
  <1>2. CASE ReleaseAnchors \/ AbortReset \/ AbortRestore
    <2>1. AbortReset \/ AbortRestore => pc \in Undoing
      BY DEF AbortReset, AbortRestore, Undoing
    <2>2. QED
      BY <1>0, <1>2, <2>1, OrderlyPhases, OrderlyUndoes
  <1>3. CASE \/ BeginStep \/ PickApplies \/ PickConflicts \/ StepBlocked \/ MergeApplies \/ MergeConflicts
             \/ MergeJoinsNothing \/ ApplyForecast \/ ContinuePick \/ CommitJoin
             \/ BeginAbsorption \/ AbsorbApplies \/ AbsorbConflicts \/ AbsorbBlocked \/ AdvanceCursor \/ Meld
             \/ FinishStep \/ RewordStep \/ EditStep
    BY <1>0, <1>3, OrderlyInStep
  <1>4. CASE RecordApplication \/ RecordJoin \/ Begins \/ Continues \/ Abort
    BY <1>0, <1>4, OrderlyEnds, OrderlyBegins, OrderlyContinues, OrderlyAborts
  <1>5. CASE Pause \/ Mismatch \/ OverlayMismatch \/ CommitFails \/ Crash \/ ClearJournal \/ AbortClear
    BY <1>0, <1>5, OrderlyStops
  <1>6. CASE PersonStep \/ Forecasts \/ UNCHANGED vars
    BY <1>0, <1>6, OrderlyRests
  <1>7. QED
    BY <1>1, <1>2, <1>3, <1>4, <1>5, <1>6, Zenon DEF Next, CommandStep

-----------------------------------------------------------------------------

(* The refs an operation has are of commits of its queue, and an abort     *)
(* that is done has released those of the steps the journal knows of.      *)
Anchoring ==
    /\ \A a \in anchors : Pending /\ a[1] = journal.id =>
          \E i \in 1..Len(journal.queue) : a[2] = journal.queue[i].commit
    /\ pc = "forget" => \A a \in anchors : a[1] = op.id => op.rewritten[a[2]] = NoCommit

(* A journal is of one operation from the beginning to its end.            *)
LEMMA JournalStays ==
    ASSUME TypesIInv, [Next]_vars, ~Begins
    PROVE  Same(journal, journal') \/ ~Pending'
  <1> USE DEF Works, Thinks, Journals, Keep, Write
  <1>0. /\ pc # "idle" => Same(journal, op) /\ Sound(op)
        /\ \A o, p, q : Same(o, p) /\ Same(p, q) => Same(o, q)
    BY Runs DEF TypesIInv, Same
  <1>1. CASE UNCHANGED journal
    BY <1>1 DEF Same
  <1>2. CASE BeginStep
    BY <1>0, <1>2 DEF BeginStep, Sound, Shaped, Same
  <1>3. CASE Pause \/ Mismatch \/ OverlayMismatch \/ BeginAbsorption \/ AdvanceCursor \/ RecordOverlay
    <2>1. pc # "idle" /\ (BeginAbsorption \/ AdvanceCursor \/ RecordOverlay => journal' = op')
      BY <1>3 DEF Pause, Mismatch, OverlayMismatch, BeginAbsorption, AdvanceCursor, RecordOverlay
    <2>2. Turned(op, journal')
      BY <1>3, <2>1, StepsTurn
    <2>3. QED
      BY <1>0, <2>1, <2>2, TurnedSame
  <1>4. CASE ApplyForecast \/ Advance
    BY <1>0, <1>4 DEF ApplyForecast, Advance
  <1>5. CASE ClearJournal \/ AbortClear
    BY <1>5 DEF ClearJournal, AbortClear, Pending
  <1>6. CASE Continues
    BY <1>6, ContinuesTurn, TurnedSame
  <1>7. CASE \/ RemoveDraftFiles \/ ReduceToHead \/ ResetOnto \/ OmitStep \/ PositionStep \/ PickApplies
             \/ PickConflicts \/ StepBlocked \/ MergeApplies \/ MergeConflicts \/ MergeJoinsNothing
             \/ ContinuePick \/ CommitJoin \/ AbsorbApplies \/ AbsorbConflicts \/ AbsorbBlocked \/ Meld
    BY <1>1, <1>7 DEF RemoveDraftFiles, ReduceToHead, ResetOnto, OmitStep, PositionStep, PickApplies,
       PickConflicts, StepBlocked, MergeApplies, MergeConflicts, MergeJoinsNothing, ContinuePick, CommitJoin,
       AbsorbApplies, AbsorbConflicts, AbsorbBlocked, Meld
  <1>8. CASE \/ FinishStep \/ RecordApplication \/ RecordJoin \/ AnchorStep \/ QueueDone \/ Verified
             \/ MaterializeOverlay \/ Publish \/ ReleaseAnchors \/ RewordStep \/ EditStep \/ CommitFails
             \/ AbortReset \/ AbortRestore \/ Abort \/ Crash
    BY <1>1, <1>8 DEF FinishStep, RecordApplication, RecordJoin, AnchorStep, QueueDone, Verified,
       MaterializeOverlay, Publish, ReleaseAnchors, RewordStep, EditStep, CommitFails, AbortReset, AbortRestore,
       Abort, Crash
  <1>9. CASE PersonStep \/ Forecasts \/ UNCHANGED vars
    BY <1>1, <1>9, RestsAlone
  <1>10. QED
    BY <1>2, <1>3, <1>4, <1>5, <1>6, <1>7, <1>8, <1>9, Zenon DEF Next, CommandStep

(* Refs are made by a step that was journaled, and deleted together.       *)
LEMMA AnchorsMove ==
    ASSUME [Next]_vars, anchors' # anchors
    PROVE  AnchorStep \/ ReleaseAnchors
  <1> USE DEF Works, Thinks, Journals
  <1>1. SUFFICES ASSUME ~AnchorStep, ~ReleaseAnchors PROVE anchors' = anchors
    OBVIOUS
  <1>2. CASE \/ RemoveDraftFiles \/ ReduceToHead \/ ResetOnto \/ OmitStep \/ PositionStep \/ BeginStep \/ PickApplies
             \/ PickConflicts \/ StepBlocked \/ MergeApplies \/ MergeConflicts \/ MergeJoinsNothing
             \/ Pause \/ ApplyForecast \/ Mismatch \/ ContinuePick \/ CommitJoin
             \/ BeginAbsorption \/ AbsorbApplies \/ AbsorbConflicts \/ AbsorbBlocked \/ AdvanceCursor \/ Meld
    BY <1>2 DEF RemoveDraftFiles, ReduceToHead, ResetOnto, OmitStep, PositionStep, BeginStep, PickApplies,
       PickConflicts, StepBlocked, MergeApplies, MergeConflicts, MergeJoinsNothing, Pause, ApplyForecast, Mismatch,
       ContinuePick, CommitJoin, BeginAbsorption, AbsorbApplies, AbsorbConflicts, AbsorbBlocked, AdvanceCursor, Meld
  <1>3. CASE \/ FinishStep \/ RecordApplication \/ RecordJoin \/ Advance \/ QueueDone \/ Verified
             \/ MaterializeOverlay \/ RecordOverlay \/ OverlayMismatch \/ Publish \/ ClearJournal
             \/ RewordStep \/ EditStep \/ CommitFails \/ AbortReset \/ AbortRestore \/ AbortClear \/ Abort \/ Crash
    BY <1>3 DEF FinishStep, RecordApplication, RecordJoin, Advance, QueueDone, Verified, MaterializeOverlay,
       RecordOverlay, OverlayMismatch, Publish, ClearJournal, RewordStep, EditStep, CommitFails, AbortReset,
       AbortRestore, AbortClear, Abort, Crash
  <1>4. CASE Begins
    BY <1>4 DEF Begins, Begin
  <1>5. CASE Continues
    BY <1>5 DEF Continues, ContinueConflict, ContinueMessage, ContinueContent, ContinueAbsorption, Resumes
  <1>6. CASE PersonStep \/ Forecasts \/ UNCHANGED vars
    BY <1>6, RestsAlone
  <1>7. QED
    BY <1>1, <1>2, <1>3, <1>4, <1>5, <1>6, Zenon DEF Next, CommandStep

(* The last step of an abort comes after its refs are released.            *)
LEMMA ForgetsAfter ==
    ASSUME [Next]_vars, TypesIInv, pc' = "forget"
    PROVE  (ReleaseAnchors /\ pc = "undone") \/ UNCHANGED <<pc, op, anchors>>
  <1> USE DEF Go, Stop, Keep
  <1>1. SUFFICES ASSUME ~(ReleaseAnchors /\ pc = "undone") PROVE UNCHANGED <<pc, op, anchors>>
    OBVIOUS
  <1>2. CASE CommandStep
    <2>1. BeginStep => pc' \in {"pick", "merge"}
      <3>1. ASSUME BeginStep PROVE pc' \in {"pick", "merge"}
        <4>1. pc = "queue" /\ pc' = NextStep.kind /\ NextStep.kind # "omit" /\ MoreSteps
          BY <3>1 DEF BeginStep
        <4>2. QED
          BY <4>1, OperationTrue
      <3>2. QED
        BY <3>1
    <2>2. QED
      BY <1>1, <1>2, <2>1 DEF CommandStep,
       RemoveDraftFiles, ReduceToHead, ResetOnto, OmitStep, PositionStep, PickApplies, PickConflicts,
       StepBlocked, MergeApplies, MergeConflicts, MergeJoinsNothing, Pause, ApplyForecast, Mismatch, ContinuePick,
       CommitJoin, BeginAbsorption, AbsorbApplies, AbsorbConflicts, AbsorbBlocked, AdvanceCursor, Meld, FinishStep,
       RecordApplication, RecordJoin, AnchorStep, Advance, QueueDone, Verified, MaterializeOverlay, RecordOverlay,
       OverlayMismatch, Publish, ReleaseAnchors, ClearJournal, RewordStep, EditStep, CommitFails, AbortReset,
       AbortRestore, AbortClear
  <1>3. CASE Begins \/ Continues \/ Abort \/ Crash
    BY <1>3 DEF Begins, Begin, Continues, ContinueConflict, ContinueMessage, ContinueContent, ContinueAbsorption,
       Resumes, Abort, Crash
  <1>4. CASE PersonStep \/ Forecasts \/ UNCHANGED vars
    BY <1>4, RestsAlone
  <1>5. QED
    BY <1>2, <1>3, <1>4, Zenon DEF Next

LEMMA AnchoringStep ==
    ASSUME TypesIInv, Anchoring, [Next]_vars
    PROVE  Anchoring'
  <1>0. TypesIInv'
    BY TypesStep
  <1>1. ASSUME NEW a \in anchors', Pending', a[1] = journal'.id
        PROVE  \E i \in 1..Len(journal'.queue) : a[2] = journal'.queue[i].commit
    <2>1. CASE Begins
      <3>1. anchors' = anchors /\ journal'.id = ops + 1
        BY <2>1, BeginsAnew
      <3>2. a[1] \in 1..ops /\ ops \in Nat
        BY <3>1 DEF TypesIInv, Bounded, RebaseIInv, RebaseKinds
      <3>3. QED
        BY <1>1, <3>1, <3>2
    <2>2. CASE ~Begins
      <3>1. Same(journal, journal')
        BY <1>1, <2>2, JournalStays
      <3>2. Pending
        <4>1. journal.id # 0 => Pending
          BY DEF Pending, NoOperation
        <4>2. journal'.id \in 1..ops'
          BY <1>0, <1>1 DEF TypesIInv, RebaseIInv, Journaled
        <4>3. ops' \in Nat
          BY <1>0 DEF TypesIInv, RebaseIInv, RebaseKinds
        <4>4. QED
          BY <3>1, <4>1, <4>2, <4>3 DEF Same
      <3>3. a[1] = journal.id /\ journal'.queue = journal.queue
        BY <1>1, <3>1 DEF Same
      <3>4. CASE a \in anchors
        BY <3>2, <3>3, <3>4 DEF Anchoring
      <3>5. CASE a \notin anchors
        <4>1. AnchorStep
          BY <3>5, AnchorsMove DEF ReleaseAnchors
        <4> DEFINE c == op.queue[op.next - 1].commit
        <4>2. a = <<op.id, c, op.rewritten[c]>>
          BY <3>5, <4>1 DEF AnchorStep, Anchored
        <4>3. op.next > 1 /\ pc = "anchor"
          BY <4>1 DEF AnchorStep, TypesIInv, Standing
        <4>4. Typed(op, Len(objs)) /\ Sound(op) /\ Same(journal, op)
          BY <4>3, OperationTrue, Runs DEF TypesIInv
        <4>5. op.next - 1 \in 1..Len(op.queue)
          <5>1. op.next \in 1..(Len(op.queue) + 1) /\ Len(op.queue) \in Nat
            BY <4>4 DEF Typed, Sound
          <5>2. QED
            BY <4>3, <5>1
        <4>6. a[2] = c
          BY <4>2
        <4>7. QED
          BY <3>3, <4>4, <4>5, <4>6 DEF Same
      <3>6. QED
        BY <3>4, <3>5
    <2>3. QED
      BY <2>1, <2>2
  <1>2. ASSUME pc' = "forget", NEW a \in anchors', a[1] = op'.id
        PROVE  op'.rewritten[a[2]] = NoCommit
    <2>1. CASE ReleaseAnchors /\ pc = "undone"
      <3>1. op' = op /\ a \in anchors
            /\ ~(a[1] = op.id /\ a[2] \in DOMAIN op.rewritten /\ op.rewritten[a[2]] # NoCommit)
        BY <2>1 DEF ReleaseAnchors
      <3>2. Same(journal, op) /\ Pending /\ Typed(op, Len(objs))
        BY <2>1, OperationTrue, Runs DEF TypesIInv
      <3>3. PICK i \in 1..Len(journal.queue) : a[2] = journal.queue[i].commit
        BY <1>2, <3>1, <3>2 DEF Anchoring, Same
      <3>4. a[2] \in DOMAIN op.rewritten
        BY <3>2, <3>3 DEF Same, Typed, Mapping
      <3>5. QED
        BY <1>2, <3>1, <3>4
    <2>2. CASE UNCHANGED <<pc, op, anchors>>
      BY <1>2, <2>2 DEF Anchoring
    <2>3. QED
      BY <1>2, <2>1, <2>2, ForgetsAfter
  <1>3. QED
    BY <1>1, <1>2 DEF Anchoring

(* A repository that is worked in by one command after the other, with a   *)
(* person in between.                                                      *)
WorkIInv ==
    /\ TypesIInv /\ (pc \in Undoing => undoing) /\ Settled /\ (~meddled => Orderly) /\ Anchoring

LEMMA WorkStep ==
    ASSUME WorkIInv, [Next]_vars
    PROVE  WorkIInv'
  <1>1. TypesIInv' /\ Settled' /\ (~meddled' => Orderly') /\ Anchoring'
    BY TypesStep, SettledStep, OrderlyStep, AnchoringStep DEF WorkIInv
  <1>2. (pc \in Undoing => undoing)'
    <2>1. CASE Begins
      BY <2>1, BeginsAnew DEF WorkIInv, Undoing
    <2>2. CASE ~Begins
      BY <2>2, UndoKept DEF WorkIInv, TypesIInv
    <2>3. QED
      BY <2>1, <2>2
  <1>3. QED
    BY <1>1, <1>2 DEF WorkIInv

LEMMA WorkStarts == Init => WorkIInv
  <1>1. ASSUME Init PROVE Anchoring /\ (pc \in Undoing => undoing)
    BY <1>1 DEF Init, Anchoring, Undoing
  <1>2. QED
    BY <1>1, TypesStart, SettledStarts, OrderlyStarts DEF WorkIInv

LEMMA WorkInvariant == Spec => []WorkIInv
  <1>1. WorkIInv /\ [Next]_vars => WorkIInv'
    BY WorkStep
  <1>2. QED
    BY <1>1, WorkStarts, PTL DEF Spec

(* What a person edited is there until the person, or the step it was for, *)
(* takes it.                                                               *)
LEMMA EditsStay ==
    ASSUME WorkIInv, [Next]_vars, wt = "edited", wt' # "edited", ~meddled,
           ~journal.remat, journal.state # "awaiting-absorption"
    PROVE  (AtRest /\ pc' = "idle") \/ pc \in {"reword", "edit"}
  <1>1. Still /\ pc \in {"idle", "reword", "edit"} \cup Undoing
    BY DEF WorkIInv, Orderly, Kempt
  <1>2. CASE pc = "idle"
    <2>1. ~Begins
      BY BeginsAnew DEF WorkIInv
    <2>2. ~Continues
      BY DEF Continues, ContinueConflict, ContinueMessage, ContinueContent, ContinueAbsorption, Resumes, gitVars, treeVars
    <2>3. ~Abort
      BY <1>1 DEF Abort, Disposable, Still
    <2>4. ~CommandStep
      BY <1>2 DEF CommandStep,
       RemoveDraftFiles, ReduceToHead, ResetOnto, OmitStep, PositionStep, BeginStep, PickApplies, PickConflicts,
       StepBlocked, MergeApplies, MergeConflicts, MergeJoinsNothing, Pause, ApplyForecast, Mismatch, ContinuePick,
       CommitJoin, BeginAbsorption, AbsorbApplies, AbsorbConflicts, AbsorbBlocked, AdvanceCursor, Meld, FinishStep,
       RecordApplication, RecordJoin, AnchorStep, Advance, QueueDone, Verified, MaterializeOverlay, RecordOverlay,
       OverlayMismatch, Publish, ReleaseAnchors, ClearJournal, RewordStep, EditStep, CommitFails, AbortReset,
       AbortRestore, AbortClear
    <2>5. ~Crash
      BY <1>2 DEF Crash
    <2>6. PersonStep \/ Forecasts \/ UNCHANGED vars
      BY <2>1, <2>2, <2>3, <2>4, <2>5 DEF Next
    <2>7. QED
      BY <1>2, <2>6, RestsAlone DEF AtRest
  <1>3. CASE pc \in Undoing
    <2>1. pc \in {"undone", "forget"} /\ op.overlay = None
      <3>1. pc \in {"undone", "forget"}
        BY <1>3 DEF WorkIInv, Orderly, Undone, Undoing
      <3>2. op.overlay # None => op.overlay = "edited"
        BY <3>1 DEF WorkIInv, Orderly, Undone
      <3>3. op.overlay \in {"draft", None}
        BY DEF WorkIInv, TypesIInv, Memory, Typed
      <3>4. QED
        BY <3>1, <3>2, <3>3
    <2>2. \/ ReleaseAnchors \/ AbortClear \/ Crash \/ UNCHANGED vars
      <3>1. ~Begins /\ ~Continues /\ ~Abort /\ ~PersonStep /\ ~Forecasts
        BY <2>1, RestsAlone, BeginsAnew DEF WorkIInv, Abort, Continues, ContinueConflict, ContinueMessage,
           ContinueContent, ContinueAbsorption, Resumes
      <3>2. CommandStep => ReleaseAnchors \/ AbortClear
        BY <2>1 DEF CommandStep,
         RemoveDraftFiles, ReduceToHead, ResetOnto, OmitStep, PositionStep, BeginStep, PickApplies, PickConflicts,
         StepBlocked, MergeApplies, MergeConflicts, MergeJoinsNothing, Pause, ApplyForecast, Mismatch, ContinuePick,
         CommitJoin, BeginAbsorption, AbsorbApplies, AbsorbConflicts, AbsorbBlocked, AdvanceCursor, Meld, FinishStep,
         RecordApplication, RecordJoin, AnchorStep, Advance, QueueDone, Verified, MaterializeOverlay, RecordOverlay,
         OverlayMismatch, Publish, ClearJournal, RewordStep, EditStep, CommitFails, AbortReset, AbortRestore
      <3>3. QED
        BY <3>1, <3>2 DEF Next
    <2>3. wt' = wt
      BY <2>2 DEF ReleaseAnchors, AbortClear, Crash, gitVars, treeVars, vars
    <2>4. QED
      BY <2>3
  <1>4. QED
    BY <1>1, <1>2, <1>3

(* "Abort restores": in every history, wherever a command was killed and   *)
(* whatever the person did in between, an abort that comes to its end      *)
(* leaves the branch at the commit it was at before the rebase, nothing    *)
(* pending in Git, and no ref of a step the journal knows of; and if the   *)
(* person did nothing a paused journal cannot see, nothing is staged and   *)
(* the worktree is clean, has the captured draft, or what was edited since.*)
(* No command discards such edits but the reword or edit step they are for *)
(* (and an abort of an absorption, or of a queue with its draft put back). *)
THEOREM AbortsRestore == Spec => AbortRestores
  <1> DEFINE Restored ==
                /\ tip[op.branch] = op.orig /\ {cp, mh} = {NoCommit}
                /\ ~meddled => /\ index = {}
                               /\ wt \in {IF op.overlay = None THEN "clean" ELSE op.overlay, "edited"}
                /\ \A a \in anchors : a[1] = op.id => op.rewritten[a[2]] = NoCommit
  <1>1. ASSUME WorkIInv, pc = "forget"
        PROVE  Restored
    <2>1. pc \in Undoing
      BY <1>1 DEF Undoing
    <2>2. branch = op.branch /\ HEAD = op.orig /\ Still
      BY <1>1, <2>1, RunsOn DEF WorkIInv, Settled, Undoing
    <2>3. tip[op.branch] = op.orig /\ {cp, mh} = {NoCommit}
      BY <2>2 DEF HEAD, Still
    <2>4. ~meddled => /\ index = {}
                      /\ wt \in {IF op.overlay = None THEN "clean" ELSE op.overlay, "edited"}
      BY <1>1 DEF WorkIInv, Orderly, Undone, Untorn
    <2>5. \A a \in anchors : a[1] = op.id => op.rewritten[a[2]] = NoCommit
      BY <1>1 DEF WorkIInv, Anchoring
    <2>6. QED
      BY <2>3, <2>4, <2>5
  <1>2. WorkIInv /\ [Next]_vars =>
          [/\ pc = "forget" /\ journal' = NoOperation => Restored
           /\ (wt = "edited" /\ wt' # "edited" /\ ~meddled
                  /\ ~journal.remat /\ journal.state # "awaiting-absorption") =>
                    (AtRest /\ pc' = "idle") \/ pc \in {"reword", "edit"}]_vars
    <2> HIDE DEF Restored
    <2>1. QED
      BY <1>1, EditsStay, Zenon
  <1>3. QED
    BY <1>2, WorkInvariant, PTL DEF Spec, AbortRestores

-----------------------------------------------------------------------------

(* What a commit of a store adds to its parents.                           *)
Brought(s, c) == s[c].tree \ UNION {s[p].tree : p \in Among(s[c].parents)}

(* Where the current step of an operation is: on the commit it began from, *)
(* with what it counts as absorbed.                                        *)
TakenIn(o, s, upTo, S) ==
    \A k \in 1..upTo : k <= Len(o.queue[o.next].absorbs) => Brought(s, o.queue[o.next].absorbs[k]) \subseteq S
On(o, s, h) == s[h].parents = <<o.current.before>>
Reached(o, s, h, S) == On(o, s, h) /\ TakenIn(o, s, o.current.cursor, s[h].tree \cup S)

Honest ==
    /\ Awaits(journal.state) /\ ~undoing => Reached(journal, objs, Home, index)
    /\ pc \in {"cursor", "finish"} \/ Listens => Reached(op, objs, HEAD, index)
    /\ pc = "absorb" => /\ On(op, objs, HEAD)
                        /\ TakenIn(op, objs, op.current.cursor - 1, objs[HEAD].tree \cup index)
    /\ pc \in {"record", "reword", "edit"} => On(op, objs, HEAD)
    /\ pc = "record-join" => objs[HEAD].parents = <<op.current.before, op.current.joins>>

LEMMA BroughtTrue == \A c : Delta(c) = Brought(objs, c)
  BY DEF Delta, Brought, Among

(* What commits add does not change as others are added.                   *)
LEMMA BroughtStays ==
    ASSUME NEW s, NEW z, Lineage(s), Grows(s, z), NEW c \in 1..Len(s)
    PROVE  Brought(z, c) = Brought(s, c) /\ z[c] = s[c]
  <1>1. s[c].parents \in Seq(1..(c - 1)) /\ Len(s) \in Nat
    BY StrungTrue DEF Lineage, Fit
  <1>2. Among(s[c].parents) \subseteq 1..Len(s)
    <2>1. \A k \in 1..Len(s[c].parents) : s[c].parents[k] \in 1..(c - 1)
      BY <1>1, LenProperties
    <2>2. QED
      BY <1>1, <2>1 DEF Among
  <1>3. z[c] = s[c] /\ \A p \in Among(s[c].parents) : z[p] = s[p]
    BY <1>2 DEF Grows
  <1>4. {z[p].tree : p \in Among(s[c].parents)} = {s[p].tree : p \in Among(s[c].parents)}
    BY <1>3
  <1>5. QED
    BY <1>3, <1>4 DEF Brought

(* The same step of the same operation.                                    *)
AsFar(o, p) ==
    /\ p.queue = o.queue /\ p.next = o.next
    /\ p.current.before = o.current.before /\ p.current.commit = o.current.commit /\ p.current.joins = o.current.joins

LEMMA TakenStays ==
    ASSUME NEW s, NEW z, Lineage(s), Grows(s, z), NEW o, NEW p, Planned(o.queue, Len(s)), AsFar(o, p),
           o.next \in 1..Len(o.queue), NEW n \in Int, NEW m \in Int, m <= n,
           NEW S, NEW T, S \subseteq T, TakenIn(o, s, n, S)
    PROVE  TakenIn(p, z, m, T)
  <1> DEFINE a == o.queue[o.next].absorbs
  <1>1. \A k \in 1..Len(a) : a[k] \in 1..Len(s)
    BY DEF Planned
  <1>2. Len(a) \in Nat
    <2>1. o.queue[o.next] \in Step
      BY DEF Planned
    <2>2. a \in Seq(Nat)
      BY <2>1 DEF Step
    <2>3. QED
      BY <2>2, LenProperties
  <1>3. ASSUME NEW k \in 1..m, k <= Len(a)
        PROVE  Brought(z, a[k]) \subseteq T
    <2>1. k \in 1..n /\ k \in 1..Len(a)
      BY <1>2, <1>3
    <2>2. Brought(s, a[k]) \subseteq S
      BY <1>3, <2>1 DEF TakenIn
    <2>3. Brought(z, a[k]) = Brought(s, a[k])
      BY <1>1, <2>1, BroughtStays
    <2>4. QED
      BY <2>2, <2>3
  <1>4. QED
    BY <1>3 DEF TakenIn, AsFar

LEMMA ReachedStays ==
    ASSUME NEW s, NEW z, Lineage(s), Grows(s, z), NEW o, NEW p, Planned(o.queue, Len(s)), AsFar(o, p),
           o.next \in 1..Len(o.queue), o.current.cursor \in Nat, p.current.cursor = o.current.cursor,
           NEW h \in 1..Len(s), NEW S, NEW T, S \subseteq T, Reached(o, s, h, S)
    PROVE  Reached(p, z, h, T)
  <1>1. z[h] = s[h]
    BY DEF Grows
  <1>2. On(p, z, h)
    BY <1>1 DEF Reached, On, AsFar
  <1>3. TakenIn(p, z, p.current.cursor, z[h].tree \cup T)
    <2>1. TakenIn(o, s, o.current.cursor, s[h].tree \cup S) /\ s[h].tree \cup S \subseteq z[h].tree \cup T
      BY <1>1 DEF Reached
    <2> DEFINE A == s[h].tree \cup S
               B == z[h].tree \cup T
               n == o.current.cursor
    <2>2. TakenIn(o, s, n, A) /\ A \subseteq B /\ n \in Int /\ n <= n
      BY <2>1
    <2> HIDE DEF A, B, n
    <2>3. TakenIn(p, z, n, B)
      BY <2>2, TakenStays
    <2>4. QED
      BY <2>3 DEF n, B
  <1>4. QED
    BY <1>2, <1>3 DEF Reached

(* What is staged goes into the commit, which stays where it is.           *)
LEMMA ReachedAmends ==
    ASSUME NEW s, NEW z, Lineage(s), Grows(s, z), NEW o, Planned(o.queue, Len(s)),
           o.next \in 1..Len(o.queue), o.current.cursor \in Nat, NEW h, NEW n,
           z[n].parents = s[h].parents, NEW S, NEW T, s[h].tree \cup S \subseteq z[n].tree \cup T, Reached(o, s, h, S)
    PROVE  Reached(o, z, n, T)
  <1>1. On(o, z, n)
    BY DEF Reached, On
  <1> DEFINE A == s[h].tree \cup S
             B == z[n].tree \cup T
             m == o.current.cursor
  <1>2. TakenIn(o, s, m, A) /\ A \subseteq B /\ m \in Int /\ m <= m /\ AsFar(o, o)
    BY DEF Reached, AsFar
  <1> HIDE DEF A, B, m
  <1>3. TakenIn(o, z, m, B)
    BY <1>2, TakenStays
  <1>4. QED
    BY <1>1, <1>3 DEF Reached, m, B

(* The commit that is made, and what it holds.                             *)
LEMMA AddedCommit ==
    ASSUME Repository, NEW parents, NEW of, NEW named, NEW content, AddCommit(parents, of, named, content)
    PROVE  /\ objs'[New].parents = parents /\ objs'[New].of = of /\ objs'[New].named = named
           /\ objs'[New].tree = content \cup UNION {objs[p].tree : p \in Among(parents)}
           /\ objs' = Append(objs, Made(objs, parents, of, named, content))
           /\ branch' = branch => HEAD' = New
  <1>1. /\ objs' = Append(objs, Made(objs, parents, of, named, content)) /\ Strung(objs)
        /\ tip' = [tip EXCEPT ![branch] = New] /\ tip \in [Branch -> Objects] /\ branch \in Branch
    BY DEF AddCommit, Repository, Lineage
  <1>2. objs'[New] = Made(objs, parents, of, named, content)
    BY <1>1, StrungAppend DEF New
  <1>3. branch' = branch => HEAD' = New
    BY <1>1 DEF HEAD
  <1> DEFINE e == Made(objs, parents, of, named, content)
  <1>4. /\ e.parents = parents /\ e.of = of /\ e.named = named
        /\ e.tree = content \cup UNION {objs[p].tree : p \in Among(parents)}
    BY DEF Made, Among
  <1> HIDE DEF e
  <1>5. objs'[New] = e
    BY <1>2 DEF e
  <1>6. objs' = Append(objs, Made(objs, parents, of, named, content))
    BY <1>1
  <1>7. QED
    BY <1>3, <1>4, <1>5, <1>6

LEMMA AmendedCommit ==
    ASSUME Repository, NEW of, NEW named, NEW content, Amend(of, named, content)
    PROVE  /\ objs'[New].parents = objs[HEAD].parents /\ objs'[New].of = of /\ objs'[New].named = named
           /\ objs'[New].tree = objs[HEAD].tree \cup content \cup UNION {objs[p].tree : p \in Among(objs[HEAD].parents)}
           /\ branch' = branch => HEAD' = New
  <1> DEFINE parents == objs[HEAD].parents
             tree == objs[HEAD].tree \cup content
  <1>1. AddCommit(parents, of, named, tree)
    BY DEF Amend
  <1> HIDE DEF parents, tree
  <1>2. QED
    BY <1>1, AddedCommit DEF parents, tree

Hon == Ord /\ Descent(objs) /\ Honest

LEMMA HonestGrounds ==
    ASSUME Hon, [Next]_vars
    PROVE  /\ Grows(objs, objs') /\ Lineage(objs) /\ Repository /\ tip \in [Branch -> Objects] /\ branch \in Branch
           /\ journal.branch \in Branch /\ Home \in 1..Len(objs) /\ HEAD \in 1..Len(objs)
           /\ Planned(journal.queue, Len(objs)) /\ Planned(op.queue, Len(objs))
           /\ journal.current.cursor \in Nat /\ op.current.cursor \in Nat
           /\ Awaits(journal.state) => Pending /\ journal.next \in 1..Len(journal.queue)
           /\ pc \in Stepping => op.next \in 1..Len(op.queue) /\ Pending
           /\ pc # "idle" => Home = HEAD /\ branch = journal.branch /\ op.branch = journal.branch
  <1>1. Grows(objs, objs') /\ Lineage(objs) /\ Repository /\ tip \in [Branch -> Objects] /\ branch \in Branch
    BY DescentStep DEF Hon, Ord, TypesIInv, Repository
  <1>2. Typed(journal, Len(objs)) /\ Typed(op, Len(objs))
    BY DEF Hon, Ord, TypesIInv, Memory
  <1>3. journal.branch \in Branch /\ Home \in 1..Len(objs) /\ HEAD \in 1..Len(objs)
    BY <1>1, <1>2 DEF Typed, Home, HEAD, Objects
  <1>4. journal.current.cursor \in Nat /\ op.current.cursor \in Nat
    BY <1>2 DEF Typed, Current
  <1>5. Planned(journal.queue, Len(objs)) /\ Planned(op.queue, Len(objs))
    BY <1>2 DEF Typed
  <1>6. Awaits(journal.state) => Pending /\ journal.next \in 1..Len(journal.queue)
    <2>1. Awaits(journal.state) => journal.state \notin {"applying", "blocked"} /\ Pending
      BY DEF Awaits, Pending, NoOperation
    <2>2. QED
      BY <2>1 DEF Hon, Ord, TypesIInv, RebaseIInv, Journaled, RebaseKinds, Sound
  <1>7. pc \in Stepping => op.next \in 1..Len(op.queue) /\ Pending
    BY Runs DEF Hon, Ord, TypesIInv, Stepping, Sound
  <1>8. pc # "idle" => Home = HEAD /\ branch = journal.branch /\ op.branch = journal.branch
    BY RunsOn DEF Hon, Ord
  <1>9. QED
    BY <1>1, <1>3, <1>4, <1>5, <1>6, <1>7, <1>8

LEMMA StillReached ==
    ASSUME Hon, [Next]_vars, UNCHANGED journal, undoing => undoing',
           Awaits(journal.state) /\ ~undoing => Home' = Home /\ index \subseteq index'
    PROVE  Awaits(journal'.state) /\ ~undoing' => Reached(journal', objs', Home', index')
  <1>1. SUFFICES ASSUME Awaits(journal.state), ~undoing' PROVE Reached(journal, objs', Home, index')
    OBVIOUS
  <1>2. Reached(journal, objs, Home, index) /\ index \subseteq index'
    BY <1>1 DEF Hon, Honest
  <1>3. AsFar(journal, journal)
    BY DEF AsFar
  <1>4. QED
    BY <1>1, <1>2, <1>3, HonestGrounds, ReachedStays

(* A command that is not within a step, or stops in one for good.          *)
LEMMA HonestBeyond ==
    ASSUME pc' \notin {"cursor", "finish", "absorb", "record", "reword", "edit", "record-join"}, ~Listens',
           Awaits(journal'.state) /\ ~undoing' => Reached(journal', objs', Home', index')
    PROVE  Honest'
  BY DEF Honest

LEMMA HonestPhases ==
    ASSUME Hon, [Next]_vars,
           \/ RemoveDraftFiles \/ ReduceToHead \/ ResetOnto \/ OmitStep \/ PositionStep \/ AnchorStep \/ Advance
           \/ QueueDone \/ Verified \/ MaterializeOverlay \/ RecordOverlay \/ Publish \/ ReleaseAnchors
           \/ AbortReset \/ AbortRestore
    PROVE  Honest'
  <1> USE DEF Works, Thinks, Journals, Write, Go, Keep, gitVars, headVars, treeVars, histVars
  <1>1. /\ pc \in Starting \cup Moving \cup Finishing \cup Undoing /\ undoing' = undoing
        /\ pc' \in Starting \cup Moving \cup Finishing \cup Undoing
    BY DEF RemoveDraftFiles, ReduceToHead, ResetOnto, OmitStep, PositionStep, AnchorStep, Advance, QueueDone, Verified,
           MaterializeOverlay, RecordOverlay, Publish, ReleaseAnchors, AbortReset, AbortRestore,
           Starting, Moving, Finishing, Sharing, Undoing
  <1>2. /\ pc # "idle" /\ ~Listens' /\ ~Awaits("applying")
        /\ pc' \notin {"cursor", "finish", "absorb", "record", "reword", "edit", "record-join"}
    BY <1>1 DEF Starting, Moving, Finishing, Sharing, Undoing, Listens, Awaits
  <1>3. Awaits(journal'.state) /\ ~undoing' => Reached(journal', objs', Home', index')
    <2>1. CASE pc \in Undoing
      BY <1>1, <2>1 DEF Hon, Ord
    <2>2. CASE pc \in Starting \cup Finishing
      <3>1. journal = op /\ op.state = "applying"
        BY <1>2, <2>2, Runs DEF Hon, Ord, TypesIInv
      <3>2. CASE RecordOverlay
        <4>1. journal'.state = "applying"
          BY <1>2, <3>1, <3>2, StepsTurn DEF RecordOverlay, Hon, Ord
        <4>2. QED
          BY <1>2, <4>1
      <3>3. CASE ~RecordOverlay
        <4>1. journal' = journal \/ Advance
          BY <3>3 DEF RemoveDraftFiles, ReduceToHead, ResetOnto, OmitStep, PositionStep, AnchorStep, QueueDone, Verified,
             MaterializeOverlay, Publish, ReleaseAnchors, AbortReset, AbortRestore
        <4>2. journal'.state = "applying"
          BY <3>1, <4>1 DEF Advance
        <4>3. QED
          BY <1>2, <4>2
      <3>4. QED
        BY <3>2, <3>3
    <2>3. CASE pc \in Moving
      <3>1. AnchorStep \/ Advance
        BY <2>3 DEF RemoveDraftFiles, ReduceToHead, ResetOnto, OmitStep, PositionStep, QueueDone, Verified,
           MaterializeOverlay, RecordOverlay, Publish, ReleaseAnchors, AbortReset, AbortRestore, Moving
      <3>2. CASE AnchorStep
        BY <1>1, <3>2, StillReached DEF AnchorStep, Home
      <3>3. CASE Advance
        <4>1. journal'.state = "applying"
          BY <1>2, <2>3, <3>3, Runs DEF Advance, Hon, Ord, TypesIInv
        <4>2. QED
          BY <1>2, <4>1
      <3>4. QED
        BY <3>1, <3>2, <3>3
    <2>4. QED
      BY <1>1, <2>1, <2>2, <2>3
  <1>4. QED
    BY <1>2, <1>3, HonestBeyond

LEMMA HonestEnds ==
    ASSUME Hon, [Next]_vars, RecordApplication \/ RecordJoin
    PROVE  Honest'
  <1> USE DEF Keep, Thinks, Go, gitVars, headVars, treeVars, histVars
  <1>1. /\ pc \in {"record", "record-join"} /\ UNCHANGED <<journal, branch, tip, index, undoing>>
        /\ pc' \in {"anchor", "advance"} \/ (pc' = "paused" /\ RecordApplication)
    BY DEF RecordApplication, RecordJoin
  <1>2. pc' = "paused" => op'.state = "blocked"
    BY <1>1, StepsTurn DEF Hon, Ord
  <1>3. ~Listens'
    BY <1>1, <1>2 DEF Listens, Awaits
  <1>4. Awaits(journal'.state) /\ ~undoing' => Reached(journal', objs', Home', index')
    BY <1>1, StillReached DEF Home
  <1>5. QED
    BY <1>1, <1>3, <1>4, HonestBeyond

LEMMA HonestStops ==
    ASSUME Hon, [Next]_vars,
           Pause \/ Mismatch \/ OverlayMismatch \/ CommitFails \/ Crash \/ ClearJournal \/ AbortClear
    PROVE  Honest'
  <1> USE DEF Stop, Go, gitVars, headVars, treeVars, histVars
  <1>1. pc # "idle" /\ pc' = "idle" /\ UNCHANGED <<branch, tip, index, objs>>
    BY DEF Pause, Mismatch, OverlayMismatch, CommitFails, Crash, ClearJournal, AbortClear
  <1>2. ~Awaits("applying") /\ ~Awaits("blocked") /\ ~Listens'
    BY <1>1 DEF Awaits, Listens
  <1>3. Awaits(journal'.state) /\ ~undoing' => Reached(journal', objs', Home', index')
    <2>1. CASE CommitFails \/ Crash
      <3>1. UNCHANGED <<journal, undoing>>
        BY <2>1 DEF CommitFails, Crash
      <3>2. QED
        BY <1>1, <3>1, StillReached DEF Home
    <2>2. CASE ClearJournal \/ AbortClear
      BY <1>2, <2>2 DEF ClearJournal, AbortClear, NoOperation
    <2>3. CASE Pause \/ Mismatch \/ OverlayMismatch
      <3>1. journal'.state = "blocked" \/ (journal' = op /\ pc = "paused")
        BY <1>1, <2>3, StepsTurn DEF Hon, Ord
      <3>2. Home = HEAD /\ op.branch = journal.branch
        BY <1>1, HonestGrounds
      <3>3. journal' = op => Home' = HEAD
        BY <1>1, <3>2 DEF Home
      <3>4. pc = "paused" /\ Awaits(op.state) => Reached(op, objs, HEAD, index)
        BY DEF Hon, Honest, Listens
      <3>5. QED
        BY <1>1, <1>2, <3>1, <3>3, <3>4
    <2>4. QED
      BY <2>1, <2>2, <2>3
  <1>4. QED
    BY <1>1, <1>2, <1>3, HonestBeyond

LEMMA HonestBegins ==
    ASSUME Hon, Begins \/ Abort
    PROVE  Honest'
  <1>1. CASE Begins
    <2>1. pc' \in {"reset", "reduce"} /\ journal'.state = "applying"
      BY <1>1, BeginsAnew DEF Hon, Ord
    <2>2. ~Awaits("applying") /\ ~Listens'
      BY <2>1 DEF Awaits, Listens
    <2>3. QED
      BY <2>1, <2>2, HonestBeyond
  <1>2. CASE Abort
    <2>1. pc' = "undo" /\ undoing' = TRUE
      BY <1>2 DEF Abort, Go
    <2>2. QED
      BY <2>1, HonestBeyond DEF Listens
  <1>3. QED
    BY <1>1, <1>2

LEMMA HonestContinues ==
    ASSUME Hon, [Next]_vars, Continues, ~meddled'
    PROVE  Honest'
  <1> USE DEF Resumes, Go, gitVars, headVars, treeVars
  <1>1. /\ Continuable(journal) /\ ~undoing /\ undoing' = undoing /\ UNCHANGED <<tip, branch, index, objs>>
    BY DEF Continues, ContinueConflict, ContinueMessage, ContinueContent, ContinueAbsorption
  <1>2. /\ Turned(journal, op') /\ journal' = op'
        /\ \/ /\ pc' = "continue" /\ op'.state = "conflicted"
           \/ pc' = "reword" /\ journal.state = "awaiting-message" /\ op' = journal
           \/ pc' = "edit" /\ journal.state = "awaiting-content" /\ op' = journal
           \/ /\ pc' = "absorb" /\ journal.state = "awaiting-absorption" /\ op'.state = "applying"
              /\ op'.current.cursor = journal.current.cursor + 1
    BY ContinuesTurn DEF Hon, Ord
  <1>3. Home' = Home /\ HEAD' = Home /\ HEAD = Home
    BY <1>1, <1>2, TurnedSame DEF Home, HEAD, Continuable, OnBranch, Same
  <1>4. CASE pc' = "continue"
    <2>1. ~Awaits("conflicted") /\ ~Listens'
      BY <1>4 DEF Awaits, Listens
    <2>2. QED
      BY <1>2, <1>4, <2>1, HonestBeyond
  <1>5. CASE pc' \in {"reword", "edit"}
    <2>1. Reached(journal, objs, Home, index) /\ ~Listens'
      BY <1>1, <1>2, <1>5 DEF Hon, Honest, Awaits, Listens
    <2>2. Reached(journal', objs', Home', index') /\ On(op', objs', HEAD')
      BY <1>1, <1>2, <1>3, <1>5, <2>1 DEF Reached
    <2>3. QED
      BY <1>5, <2>1, <2>2 DEF Honest
  <1>6. CASE pc' = "absorb"
    <2>1. Reached(journal, objs, Home, index) /\ ~Listens' /\ ~Awaits(journal'.state)
      BY <1>1, <1>2, <1>6 DEF Hon, Honest, Awaits, Listens
    <2>2. On(op', objs', HEAD')
      BY <1>1, <1>2, <1>3, <2>1 DEF Reached, On, Turned
    <2>3. op'.current.cursor - 1 = journal.current.cursor /\ journal.current.cursor \in Nat
      BY <1>2, <1>6, HonestGrounds
    <2>4. TakenIn(op', objs', op'.current.cursor - 1, objs'[HEAD'].tree \cup index')
      BY <1>1, <1>2, <1>3, <2>1, <2>3 DEF Reached, TakenIn, Turned, Unmoved, Same
    <2>5. QED
      BY <1>6, <2>1, <2>2, <2>4 DEF Honest
  <1>7. QED
    BY <1>2, <1>4, <1>5, <1>6

LEMMA AmendsSame ==
    ASSUME Repository, branch' = branch, Meld \/ RewordStep \/ EditStep
    PROVE  /\ objs'[New].parents = objs[HEAD].parents /\ objs[HEAD].tree \subseteq objs'[New].tree /\ HEAD' = New
           /\ Meld => index \subseteq objs'[New].tree
  <1>1. ASSUME NEW of, NEW named, NEW content, Amend(of, named, content)
        PROVE  /\ objs'[New].parents = objs[HEAD].parents /\ objs[HEAD].tree \subseteq objs'[New].tree /\ HEAD' = New
               /\ content \subseteq objs'[New].tree
    BY <1>1, AmendedCommit
  <1>2. CASE Meld
    <2>1. Amend(objs[op.current.commit].of, objs[op.current.commit].named, index)
      BY <1>2 DEF Meld
    <2>2. QED
      BY <1>1, <2>1
  <1>3. CASE ~Meld
    <2>1. \E of, named, content : Amend(of, named, content)
      BY <1>3, Zenon DEF RewordStep, EditStep
    <2>2. QED
      BY <1>1, <1>3, <2>1
  <1>4. QED
    BY <1>2, <1>3

(* The change at the cursor is staged.                                     *)
LEMMA TakesItem ==
    ASSUME Hon, pc = "absorb", op.current.cursor \in Nat, op.current.cursor > 0, index' = index \cup Adds(Item)
    PROVE  Reached(op, objs, HEAD, index')
  <1> DEFINE a == NextStep.absorbs
             m == op.current.cursor
             T == objs[HEAD].tree
  <1>1. \A k \in 1..(m - 1) : k <= Len(a) => Brought(objs, a[k]) \subseteq T \cup index
    BY DEF Hon, Honest, TakenIn, NextStep
  <1>2. Brought(objs, a[m]) \subseteq T \cup Adds(Item)
    BY BroughtTrue DEF Item, Adds
  <1>3. ASSUME NEW k \in 1..m, k <= Len(a)
        PROVE  Brought(objs, a[k]) \subseteq T \cup index'
    <2>1. k = m \/ k \in 1..(m - 1)
      OBVIOUS
    <2> HIDE DEF a, m, T
    <2>2. QED
      BY <1>1, <1>2, <1>3, <2>1
  <1>4. On(op, objs, HEAD)
    BY DEF Hon, Honest
  <1>5. QED
    BY <1>3, <1>4 DEF Reached, TakenIn, NextStep

(* All is staged.                                                          *)
LEMMA TakesAll ==
    ASSUME Hon, [Next]_vars, pc = "absorb", op.current.cursor > 0, ~Outstanding
    PROVE  Reached(op, objs, HEAD, index)
  <1> DEFINE a == NextStep.absorbs
             m == op.current.cursor
  <1>1. m \in Nat /\ Len(a) \in Nat
    <2>1. NextStep \in Step
      BY HonestGrounds DEF Planned, NextStep, Stepping
    <2>2. a \in Seq(Nat)
      BY <2>1 DEF Step
    <2>3. QED
      BY <2>2, HonestGrounds, LenProperties
  <1>2. \A k \in 1..(m - 1) : k <= Len(a) => Brought(objs, a[k]) \subseteq objs[HEAD].tree \cup index
    BY DEF Hon, Honest, TakenIn, NextStep
  <1>3. ASSUME NEW k \in 1..m, k <= Len(a)
        PROVE  k \in 1..(m - 1)
    <2>1. ~(m <= Len(a))
      BY DEF Outstanding
    <2> HIDE DEF a, m
    <2>2. QED
      BY <1>1, <1>3, <2>1
  <1>4. On(op, objs, HEAD)
    BY DEF Hon, Honest
  <1>5. QED
    BY <1>2, <1>3, <1>4 DEF Reached, TakenIn, NextStep

LEMMA HonestInStep ==
    ASSUME Hon, [Next]_vars,
           \/ BeginStep \/ PickApplies \/ PickConflicts \/ StepBlocked \/ MergeApplies \/ MergeConflicts
           \/ MergeJoinsNothing \/ ApplyForecast \/ ContinuePick \/ CommitJoin
           \/ BeginAbsorption \/ AbsorbApplies \/ AbsorbConflicts \/ AbsorbBlocked \/ AdvanceCursor \/ Meld
           \/ FinishStep \/ RewordStep \/ EditStep
    PROVE  Honest'
  <1> USE DEF Works, Thinks, Journals, Write, Go, gitVars, headVars, treeVars, histVars
  <1>1. pc \in {"queue"} \cup Stepping /\ UNCHANGED <<branch, undoing>>
    BY DEF BeginStep, PickApplies, PickConflicts, StepBlocked, MergeApplies, MergeConflicts,
           MergeJoinsNothing, ApplyForecast, ContinuePick, CommitJoin,
           BeginAbsorption, AbsorbApplies, AbsorbConflicts, AbsorbBlocked, AdvanceCursor, Meld,
           FinishStep, RewordStep, EditStep, Stepping
  <1>2. /\ pc # "idle" /\ (pc \in Stepping \/ pc = "queue") /\ Home = HEAD /\ branch = journal.branch /\ op.branch = journal.branch
        /\ op.current.cursor \in Nat /\ Repository /\ Grows(objs, objs') /\ Lineage(objs) /\ Planned(op.queue, Len(objs))
        /\ HEAD \in 1..Len(objs)
    BY <1>1, HonestGrounds DEF Stepping
  <1>3. pc \in Stepping => op.next \in 1..Len(op.queue)
    BY HonestGrounds
  <1>4. ~Awaits("applying") /\ ~Awaits("conflicted") /\ ~Awaits("blocked") /\ TypesIInv
    BY DEF Awaits, Hon, Ord
  <1>5. /\ pc \in Written => journal = op
        /\ pc \in {"pick", "merge", "join", "absorb", "cursor", "finish"} => journal.state = "applying"
        /\ pc \in {"batch", "continue"} => journal.state = "conflicted"
    BY DEF Hon, Ord, Settled, Written
  <1>6. pc \in {"pick", "join"} \/ (pc \in {"batch", "continue"}) => HEAD = op.current.before /\ op.current.cursor = 0
    <2>1. pc \in {"batch", "continue"} => Waiting
      BY DEF Waiting, Hon, Ord, Settled
    <2>2. QED
      BY <2>1 DEF Hon, Ord, Settled
  <1>7. CASE BeginStep
    <2>1. /\ pc = "queue" /\ pc' = NextStep.kind /\ NextStep.kind # "omit" /\ journal' = op' /\ MoreSteps
      BY <1>7 DEF BeginStep
    <2>2. op'.state = "applying"
      BY <1>7, Runs DEF BeginStep, Sound, Shaped, Hon, Ord, TypesIInv
    <2>3. pc' \in {"pick", "merge"} /\ ~Listens'
      BY <1>2, <2>1, OperationTrue DEF Hon, Ord, Listens
    <2>4. QED
      BY <1>4, <2>1, <2>2, <2>3, HonestBeyond
  <1>8. CASE PickConflicts \/ MergeConflicts \/ StepBlocked \/ MergeJoinsNothing \/ AbsorbBlocked
    <2>1. /\ pc \in {"pick", "merge", "absorb"} /\ pc' = "paused" /\ journal' = journal
      BY <1>8 DEF PickConflicts, MergeConflicts, StepBlocked, MergeJoinsNothing, AbsorbBlocked
    <2>2. op'.state \in {"conflicted", "blocked"}
      BY <1>2, <1>4, <1>8, StepsTurn
    <2>3. ~Listens' /\ ~Awaits(journal'.state)
      BY <1>4, <1>5, <2>1, <2>2 DEF Listens
    <2>4. QED
      BY <2>1, <2>3, HonestBeyond
  <1>9. CASE MergeApplies \/ ApplyForecast
    <2>1. \/ pc = "merge" /\ pc' = "join" /\ journal' = journal
          \/ pc = "paused" /\ op.state = "conflicted" /\ pc' = "batch" /\ journal' = op
      BY <1>9 DEF MergeApplies, ApplyForecast
    <2>2. ~Listens' /\ ~Awaits(journal'.state)
      BY <1>4, <1>5, <2>1 DEF Listens
    <2>3. QED
      BY <2>1, <2>2, HonestBeyond
  <1>10. CASE ContinuePick \/ PickApplies
    <2> DEFINE c == op.current.commit
    <2>1. /\ pc \in {"pick", "batch", "continue"} /\ UNCHANGED <<op, journal>>
          /\ pc' = "record" \/ (pc = "pick" /\ pc' \in {"finish", "absorb"})
          /\ \E of, named, content : AddCommit(<<HEAD>>, of, named, content)
      BY <1>10, Zenon DEF ContinuePick, PickApplies
    <2>2. objs'[New].parents = <<HEAD>> /\ HEAD' = New
      BY <1>1, <1>2, <2>1, AddedCommit
    <2>3. On(op', objs', HEAD') /\ ~Listens' /\ ~Awaits(journal'.state)
      BY <1>4, <1>5, <1>6, <2>1, <2>2 DEF On, Listens
    <2>4. TakenIn(op', objs', 0, objs'[HEAD'].tree \cup index') /\ TakenIn(op', objs', 0 - 1, objs'[HEAD'].tree \cup index')
      BY DEF TakenIn
    <2>5. pc' \in {"finish", "absorb"} => op'.current.cursor = 0
      BY <1>6, <2>1
    <2>6. pc' \in {"finish", "absorb", "record"}
      BY <2>1
    <2>7. Reached(op', objs', HEAD', index') \/ pc' = "record"
      BY <2>3, <2>4, <2>5, <2>6 DEF Reached
    <2>8. QED
      BY <2>3, <2>4, <2>5, <2>6, <2>7 DEF Honest
  <1>11. CASE CommitJoin
    <2>1. /\ pc \in {"join", "batch", "continue"} /\ pc' = "record-join" /\ UNCHANGED <<op, journal>>
          /\ AddCommit(<<HEAD, mh>>, None, FALSE, index) /\ NextStep.kind = "merge"
      BY <1>11 DEF CommitJoin
    <2>2. Stops(op)
      BY <2>1 DEF Hon, Ord, Settled, Waiting
    <2>3. mh = op.current.joins
      BY <2>1, <2>2 DEF Stops, NextStep
    <2>4. objs'[New].parents = <<HEAD, mh>> /\ HEAD' = New
      BY <1>1, <1>2, <2>1, AddedCommit
    <2>5. ~Listens' /\ ~Awaits(journal'.state)
      BY <1>4, <1>5, <2>1 DEF Listens
    <2>6. QED
      BY <1>6, <2>1, <2>3, <2>4, <2>5 DEF Honest
  <1>12. CASE BeginAbsorption \/ AdvanceCursor
    <2>1. /\ pc \in {"absorb", "cursor"} /\ pc' = "absorb" /\ journal' = op' /\ UNCHANGED <<tip, index, objs>>
      BY <1>12 DEF BeginAbsorption, AdvanceCursor
    <2>2. /\ Turned(op, op') /\ op'.state = op.state
          /\ BeginAbsorption => op'.current.cursor = 1
          /\ AdvanceCursor => op'.current.cursor = op.current.cursor + 1
      BY <1>2, <1>4, <1>12, StepsTurn
    <2>3. HEAD' = HEAD /\ ~Awaits(journal'.state) /\ ~Listens'
      BY <1>1, <1>4, <1>5, <2>1, <2>2 DEF HEAD, Listens, Written
    <2>4. On(op', objs', HEAD')
      BY <2>1, <2>2, <2>3 DEF Hon, Honest, Reached, On, Turned
    <2>5. TakenIn(op', objs', op'.current.cursor - 1, objs'[HEAD'].tree \cup index')
      <3>1. CASE BeginAbsorption
        BY <2>2, <3>1 DEF TakenIn
      <3>2. CASE AdvanceCursor
        <4>1. op'.current.cursor - 1 = op.current.cursor /\ pc = "cursor"
          BY <1>2, <2>2, <3>2 DEF AdvanceCursor
        <4>2. TakenIn(op, objs, op.current.cursor, objs[HEAD].tree \cup index)
          BY <4>1 DEF Hon, Honest, Reached
        <4>3. QED
          BY <2>1, <2>2, <2>3, <4>1, <4>2 DEF TakenIn, Turned, Unmoved, Same
      <3>3. QED
        BY <1>12, <3>1, <3>2
    <2>6. QED
      BY <2>1, <2>3, <2>4, <2>5 DEF Honest
  <1>13. CASE AbsorbApplies \/ AbsorbConflicts
    <2>1. /\ pc = "absorb" /\ op.current.cursor > 0 /\ index' = index \cup Adds(Item) /\ UNCHANGED <<tip, objs, journal>>
          /\ \/ pc' = "cursor" /\ op' = op
             \/ pc' = "paused" /\ AbsorbConflicts
      BY <1>13 DEF AbsorbApplies, AbsorbConflicts
    <2>2. Reached(op, objs, HEAD, index')
      BY <1>2, <2>1, TakesItem
    <2>3. AbsorbConflicts => Turned(op, op') /\ op'.state = "awaiting-absorption" /\ op'.current = op.current
      BY <1>2, <1>4, StepsTurn
    <2>4. HEAD' = HEAD /\ ~Awaits(journal'.state)
      BY <1>1, <1>4, <1>5, <2>1 DEF HEAD
    <2>5. Reached(op', objs', HEAD', index')
      BY <2>1, <2>2, <2>3, <2>4 DEF Reached, On, TakenIn, Turned, Unmoved, Same
    <2>6. QED
      BY <2>1, <2>4, <2>5 DEF Honest
  <1>14. CASE Meld
    <2>1. /\ pc = "absorb" /\ op.current.cursor > 0 /\ ~Outstanding /\ pc' = "finish" /\ UNCHANGED <<op, journal>>
          /\ index' = {}
      BY <1>14 DEF Meld
    <2>2. Reached(op, objs, HEAD, index)
      BY <2>1, TakesAll
    <2>3. /\ objs'[New].parents = objs[HEAD].parents /\ objs[HEAD].tree \cup index \subseteq objs'[New].tree \cup index'
          /\ HEAD' = New /\ ~Awaits(journal'.state)
      BY <1>1, <1>2, <1>4, <1>5, <1>14, <2>1, AmendsSame
    <2>4. Reached(op, objs', New, index')
      BY <1>2, <1>3, <2>1, <2>2, <2>3, ReachedAmends DEF Stepping
    <2>5. QED
      BY <2>1, <2>3, <2>4 DEF Honest, Listens
  <1>15. CASE FinishStep
    <2>1. pc = "finish" /\ UNCHANGED <<journal, tip, index, objs>> /\ ((pc' = "record" /\ op' = op) \/ pc' = "paused")
      BY <1>15 DEF FinishStep
    <2>2. pc' = "paused" => Turned(op, op') /\ op'.current.cursor = op.current.cursor
      BY <1>2, <1>4, <1>15, StepsTurn
    <2>3. HEAD' = HEAD /\ ~Awaits(journal'.state)
      BY <1>1, <1>4, <1>5, <2>1 DEF HEAD
    <2>4. Reached(op, objs, HEAD, index)
      BY <2>1 DEF Hon, Honest
    <2>5. Reached(op', objs', HEAD', index')
      BY <2>1, <2>2, <2>3, <2>4 DEF Reached, On, TakenIn, Turned, Unmoved, Same
    <2>6. On(op', objs', HEAD')
      BY <2>5 DEF Reached
    <2>7. QED
      BY <2>1, <2>3, <2>5, <2>6 DEF Honest
  <1>16. CASE RewordStep \/ EditStep
    <2>1. /\ pc \in {"reword", "edit"} /\ UNCHANGED <<journal, index>> /\ journal = op
          /\ (pc' = "record" /\ (op' = op \/ EditStep)) \/ (RewordStep /\ pc' = "paused")
      BY <1>5, <1>16, Zenon DEF RewordStep, EditStep, Written
    <2>2. /\ EditStep => Turned(op, op')
          /\ RewordStep /\ pc' = "paused" => op'.state = "blocked"
      BY <1>2, <1>4, StepsTurn
    <2>3. /\ objs'[New].parents = objs[HEAD].parents /\ objs[HEAD].tree \cup index \subseteq objs'[New].tree \cup index'
          /\ HEAD' = New /\ Home' = New
      BY <1>1, <1>2, <1>16, <2>1, AmendsSame DEF Home, HEAD
    <2>4. Awaits(journal'.state) /\ ~undoing' => Reached(journal', objs', Home', index')
      <3>1. SUFFICES ASSUME Awaits(journal.state), ~undoing PROVE Reached(journal, objs', New, index')
        BY <1>1, <2>1, <2>3
      <3>2. Reached(journal, objs, HEAD, index)
        BY <1>2, <3>1 DEF Hon, Honest
      <3>3. QED
        BY <1>2, <1>3, <2>1, <2>3, <3>2, ReachedAmends DEF Stepping
    <2>5. CASE pc' = "record"
      <3>1. On(op, objs, HEAD)
        BY <2>1 DEF Hon, Honest
      <3>2. On(op', objs', HEAD')
        BY <2>1, <2>2, <2>3, <2>5, <3>1 DEF On, Turned
      <3>3. QED
        BY <2>4, <2>5, <3>2 DEF Honest, Listens
    <2>6. CASE pc' = "paused" /\ RewordStep
      BY <1>4, <2>2, <2>4, <2>6, HonestBeyond DEF Listens
    <2>7. QED
      BY <2>1, <2>5, <2>6
  <1>17. QED
    BY <1>7, <1>8, <1>9, <1>10, <1>11, <1>12, <1>13, <1>14, <1>15, <1>16

(* What the person does between commands, and does not hide, leaves what a *)
(* paused operation has on its branch and in the index.                    *)
LEMMA HonestRests ==
    ASSUME Hon, [Next]_vars, PersonStep \/ Forecasts \/ UNCHANGED vars, ~meddled'
    PROVE  Honest'
  <1> USE DEF Outside, Acts, ActsIf, AtRest, procVars, gitVars, headVars, treeVars, histVars
  <1>1. UNCHANGED <<journal, op, pc, undoing>> /\ (PersonStep \/ Forecasts => pc = "idle")
    BY RestsAlone
  <1>2. CASE UNCHANGED vars
    <2>1. UNCHANGED <<journal, op, pc, undoing, objs, branch, tip, index>>
      BY <1>2 DEF vars
    <2>2. /\ HEAD' = HEAD /\ Home' = Home
          /\ Listens' <=> Listens
      BY <2>1 DEF HEAD, Home, Listens
    <2>3. QED
      BY <2>1, <2>2 DEF Hon, Honest
  <1>3. /\ tip \in [Branch -> Objects] /\ branch \in Branch /\ journal.branch \in Branch
        /\ Awaits(journal.state) => Pending /\ journal.branch # "main" /\ Still /\ (branch = journal.branch => Paused)
    <2>1. tip \in [Branch -> Objects] /\ branch \in Branch /\ journal.branch \in Branch /\ (Awaits(journal.state) => Pending)
      BY HonestGrounds
    <2>2. QED
      BY <2>1 DEF Hon, Ord, Settled, Paused, OnBranch, Awaits
  <1>4. Awaits(journal.state) /\ ~undoing /\ index # {} => /\ branch = journal.branch /\ wt \in Unsettled
                                                           /\ Paused
    <2>1. SUFFICES ASSUME Awaits(journal.state), ~undoing, index # {}
                   PROVE  branch = journal.branch /\ wt \in Unsettled
      BY <1>3
    <2>2. wt \in Unsettled /\ Home # journal.orig
      BY <2>1 DEF Hon, Ord, Orderly, Kempt, Parked
    <2>3. journal.state = "awaiting-absorption"
      BY <2>1, <2>2 DEF Hon, Ord, Orderly, Parked, Awaits, Unsettled
    <2>4. QED
      BY <2>2, <2>3 DEF Hon, Ord, Orderly, Parked
  <1>5. ASSUME pc = "idle", Awaits(journal.state) /\ ~undoing => Home' = Home /\ (index = {} \/ index' = index)
        PROVE  Honest'
    <2>1. pc' = "idle" /\ ~Listens'
      BY <1>1, <1>5 DEF Listens
    <2>2. Awaits(journal'.state) /\ ~undoing' => Reached(journal', objs', Home', index')
      BY <1>1, <1>5, StillReached
    <2>3. QED
      BY <2>1, <2>2, HonestBeyond
  <1>6. CASE Resolve \/ Edit \/ CaptureDraft \/ GoBack \/ Forecasts
    <2>1. UNCHANGED <<tip, index>> /\ pc = "idle"
      BY <1>6 DEF Resolve, Edit, CaptureDraft, GoBack, Forecasts, Forecast
    <2>2. QED
      BY <1>1, <1>5, <2>1 DEF Home
  <1>7. CASE GitContinue \/ GitAbandon
    <2>1. ~Still /\ pc = "idle"
      BY <1>7 DEF GitContinue, GitAbandon, Still
    <2>2. QED
      BY <1>3, <1>5, <2>1
  <1>8. CASE CommitAbsorbed \/ ThrowAway
    BY <1>8 DEF CommitAbsorbed, ThrowAway
  <1>9. CASE CleanUp
    <2>1. tip' = tip /\ pc = "idle" /\ ~(Paused /\ wt \in Unsettled)
      BY <1>9 DEF CleanUp, Unsettled
    <2>2. QED
      BY <1>1, <1>4, <1>5, <2>1 DEF Home
  <1>10. CASE CommitOwn
    <2>1. pc = "idle" /\ tip' = [tip EXCEPT ![branch] = New] /\ ~Paused /\ index' = index
      BY <1>10 DEF CommitOwn, AddCommit
    <2>2. Awaits(journal.state) => Home' = Home
      BY <1>1, <1>3, <2>1 DEF Home
    <2>3. QED
      BY <1>5, <2>1, <2>2
  <1>11. CASE MainMoves
    <2>1. pc = "idle" /\ tip' = [tip EXCEPT !["main"] = New] /\ index' = index
      BY <1>11 DEF MainMoves
    <2>2. Awaits(journal.state) => Home' = Home
      BY <1>1, <1>3, <2>1 DEF Home
    <2>3. QED
      BY <1>5, <2>1, <2>2
  <1>12. CASE \E b \in Branch : Checkout(b) \/ Land(b)
    <2>1. PICK b \in Branch : Checkout(b) \/ Land(b)
      BY <1>12
    <2>2. CASE Checkout(b)
      <3>1. tip' = tip /\ pc = "idle" /\ ~(Paused /\ index # {})
        BY <2>2 DEF Checkout
      <3>2. QED
        BY <1>1, <1>4, <1>5, <3>1 DEF Home
    <2>3. CASE Land(b)
      <3>1. pc = "idle" /\ tip' = [tip EXCEPT !["main"] = tip[b]] /\ index' = index
        BY <2>3 DEF Land
      <3>2. Awaits(journal.state) => Home' = Home
        BY <1>1, <1>3, <3>1 DEF Home
      <3>3. QED
        BY <1>5, <3>1, <3>2
    <2>4. QED
      BY <2>1, <2>2, <2>3
  <1>13. QED
    BY <1>2, <1>6, <1>7, <1>8, <1>9, <1>10, <1>11, <1>12, Zenon DEF PersonStep

LEMMA HonestStarts == Init => Honest
  <1> SUFFICES ASSUME Init PROVE Honest
    OBVIOUS
  <1>1. pc = "idle" /\ journal.state = "applying"
    BY DEF Init, NoOperation
  <1>2. QED
    BY <1>1 DEF Honest, Listens, Awaits

LEMMA HonestStep ==
    ASSUME WorkIInv, Descent(objs), ~meddled => Honest, [Next]_vars
    PROVE  ~meddled' => Honest'
  <1> SUFFICES ASSUME ~meddled' PROVE Honest'
    OBVIOUS
  <1>0. Hon
    BY MeddledStays DEF WorkIInv, Hon, Ord, TypesIInv, Bounded
  <1>1. CASE \/ RemoveDraftFiles \/ ReduceToHead \/ ResetOnto \/ OmitStep \/ PositionStep \/ AnchorStep \/ Advance
             \/ QueueDone \/ Verified \/ MaterializeOverlay \/ RecordOverlay \/ Publish \/ ReleaseAnchors
             \/ AbortReset \/ AbortRestore
    BY <1>0, <1>1, HonestPhases
  <1>2. CASE \/ BeginStep \/ PickApplies \/ PickConflicts \/ StepBlocked \/ MergeApplies \/ MergeConflicts
             \/ MergeJoinsNothing \/ ApplyForecast \/ ContinuePick \/ CommitJoin
             \/ BeginAbsorption \/ AbsorbApplies \/ AbsorbConflicts \/ AbsorbBlocked \/ AdvanceCursor \/ Meld
             \/ FinishStep \/ RewordStep \/ EditStep
    BY <1>0, <1>2, HonestInStep
  <1>3. CASE RecordApplication \/ RecordJoin \/ Begins \/ Continues \/ Abort
    BY <1>0, <1>3, HonestEnds, HonestBegins, HonestContinues
  <1>4. CASE Pause \/ Mismatch \/ OverlayMismatch \/ CommitFails \/ Crash \/ ClearJournal \/ AbortClear
    BY <1>0, <1>4, HonestStops
  <1>5. CASE PersonStep \/ Forecasts \/ UNCHANGED vars
    BY <1>0, <1>5, HonestRests
  <1>6. QED
    BY <1>1, <1>2, <1>3, <1>4, <1>5, Zenon DEF Next, CommandStep

HonestIInv == WorkIInv /\ LinesIInv /\ (~meddled => Honest)

LEMMA HonestInvariant == Spec => []HonestIInv
  <1>1. Init => HonestIInv
    BY HonestStarts, WorkStarts, LinesStart DEF HonestIInv
  <1>2. HonestIInv /\ [Next]_vars => HonestIInv'
    BY WorkStep, LinesStep, HonestStep DEF HonestIInv, LinesIInv
  <1>3. QED
    BY <1>1, <1>2, PTL DEF Spec

(* "A journal never claims more progress than Git actually made": in every *)
(* history, for every program and wherever a command was killed, a journal *)
(* that `--continue` would accept is of a step that HEAD is in. A conflict *)
(* is continued on the commit its step began from; a message, a content or *)
(* an absorption is taken by a commit right on top of that one, which has, *)
(* or the index has, all that the cursor counts as absorbed (the cursor is *)
(* journaled by AdvanceCursor, after AbsorbApplies staged the change). The *)
(* exceptions are declared: work that a person hid from a paused journal,  *)
(* and an abort that was cut short.                                        *)
THEOREM JournalsAreHonest == Spec => []JournalHonest
  <1>1. ASSUME HonestIInv, AtRest, Pending, ~meddled, ~undoing, Continuable(journal)
        PROVE  LET cur == journal.current
                   step == journal.queue[journal.next] IN
               /\ journal.state = "conflicted" => HEAD = cur.before
               /\ journal.state # "conflicted" => objs[HEAD].parents = <<cur.before>>
               /\ \A k \in 1..cur.cursor : k <= Len(step.absorbs) =>
                     Delta(step.absorbs[k]) \subseteq objs[HEAD].tree \cup index
    <2>1. HEAD = Home
      BY <1>1 DEF Continuable, OnBranch, HEAD, Home
    <2>2. CASE journal.state = "conflicted"
      <3>1. ~Still
        BY <1>1, <2>2 DEF Continuable, PendingInGit, Still
      <3>2. HEAD = journal.current.before /\ journal.current.cursor = 0
        BY <1>1, <2>1, <2>2, <3>1 DEF HonestIInv, WorkIInv, Settled
      <3>3. 1..0 = {}
        OBVIOUS
      <3>4. QED
        BY <2>2, <3>2, <3>3
    <2>3. CASE journal.state # "conflicted"
      <3>1. Awaits(journal.state)
        BY <1>1, <2>3 DEF Continuable, Awaits
      <3>2. Reached(journal, objs, HEAD, index)
        BY <1>1, <2>1, <3>1 DEF HonestIInv, Honest
      <3>3. QED
        BY <2>3, <3>2, BroughtTrue DEF Reached, On, TakenIn
    <2>4. QED
      BY <2>2, <2>3
  <1>2. HonestIInv => JournalHonest
    BY <1>1 DEF JournalHonest
  <1>3. QED
    BY <1>2, HonestInvariant, PTL

-----------------------------------------------------------------------------

(* Merges recreated.  Each commit a plan has rewritten has the parents that*)
(* replaced its original's, in their order, and comes after the new base.  *)
Recreated(o, s) ==
    \A i \in 1..Len(o.queue) : i < o.next /\ o.queue[i].kind # "omit" =>
        LET made == s[o.rewritten[o.queue[i].commit]].parents IN
        /\ Len(made) = Len(o.queue[i].parents)
        /\ \A k \in 1..Len(o.queue[i].parents) : made[k] = Mapped(o, o.queue[i].parents[k])
Rooted(o, s) == \A i \in 1..Len(o.queue) : i < o.next => o.onto \in s[o.rewritten[o.queue[i].commit]].past
Rebuilt(o, s) == Recreated(o, s) /\ Rooted(o, s)

(* HEAD is where the line that is left starts.                             *)
AtLast(o, h) ==
    /\ o.next = 1 => h = o.onto
    /\ o.next > 1 /\ Straight(o.queue, o.next) => h = o.rewritten[o.queue[o.next - 1].commit]

Settling == {"queue"} \cup Moving \cup Finishing
Topological ==
    /\ Rebuilt(journal, objs)
    /\ pc \in Moving => Rebuilt(op, objs)
    /\ pc \in Settling => AtLast(op, HEAD)
    /\ pc = "record-join" => NextStep.kind = "merge"

Carried(o, p) == Same(o, p) /\ p.next = o.next /\ p.rewritten = o.rewritten

LEMMA RebuiltStays ==
    ASSUME NEW s, NEW z, Grows(s, z), NEW o, Typed(o, Len(s)), NEW p, Carried(o, p), Rebuilt(o, s)
    PROVE  Rebuilt(p, z)
  <1>1. \A i \in 1..Len(o.queue) : i < o.next => z[o.rewritten[o.queue[i].commit]] = s[o.rewritten[o.queue[i].commit]]
    BY QueueWithin DEF Within, Grows
  <1>2. p.queue = o.queue /\ p.next = o.next /\ p.rewritten = o.rewritten /\ p.onto = o.onto
    BY DEF Carried, Same
  <1>3. \A c : Mapped(p, c) = Mapped(o, c)
    BY <1>2 DEF Mapped
  <1>4. Recreated(p, z)
    <2>1. ASSUME NEW i \in 1..Len(o.queue), i < o.next, o.queue[i].kind # "omit"
          PROVE  LET made == z[p.rewritten[o.queue[i].commit]].parents IN
                 /\ Len(made) = Len(o.queue[i].parents)
                 /\ \A k \in 1..Len(o.queue[i].parents) : made[k] = Mapped(p, o.queue[i].parents[k])
      <3>1. /\ Len(s[o.rewritten[o.queue[i].commit]].parents) = Len(o.queue[i].parents)
            /\ \A k \in 1..Len(o.queue[i].parents) :
                  s[o.rewritten[o.queue[i].commit]].parents[k] = Mapped(o, o.queue[i].parents[k])
        BY <2>1, Zenon DEF Rebuilt, Recreated
      <3>2. z[p.rewritten[o.queue[i].commit]] = s[o.rewritten[o.queue[i].commit]]
        BY <1>1, <1>2, <2>1
      <3>3. QED
        BY <1>3, <3>1, <3>2
    <2>2. QED
      BY <1>2, <2>1, Zenon DEF Recreated
  <1>5. Rooted(p, z)
    BY <1>1, <1>2 DEF Rebuilt, Rooted
  <1>6. QED
    BY <1>4, <1>5 DEF Rebuilt

LEMMA AtLastStays ==
    ASSUME NEW o, NEW p, Carried(o, p), NEW h, AtLast(o, h)
    PROVE  AtLast(p, h)
  BY DEF Carried, Same, AtLast

LEMMA NothingRebuilt == \A s : Rebuilt(NoOperation, s)
  <1>1. NoOperation.queue = <<>> /\ Len(<<>>) = 0
    BY DEF NoOperation
  <1>2. QED
    BY <1>1 DEF Rebuilt, Recreated, Rooted

(* What a step states as its parents is on the new base or was rewritten.  *)
LEMMA ParentsRooted ==
    ASSUME NEW s, Lineage(s), Descent(s), NEW o, Typed(o, Len(s)), o.id # 0, o.next <= Len(o.queue), Rebuilt(o, s),
           NEW k \in 1..Len(o.queue[o.next].parents)
    PROVE  o.onto \in s[Mapped(o, o.queue[o.next].parents[k])].past
  <1> DEFINE q == o.queue[o.next].parents[k]
  <1>1. Within(o, Len(s)) /\ o.next \in 1..Len(o.queue)
    <2>1. Within(o, Len(s))
      BY QueueWithin
    <2>2. QED
      BY <2>1 DEF Within
  <1>2. CASE q = NoCommit
    <2>1. o.onto \in 1..Len(s)
      BY DEF Typed, NoCommit
    <2>2. o.onto \in s[o.onto].past /\ Mapped(o, q) = o.onto
      BY <1>2, <2>1, PastTrue DEF Mapped
    <2>3. QED
      BY <2>2
  <1>3. CASE q # NoCommit
    <2>1. PICK j \in 1..Len(o.queue) : j < o.next /\ o.queue[j].commit = q
      BY <1>1, <1>3 DEF Within
    <2>2. Mapped(o, q) = o.rewritten[q]
      BY <1>3, Zenon DEF Mapped
    <2> HIDE DEF q
    <2>3. o.onto \in s[o.rewritten[q]].past
      BY <2>1 DEF Rebuilt, Rooted
    <2>4. QED
      BY <2>2, <2>3 DEF q
  <1>4. QED
    BY <1>2, <1>3

(* One more step is done, as a commit that stands for it.                  *)
StandsFor(o, s, h) ==
    LET step == o.queue[o.next] IN
    /\ o.onto \in s[h].past
    /\ step.kind # "omit" => /\ Len(s[h].parents) = Len(step.parents)
                             /\ \A k \in 1..Len(step.parents) : s[h].parents[k] = Mapped(o, step.parents[k])
Maps(o, p, h) ==
    Same(o, p) /\ p.next = o.next + 1 /\ p.rewritten = [o.rewritten EXCEPT ![o.queue[o.next].commit] = h]

LEMMA RebuiltOn ==
    ASSUME NEW s, Len(s) \in Nat, NEW o, Typed(o, Len(s)), Drawn(o.queue, s), o.next <= Len(o.queue), Rebuilt(o, s),
           NEW h, StandsFor(o, s, h), NEW p, Maps(o, p, h)
    PROVE  Rebuilt(p, s) /\ p.rewritten[o.queue[p.next - 1].commit] = h
  <1> DEFINE q == o.queue
             N == Len(q)
             x == o.next
             c == q[x].commit
  <1>0. /\ Same(o, p) /\ p.next = o.next + 1 /\ p.rewritten = [o.rewritten EXCEPT ![c] = h]
        /\ o.onto \in s[h].past
        /\ q[x].kind # "omit" =>
               /\ Len(s[h].parents) = Len(q[x].parents)
               /\ \A k \in 1..Len(q[x].parents) : s[h].parents[k] = Mapped(o, q[x].parents[k])
    BY Zenon DEF StandsFor, Maps
  <1>1. /\ N \in Nat /\ x \in Nat /\ x >= 1 /\ x \in 1..N
        /\ \A i \in 1..N :
              /\ q[i].commit \in 1..Len(s) /\ q[i].commit # NoCommit
              /\ \A k \in 1..Len(q[i].parents) :
                    \/ q[i].parents[k] = NoCommit
                    \/ \E j \in 1..N : j < i /\ q[j].commit = q[i].parents[k]
    <2>1. Within(o, Len(s))
      BY QueueWithin
    <2>2. QED
      BY <2>1 DEF Within
  <1>2. \A i, j \in 1..N : i < j => q[i].commit < q[j].commit
    BY DEF Drawn
  <1>3. \A i \in 1..N : q[i].commit \in DOMAIN o.rewritten
    BY DEF Typed, Mapping
  <1>4. \A i \in 1..N : i < x => q[i].commit # c
    <2>1. ASSUME NEW i \in 1..N, i < x PROVE q[i].commit # c
      <3>1. q[i].commit < c /\ q[i].commit \in Nat
        BY <1>1, <1>2, <2>1
      <3>2. QED
        BY <3>1
    <2>2. QED
      BY <2>1
  <1>5. /\ p.rewritten[c] = h /\ p.queue = q /\ p.onto = o.onto /\ c = q[x].commit
        /\ \A i \in 1..N : i < x => p.rewritten[q[i].commit] = o.rewritten[q[i].commit]
    BY <1>0, <1>1, <1>3, <1>4 DEF Same
  <1>6. \A i \in 1..N : i < p.next => i < x \/ i = x
    BY <1>0, <1>1
  <1> HIDE DEF q, N, x, c
  <1>7. ASSUME NEW i \in 1..N, i <= x, NEW k \in 1..Len(q[i].parents)
        PROVE  Mapped(p, q[i].parents[k]) = Mapped(o, q[i].parents[k])
    <2>1. CASE q[i].parents[k] = NoCommit
      BY <1>5, <2>1 DEF Mapped
    <2>2. CASE q[i].parents[k] # NoCommit
      <3>1. PICK j \in 1..N : j < i /\ q[j].commit = q[i].parents[k]
        BY <1>1, <1>7, <2>2
      <3>2. j < x
        BY <1>1, <1>7, <3>1
      <3>3. p.rewritten[q[i].parents[k]] = o.rewritten[q[i].parents[k]]
        BY <1>5, <3>1, <3>2
      <3>4. QED
        BY <2>2, <3>3, Zenon DEF Mapped
    <2>3. QED
      BY <2>1, <2>2
  <1>8. Recreated(p, s)
    <2>1. SUFFICES ASSUME NEW i \in 1..N, i < p.next, q[i].kind # "omit"
                   PROVE  LET made == s[p.rewritten[q[i].commit]].parents IN
                          /\ Len(made) = Len(q[i].parents)
                          /\ \A k \in 1..Len(q[i].parents) : made[k] = Mapped(p, q[i].parents[k])
      <3>1. p.queue = q /\ Len(p.queue) = N
        BY <1>5 DEF N
      <3> DEFINE Right(i) == LET made == s[p.rewritten[q[i].commit]].parents IN
                             /\ Len(made) = Len(q[i].parents)
                             /\ \A k \in 1..Len(q[i].parents) : made[k] = Mapped(p, q[i].parents[k])
      <3>2. Recreated(p, s) <=> \A i \in 1..N : i < p.next /\ q[i].kind # "omit" => Right(i)
        BY <3>1 DEF Recreated
      <3> HIDE DEF Right
      <3>3. (\A i \in 1..N : i < p.next /\ q[i].kind # "omit" => Right(i)) => Recreated(p, s)
        BY <3>2
      <3>4. QED
        BY <3>3 DEF Right
    <2>2. CASE i < x
      <3>1. /\ Len(s[o.rewritten[q[i].commit]].parents) = Len(q[i].parents)
            /\ \A k \in 1..Len(q[i].parents) :
                  s[o.rewritten[q[i].commit]].parents[k] = Mapped(o, q[i].parents[k])
        BY <2>1, <2>2, Zenon DEF Rebuilt, Recreated, N, q, x
      <3>2. p.rewritten[q[i].commit] = o.rewritten[q[i].commit] /\ i <= x
        BY <1>1, <1>5, <2>2
      <3>3. QED
        BY <1>7, <3>1, <3>2
    <2>3. CASE i = x
      <3>1. /\ Len(s[h].parents) = Len(q[i].parents)
            /\ \A k \in 1..Len(q[i].parents) : s[h].parents[k] = Mapped(o, q[i].parents[k])
        BY <1>0, <2>1, <2>3
      <3>2. p.rewritten[q[i].commit] = h /\ i <= x
        BY <1>1, <1>5, <2>3
      <3>3. QED
        BY <1>7, <3>1, <3>2
    <2>4. QED
      BY <1>6, <2>1, <2>2, <2>3
  <1>9. Rooted(p, s)
    <2>1. SUFFICES ASSUME NEW i \in 1..N, i < p.next PROVE o.onto \in s[p.rewritten[q[i].commit]].past
      BY <1>5 DEF Rooted, N
    <2>2. CASE i < x
      BY <1>5, <2>1, <2>2 DEF Rebuilt, Rooted, N, q, x
    <2>3. CASE i = x
      BY <1>0, <1>5, <2>3
    <2>4. QED
      BY <1>6, <2>1, <2>2, <2>3
  <1>10. p.rewritten[o.queue[p.next - 1].commit] = h
    <2>1. p.next - 1 = x
      BY <1>0, <1>1 DEF x
    <2>2. QED
      BY <1>5, <2>1 DEF q
  <1>11. QED
    BY <1>8, <1>9, <1>10 DEF Rebuilt

(* An operation that nobody meddled with.                                  *)
Topo == Hon /\ Topological /\ ~meddled /\ (pc \notin {"idle"} \cup Undoing => Lined)

LEMMA TopoGrounds ==
    ASSUME Topo, [Next]_vars
    PROVE  /\ Grows(objs, objs') /\ Lineage(objs) /\ Descent(objs) /\ Len(objs) \in Nat /\ Repository
           /\ Typed(journal, Len(objs)) /\ Typed(op, Len(objs)) /\ TypesIInv
           /\ pc # "idle" => op.id # 0 /\ Same(journal, op) /\ Sound(op) /\ HEAD \in 1..Len(objs)
           /\ pc \in Starting \cup Finishing => journal = op
           /\ pc \in Stepping => Carried(journal, op) /\ Carried(op, journal)
  <1>1. TypesIInv /\ Descent(objs)
    BY DEF Topo, Hon, Ord
  <1>2. Grows(objs, objs') /\ Repository /\ Lineage(objs) /\ Len(objs) \in Nat
    BY <1>1, DescentStep, CommitsTrue DEF TypesIInv, Repository
  <1>3. Typed(journal, Len(objs)) /\ Typed(op, Len(objs))
    BY <1>1 DEF TypesIInv, Memory
  <1>4. pc # "idle" => op.id # 0 /\ Same(journal, op) /\ Sound(op) /\ HEAD \in 1..Len(objs)
    <2>1. pc # "idle" => op.id \in 1..ops /\ Same(journal, op) /\ Sound(op) /\ ops \in Nat
      BY <1>1, Runs, OperationTrue DEF TypesIInv, RebaseIInv, RebaseKinds
    <2>2. HEAD \in 1..Len(objs)
      BY HonestGrounds DEF Topo
    <2>3. QED
      BY <2>1, <2>2
  <1>5. pc \in Starting \cup Finishing => journal = op
    BY <1>1 DEF TypesIInv, RebaseIInv, Journaled
  <1>6. pc \in Stepping => Carried(journal, op) /\ Carried(op, journal)
    <2>1. ASSUME pc \in Stepping PROVE Lined
      BY <2>1 DEF Topo, Stepping, Undoing
    <2>2. QED
      BY <2>1, InStepTrue DEF Carried, Level, Same
  <1>7. QED
    BY <1>1, <1>2, <1>3, <1>4, <1>5, <1>6

(* The journal learns of a step by Advance, and else says what it said.    *)
LEMMA JournalCarried ==
    ASSUME Topo, [Next]_vars, ~Begins, ~Advance
    PROVE  Carried(journal, journal') \/ journal' = NoOperation
  <1> USE DEF Works, Thinks, Journals, Keep, Write
  <1>0. /\ \A o, p : Turned(o, p) => Carried(o, p)
        /\ \A o, p, q : Carried(o, p) /\ Carried(p, q) => Carried(o, q)
        /\ \A o : Carried(o, o)
    BY TurnedSame DEF Carried, Same
  <1>1. CASE UNCHANGED journal
    BY <1>0, <1>1
  <1>2. CASE BeginStep
    <2>1. journal = op /\ Sound(op)
      BY <1>2, TopoGrounds DEF BeginStep, Starting
    <2>2. QED
      BY <1>2, <2>1 DEF BeginStep, Sound, Shaped, Same, Carried
  <1>3. CASE Pause \/ Mismatch \/ OverlayMismatch \/ BeginAbsorption \/ AdvanceCursor \/ RecordOverlay
    <2>1. /\ pc \in Stepping \cup Finishing /\ pc # "idle"
          /\ (BeginAbsorption \/ AdvanceCursor \/ RecordOverlay => journal' = op')
      BY <1>3 DEF Pause, Mismatch, OverlayMismatch, BeginAbsorption, AdvanceCursor, RecordOverlay,
                  Stepping, Finishing, Sharing
    <2>2. Carried(op, journal')
      <3>1. Turned(op, journal')
        BY <1>3, <2>1, TopoGrounds, StepsTurn
      <3>2. QED
        BY <1>0, <3>1
    <2>3. Carried(journal, op)
      BY <1>0, <2>1, TopoGrounds
    <2>4. QED
      BY <1>0, <2>2, <2>3
  <1>4. CASE ApplyForecast
    BY <1>4, TopoGrounds DEF ApplyForecast, Stepping
  <1>5. CASE ClearJournal \/ AbortClear
    BY <1>5 DEF ClearJournal, AbortClear
  <1>6. CASE Continues
    BY <1>0, <1>6, ContinuesTurn, TopoGrounds
  <1>7. CASE \/ RemoveDraftFiles \/ ReduceToHead \/ ResetOnto \/ OmitStep \/ PositionStep \/ PickApplies
             \/ PickConflicts \/ StepBlocked \/ MergeApplies \/ MergeConflicts \/ MergeJoinsNothing
             \/ ContinuePick \/ CommitJoin \/ AbsorbApplies \/ AbsorbConflicts \/ AbsorbBlocked \/ Meld
    BY <1>1, <1>7 DEF RemoveDraftFiles, ReduceToHead, ResetOnto, OmitStep, PositionStep, PickApplies,
       PickConflicts, StepBlocked, MergeApplies, MergeConflicts, MergeJoinsNothing, ContinuePick, CommitJoin,
       AbsorbApplies, AbsorbConflicts, AbsorbBlocked, Meld
  <1>8. CASE \/ FinishStep \/ RecordApplication \/ RecordJoin \/ AnchorStep \/ QueueDone \/ Verified
             \/ MaterializeOverlay \/ Publish \/ ReleaseAnchors \/ RewordStep \/ EditStep \/ CommitFails
             \/ AbortReset \/ AbortRestore \/ Abort \/ Crash
    BY <1>1, <1>8 DEF FinishStep, RecordApplication, RecordJoin, AnchorStep, QueueDone, Verified,
       MaterializeOverlay, Publish, ReleaseAnchors, RewordStep, EditStep, CommitFails, AbortReset, AbortRestore,
       Abort, Crash
  <1>9. CASE PersonStep \/ Forecasts \/ UNCHANGED vars
    BY <1>1, <1>9, RestsAlone
  <1>10. QED
    BY <1>2, <1>3, <1>4, <1>5, <1>6, <1>7, <1>8, <1>9, Zenon DEF Next, CommandStep

LEMMA JournalRebuilt ==
    ASSUME Topo, [Next]_vars
    PROVE  Rebuilt(journal', objs')
  <1>1. CASE Begins
    <2>1. journal'.next = 1
      BY <1>1, BeginsAnew, TopoGrounds
    <2>2. \A i \in 1..Len(journal'.queue) : ~(i < journal'.next)
      BY <2>1
    <2>3. QED
      BY <2>2 DEF Rebuilt, Recreated, Rooted
  <1>2. CASE Advance
    <2>1. journal' = op /\ pc \in Moving
      BY <1>2 DEF Advance, Moving
    <2>2. Rebuilt(op, objs) /\ Carried(op, op)
      BY <2>1 DEF Topo, Topological, Carried, Same
    <2>3. QED
      BY <2>1, <2>2, TopoGrounds, RebuiltStays
  <1>3. CASE ~Begins /\ ~Advance
    <2>1. Carried(journal, journal') => Rebuilt(journal', objs')
      BY TopoGrounds, RebuiltStays DEF Topo, Topological
    <2>2. QED
      BY <1>3, <2>1, JournalCarried, NothingRebuilt
  <1>4. QED
    BY <1>1, <1>2, <1>3

LEMMA TopologicalBeyond ==
    ASSUME pc' \notin Settling, pc' # "record-join", Rebuilt(journal', objs')
    PROVE  Topological'
  BY DEF Topological, Settling

(* Steps after which the command is within a step, undoing, or at an end.  *)
LEMMA TopologicalElse ==
    ASSUME Topo, [Next]_vars,
           \/ RemoveDraftFiles \/ ReduceToHead \/ BeginStep \/ PickApplies \/ PickConflicts \/ StepBlocked
           \/ MergeApplies \/ MergeConflicts \/ MergeJoinsNothing \/ Pause \/ ApplyForecast \/ Mismatch
           \/ ContinuePick \/ BeginAbsorption \/ AbsorbApplies \/ AbsorbConflicts \/ AbsorbBlocked
           \/ AdvanceCursor \/ Meld \/ FinishStep \/ OverlayMismatch \/ (ReleaseAnchors /\ pc = "undone")
           \/ ClearJournal \/ RewordStep \/ EditStep \/ CommitFails \/ AbortReset \/ AbortRestore \/ AbortClear
           \/ Begins \/ Forecasts \/ Continues \/ Abort \/ Crash \/ PersonStep \/ UNCHANGED vars
    PROVE  Topological'
  <1> USE DEF Go, Stop, Settling, Moving, Finishing, Sharing
  <1>1. CASE \/ RemoveDraftFiles \/ ReduceToHead \/ PickApplies \/ PickConflicts \/ StepBlocked
             \/ MergeApplies \/ MergeConflicts \/ MergeJoinsNothing \/ Pause \/ ApplyForecast \/ Mismatch
             \/ ContinuePick \/ AbsorbApplies \/ AbsorbConflicts \/ AbsorbBlocked
             \/ AdvanceCursor \/ Meld \/ FinishStep \/ OverlayMismatch \/ (ReleaseAnchors /\ pc = "undone")
             \/ ClearJournal \/ RewordStep \/ EditStep \/ CommitFails \/ AbortReset \/ AbortRestore \/ AbortClear
             \/ Abort \/ Crash
    <2>1. pc' \notin Settling /\ pc' # "record-join"
      BY <1>1 DEF RemoveDraftFiles, ReduceToHead, PickApplies, PickConflicts, StepBlocked, MergeApplies,
         MergeConflicts, MergeJoinsNothing, Pause, ApplyForecast, Mismatch, ContinuePick, AbsorbApplies,
         AbsorbConflicts, AbsorbBlocked, AdvanceCursor, Meld, FinishStep, OverlayMismatch, ReleaseAnchors,
         ClearJournal, RewordStep, EditStep, CommitFails, AbortReset, AbortRestore, AbortClear, Abort, Crash
    <2>2. QED
      BY <2>1, JournalRebuilt, TopologicalBeyond
  <1>2. CASE BeginStep
    <2>1. pc = "queue" /\ pc' = NextStep.kind /\ NextStep.kind # "omit" /\ MoreSteps
      BY <1>2 DEF BeginStep
    <2>2. NextStep.kind \in {"pick", "omit", "merge"}
      BY <2>1, TopoGrounds, OperationTrue
    <2>3. pc' \notin Settling /\ pc' # "record-join"
      BY <2>1, <2>2
    <2>4. QED
      BY <2>3, JournalRebuilt, TopologicalBeyond
  <1>3. CASE BeginAbsorption
    <2>1. pc' \notin Settling /\ pc' # "record-join"
      BY <1>3 DEF BeginAbsorption
    <2>2. QED
      BY <2>1, JournalRebuilt, TopologicalBeyond
  <1>4. CASE Begins \/ Continues
    <2>1. pc' \notin Settling /\ pc' # "record-join"
      BY <1>4, BeginsAnew, ContinuesTurn, TopoGrounds
    <2>2. QED
      BY <2>1, JournalRebuilt, TopologicalBeyond
  <1>5. CASE PersonStep \/ Forecasts
    <2>1. pc' = "idle"
      BY <1>5, RestsAlone
    <2>2. pc' \notin Settling /\ pc' # "record-join"
      BY <2>1
    <2>3. QED
      BY <2>2, JournalRebuilt, TopologicalBeyond
  <1>6. CASE UNCHANGED vars
    BY <1>6 DEF Topo, Topological, vars, procVars, gitVars, headVars, HEAD, NextStep
  <1>7. QED
    BY <1>1, <1>2, <1>3, <1>4, <1>5, <1>6

(* The queue is of the repository, and the steps behind are recreated.     *)
LEMMA TopoRebuilt ==
    ASSUME Topo, [Next]_vars, pc \in {"queue"} \cup Stepping
    PROVE  /\ Rebuilt(op, objs) /\ Drawn(op.queue, objs) /\ Lined /\ pc # "idle"
           /\ MoreSteps => /\ op.next \in 1..Len(op.queue)
                           /\ NextStep.kind = "merge" => Len(NextStep.parents) = 2
                           /\ NextStep.kind # "merge" => Len(NextStep.parents) = 1
  <1>1. Lined /\ pc # "idle"
    BY DEF Topo, Stepping, Undoing
  <1>2. Carried(journal, op)
    <2>1. CASE pc = "queue"
      BY <2>1, TopoGrounds DEF Starting, Carried, Same
    <2>2. CASE pc \in Stepping
      BY <2>2, TopoGrounds
    <2>3. QED
      BY <2>1, <2>2
  <1>3. Rebuilt(op, objs)
    <2>1. Grows(objs, objs)
      BY TopoGrounds DEF Grows
    <2>2. QED
      BY <1>2, <2>1, TopoGrounds, RebuiltStays DEF Topo, Topological
  <1>4. Drawn(op.queue, objs)
    <2>1. Secured(journal, objs, tip[journal.branch], anchors)
      BY <1>1 DEF Lined, Tracked
    <2>2. QED
      BY <1>2, <2>1 DEF Secured, Charted, Carried, Same
  <1>5. MoreSteps => /\ op.next \in 1..Len(op.queue)
                     /\ NextStep.kind = "merge" => Len(NextStep.parents) = 2
                     /\ NextStep.kind # "merge" => Len(NextStep.parents) = 1
    <2>1. Planned(op.queue, Len(objs))
      BY TopoGrounds DEF Typed
    <2>2. MoreSteps => op.next \in 1..Len(op.queue)
      BY <1>1, TopoGrounds, OperationTrue
    <2>3. QED
      BY <1>4, <2>1, <2>2 DEF Drawn, Planned, NextStep
  <1>6. QED
    BY <1>1, <1>3, <1>4, <1>5

(* The first parent a step states is where the line that is left starts.   *)
LEMMA ParentLeads ==
    ASSUME Topo, [Next]_vars, pc = "queue", MoreSteps
    PROVE  AtLast(op, Mapped(op, NextStep.parents[1]))
  <1> DEFINE h == Mapped(op, NextStep.parents[1])
             x == op.next
  <1>1. Drawn(op.queue, objs) /\ x \in 1..Len(op.queue) /\ 1 \in 1..Len(NextStep.parents)
    <2>1. Drawn(op.queue, objs) /\ x \in 1..Len(op.queue) /\ Len(NextStep.parents) \in {1, 2}
      BY TopoRebuilt
    <2>2. 1 \in 1..Len(NextStep.parents)
      <3> DEFINE n == Len(NextStep.parents)
      <3>1. n = 1 \/ n = 2
        BY <2>1, Zenon
      <3> HIDE DEF n, h, x
      <3>2. 1 \in 1..n
        BY <3>1
      <3>3. QED
        BY <3>2 DEF n
    <2>3. QED
      BY <2>1, <2>2, Zenon
  <1>2. Within(op, Len(objs)) /\ Planned(op.queue, Len(objs))
    BY TopoGrounds, QueueWithin DEF Typed
  <1>3. x = 1 => h = op.onto
    <2>1. SUFFICES ASSUME x = 1 PROVE NextStep.parents[1] = NoCommit
      BY Zenon DEF Mapped
    <2>2. 1..(1 - 1) = {} /\ 1 \in 1..Len(op.queue) /\ NextStep = op.queue[1]
      BY <1>1, <2>1 DEF NextStep
    <2>3. op.queue[1].parents[1] = NoCommit \/ \E j \in 1..(1 - 1) : op.queue[j].commit = op.queue[1].parents[1]
      <3>1. \A i \in 1..Len(op.queue) : \A k \in 1..Len(op.queue[i].parents) :
                op.queue[i].parents[k] = NoCommit \/ \E j \in 1..(i - 1) : op.queue[j].commit = op.queue[i].parents[k]
        BY <1>2, Zenon DEF Planned
      <3>2. 1 \in 1..Len(op.queue[1].parents)
        BY <1>1, <2>2
      <3> HIDE DEF h, x
      <3>3. QED
        BY <2>2, <3>1, <3>2, Zenon
    <2>4. QED
      BY <2>2, <2>3
  <1>4. x > 1 /\ Straight(op.queue, x) => h = op.rewritten[op.queue[x - 1].commit]
    <2>1. SUFFICES ASSUME x > 1, Straight(op.queue, x) PROVE h = op.rewritten[op.queue[x - 1].commit]
      OBVIOUS
    <2>2. NextStep.parents[1] = op.queue[x - 1].commit
      BY <1>1, <2>1 DEF Drawn, NextStep
    <2>3. op.queue[x - 1].commit # NoCommit
      <3>1. x - 1 \in 1..Len(op.queue)
        BY <1>1, <1>2, <2>1 DEF Within
      <3>2. QED
        BY <1>2, <3>1 DEF Within
    <2>4. QED
      BY <2>2, <2>3, Zenon DEF Mapped
  <1>5. QED
    BY <1>3, <1>4 DEF AtLast

(* HEAD, and the queue that is left.                                       *)
LEMMA TopologicalPhases ==
    ASSUME Topo, [Next]_vars,
           \/ ResetOnto \/ PositionStep \/ CommitJoin \/ AnchorStep \/ Advance \/ QueueDone \/ Verified
           \/ MaterializeOverlay \/ RecordOverlay \/ Publish \/ (ReleaseAnchors /\ pc = "release")
    PROVE  Topological'
  <1> USE DEF Works, Thinks, Journals, Go, gitVars, headVars
  <1>1. Rebuilt(journal', objs') /\ Carried(op, op) /\ branch \in Branch /\ tip \in [Branch -> Objects]
    BY JournalRebuilt, TopoGrounds DEF Carried, Same, Repository
  <1>2. CASE ResetOnto
    <2>1. pc = "reset" /\ pc' = "queue" /\ UNCHANGED <<op, branch>> /\ tip' = [tip EXCEPT ![branch] = op.onto]
      BY <1>2 DEF ResetOnto
    <2>2. op.next = 1 /\ HEAD' = op.onto
      <3>1. journal = op /\ Lined
        BY <2>1, TopoGrounds DEF Starting, Undoing, Topo
      <3>2. journal.next = 1
        BY <2>1, <3>1 DEF Lined, Tracked
      <3>3. QED
        BY <1>1, <2>1, <3>1, <3>2 DEF HEAD
    <2>3. AtLast(op', HEAD')
      BY <2>1, <2>2 DEF AtLast
    <2>4. QED
      BY <1>1, <2>1, <2>3 DEF Topological, Moving
  <1>3. CASE PositionStep
    <2> DEFINE h == Mapped(op, NextStep.parents[1])
    <2>1. pc = "queue" /\ pc' = "queue" /\ UNCHANGED <<op, branch>> /\ tip' = [tip EXCEPT ![branch] = h] /\ MoreSteps
      BY <1>3 DEF PositionStep
    <2>2. HEAD' = h
      BY <1>1, <2>1 DEF HEAD
    <2>3. AtLast(op, h)
      BY <2>1, ParentLeads DEF Undoing, Topo
    <2> HIDE DEF h
    <2>4. AtLast(op', HEAD')
      BY <2>1, <2>2, <2>3
    <2>5. QED
      BY <1>1, <2>1, <2>4 DEF Topological, Moving
  <1>4. CASE CommitJoin
    <2>1. pc' = "record-join" /\ op' = op /\ NextStep.kind = "merge"
      BY <1>4 DEF CommitJoin
    <2>2. QED
      BY <1>1, <2>1 DEF Topological, Settling, Moving, Finishing, Sharing, NextStep
  <1>5. CASE \/ AnchorStep \/ Advance \/ QueueDone \/ Verified \/ MaterializeOverlay \/ RecordOverlay \/ Publish
             \/ (ReleaseAnchors /\ pc = "release")
    <2>1. /\ pc \in Settling /\ pc' \in Settling /\ UNCHANGED <<branch, tip>> /\ (pc' \in Moving => AnchorStep)
          /\ op' = op \/ (RecordOverlay /\ pc # "idle")
      BY <1>5 DEF AnchorStep, Advance, QueueDone, Verified, MaterializeOverlay, RecordOverlay, Publish, ReleaseAnchors,
                  Settling, Moving, Finishing, Sharing
    <2>2. Carried(op, op')
      <3>1. RecordOverlay /\ pc # "idle" => Turned(op, op')
        BY StepsTurn, TopoGrounds
      <3>2. QED
        BY <1>1, <2>1, <3>1, TurnedSame DEF Carried
    <2>3. HEAD' = HEAD /\ AtLast(op, HEAD)
      BY <2>1 DEF HEAD, Topo, Topological
    <2>4. AtLast(op', HEAD')
      BY <2>2, <2>3, AtLastStays
    <2>5. pc' \in Moving => Rebuilt(op', objs')
      <3>1. SUFFICES ASSUME AnchorStep PROVE Rebuilt(op', objs')
        BY <2>1
      <3>2. pc \in Moving /\ UNCHANGED <<op, objs>>
        BY <3>1 DEF AnchorStep, Moving
      <3>3. QED
        BY <3>2 DEF Topo, Topological
    <2>6. pc' # "record-join"
      BY <2>1 DEF Settling, Moving, Finishing, Sharing
    <2>7. QED
      BY <1>1, <2>4, <2>5, <2>6 DEF Topological
  <1>6. QED
    BY <1>2, <1>3, <1>4, <1>5

(* A step is done.                                                         *)
LEMMA TopologicalDone ==
    ASSUME Topo, [Next]_vars, pc \in {"queue"} \cup Stepping, MoreSteps, pc' \in Moving,
           UNCHANGED <<objs, tip, branch>>, NEW h, StandsFor(op, objs, h), Maps(op, op', h),
           Straight(op.queue, op.next + 1) => HEAD = h
    PROVE  Topological'
  <1>1. Rebuilt(op, objs) /\ Drawn(op.queue, objs) /\ Typed(op, Len(objs)) /\ Len(objs) \in Nat
    BY TopoRebuilt, TopoGrounds
  <1>2. op.next <= Len(op.queue)
    BY DEF MoreSteps
  <1>3. Rebuilt(op', objs) /\ op'.rewritten[op.queue[op'.next - 1].commit] = h
    BY <1>1, <1>2, RebuiltOn
  <1>4. AtLast(op', HEAD')
    <2>1. op'.queue = op.queue /\ op'.next = op.next + 1 /\ HEAD' = HEAD /\ op.next >= 1 /\ op.next \in Nat
      <3>1. Within(op, Len(objs))
        BY <1>1, QueueWithin
      <3>2. QED
        BY <3>1 DEF Maps, Same, HEAD, Within
    <2>2. op'.next # 1
      BY <2>1
    <2>3. QED
      BY <1>3, <2>1, <2>2 DEF AtLast
  <1>5. pc' # "record-join"
    BY DEF Moving
  <1>6. QED
    BY <1>3, <1>4, <1>5, JournalRebuilt DEF Topological

(* A step that is applied was applied to what it states as its parents.    *)
LEMMA TopologicalEnds ==
    ASSUME Topo, Honest, [Next]_vars, OmitStep \/ RecordApplication \/ RecordJoin
    PROVE  Topological'
  <1> USE DEF Thinks, Keep, Go, gitVars, headVars
  <1>1. /\ (pc = "queue" /\ OmitStep /\ MoreSteps) \/ pc \in {"record", "record-join"}
        /\ pc \in {"queue"} \cup Stepping
    BY DEF OmitStep, RecordApplication, RecordJoin, Stepping
  <1>2. /\ Lined /\ Rebuilt(op, objs) /\ MoreSteps /\ op.next <= Len(op.queue) /\ NextStep = op.queue[op.next]
        /\ op.next \in 1..Len(op.queue)
        /\ NextStep.kind = "merge" => Len(NextStep.parents) = 2
        /\ NextStep.kind # "merge" => Len(NextStep.parents) = 1
    <2>1. MoreSteps
      BY <1>1, TopoGrounds, OperationTrue
    <2>2. QED
      BY <1>1, <2>1, TopoRebuilt DEF MoreSteps, NextStep
  <1>3. /\ Lineage(objs) /\ Descent(objs) /\ Typed(op, Len(objs)) /\ op.id # 0 /\ Sound(op) /\ HEAD \in 1..Len(objs)
    BY <1>1, TopoGrounds DEF Stepping
  <1>4. \A k \in 1..Len(NextStep.parents) : op.onto \in objs[Mapped(op, NextStep.parents[k])].past
    BY <1>2, <1>3, ParentsRooted
  <1>5. CASE OmitStep
    <2> DEFINE h == Mapped(op, NextStep.parents[1])
    <2>1. /\ op' = [op EXCEPT !.rewritten[NextStep.commit] = h, !.next = @ + 1] /\ pc = "queue" /\ NextStep.kind = "omit"
          /\ pc' = (IF Preserving(op') THEN "anchor" ELSE "advance") /\ UNCHANGED <<objs, tip, branch>>
      BY <1>5, Zenon DEF OmitStep
    <2>2. StandsFor(op, objs, h)
      <3>1. 1 \in 1..Len(NextStep.parents)
        <4>1. Len(NextStep.parents) = 1
          <5>1. NextStep.kind # "merge"
            BY <2>1, Zenon
          <5>2. QED
            BY <1>2, <5>1, Zenon
        <4>2. QED
          BY <4>1
      <3>2. op.onto \in objs[h].past
        BY <1>4, <3>1
      <3> HIDE DEF h
      <3>3. QED
        BY <1>2, <2>1, <3>2 DEF StandsFor
    <2>3. Straight(op.queue, op.next + 1) => HEAD = h
      <3>1. SUFFICES ASSUME Straight(op.queue, op.next + 1) PROVE HEAD = h
        OBVIOUS
      <3>2. Straight(op.queue, op.next)
        <4>1. \A i \in op.next..Len(op.queue) : i = op.next \/ i \in (op.next + 1)..Len(op.queue)
          BY <1>2
        <4>2. op.queue[op.next].kind # "merge"
          BY <1>2, <2>1
        <4>3. QED
          BY <3>1, <4>1, <4>2 DEF Straight
      <3>3. AtLast(op, HEAD)
        BY <2>1 DEF Topo, Topological, Settling
      <3>4. AtLast(op, h)
        BY <1>2, <2>1, ParentLeads
      <3> HIDE DEF h
      <3>5. op.next = 1 \/ op.next > 1
        BY <1>2
      <3>6. QED
        BY <3>2, <3>3, <3>4, <3>5 DEF AtLast
    <2> HIDE DEF h
    <2>4. Maps(op, op', h)
      BY <1>2, <1>3, <2>1 DEF Maps, Sound, Shaped, Same
    <2>5. pc' \in Moving
      BY <2>1 DEF Moving
    <2>6. QED
      BY <1>1, <1>2, <2>1, <2>2, <2>3, <2>4, <2>5, TopologicalDone
  <1>6. CASE pc \in {"record", "record-join"}
    <2> DEFINE h == HEAD
               c == op.current.commit
    <2>1. /\ Level(journal, op) /\ Placed(op) /\ Over(op.current.before, objs, HEAD)
          /\ c = NextStep.commit /\ (pc = "record" => NextStep.kind # "merge")
          /\ op.current.before \in objs[h].past
      <3>1. /\ Level(journal, op) /\ Placed(journal) /\ Over(op.current.before, objs, HEAD)
            /\ pc = "record" => NextStep.kind # "merge"
        BY <1>1, <1>2, <1>6, InStepTrue DEF Stepping, Carries
      <3>2. c = NextStep.commit
        BY <1>1, <1>6, TopoGrounds, OperationTrue DEF Stepping, AtStep, NextStep
      <3>3. QED
        BY <3>1, <3>2, Levelled DEF Over
    <2>2. op.current.before = Mapped(op, NextStep.parents[1])
          /\ (NextStep.kind = "merge" => op.current.joins = Mapped(op, NextStep.parents[2]))
      BY <1>2, <2>1 DEF Placed
    <2>3. StandsFor(op, objs, h)
      <3>1. op.onto \in objs[h].past
        <4>1. op.onto \in objs[op.current.before].past
          BY <1>2, <1>4, <2>2
        <4>2. objs[op.current.before].past \subseteq objs[h].past
          BY <1>3, <2>1, PastTrue
        <4>3. QED
          BY <4>1, <4>2
      <3>2. CASE pc = "record"
        <4>1. objs[h].parents = <<op.current.before>> /\ Len(NextStep.parents) = 1
          BY <1>2, <2>1, <3>2 DEF Honest, On
        <4>2. /\ Len(objs[h].parents) = 1 /\ objs[h].parents[1] = Mapped(op, NextStep.parents[1])
              /\ \A k \in 1..Len(NextStep.parents) : k = 1
          BY <2>2, <4>1
        <4> HIDE DEF h
        <4>3. QED
          BY <1>2, <3>1, <4>1, <4>2 DEF StandsFor
      <3>3. CASE pc = "record-join"
        <4>1. objs[h].parents = <<op.current.before, op.current.joins>> /\ NextStep.kind = "merge"
              /\ Len(NextStep.parents) = 2
          BY <1>2, <3>3 DEF Honest, Topo, Topological
        <4>2. /\ Len(objs[h].parents) = 2 /\ objs[h].parents[1] = Mapped(op, NextStep.parents[1])
              /\ objs[h].parents[2] = Mapped(op, NextStep.parents[2])
              /\ \A k \in 1..Len(NextStep.parents) : k = 1 \/ k = 2
          BY <2>2, <4>1
        <4> HIDE DEF h
        <4>3. QED
          BY <1>2, <3>1, <4>1, <4>2 DEF StandsFor
      <3>4. QED
        BY <1>6, <3>2, <3>3
    <2>4. ASSUME pc' \in Moving, Same(op, op'), op'.next = op.next + 1, op'.rewritten = [op.rewritten EXCEPT ![c] = h],
                 UNCHANGED <<objs, tip, branch>>
          PROVE  Topological'
      <3>1. Maps(op, op', h)
        BY <1>2, <2>1, <2>4 DEF Maps
      <3>2. h = HEAD
        OBVIOUS
      <3> HIDE DEF h
      <3>3. QED
        BY <1>1, <1>2, <2>3, <2>4, <3>1, <3>2, TopologicalDone
    <2>5. CASE RecordJoin
      <3> DEFINE j == [origin |-> c, commit |-> h, parents |-> <<op.current.before, op.current.joins>>]
      <3>1. /\ op' = [op EXCEPT !.joins = Append(@, j), !.rewritten[c] = h, !.next = @ + 1,
                                !.current = NoCurrent, !.state = "applying"]
            /\ pc' = (IF Preserving(op') THEN "anchor" ELSE "advance") /\ UNCHANGED <<objs, tip, branch>>
        BY <2>5, Zenon DEF RecordJoin
      <3> HIDE DEF j
      <3>2. /\ Same(op, op') /\ op'.next = op.next + 1 /\ op'.rewritten = [op.rewritten EXCEPT ![c] = h]
        BY <1>3, <3>1 DEF Sound, Shaped, Same
      <3>3. pc' \in Moving
        BY <3>1 DEF Moving
      <3>4. QED
        BY <2>4, <3>1, <3>2, <3>3
    <2>6. CASE RecordApplication
      <3>1. /\ UNCHANGED <<objs, tip, branch>>
            /\ \/ op' = Recorded(op) /\ pc' = IF Preserving(op') THEN "anchor" ELSE "advance"
               \/ pc' = "paused"
        BY <2>6, Zenon DEF RecordApplication
      <3>2. CASE pc' = "paused"
        BY <3>2, JournalRebuilt, TopologicalBeyond DEF Settling, Moving, Finishing, Sharing
      <3>3. CASE op' = Recorded(op) /\ pc' = IF Preserving(op') THEN "anchor" ELSE "advance"
        <4> DEFINE app == [origin |-> c, commit |-> h, fork |-> op.current.fork]
                   ab == [survivor |-> h, absorbed |-> Elements(op.queue[op.next].absorbs)]
                   abs == IF op.current.cursor = 0 THEN op.absorptions ELSE Append(op.absorptions, ab)
        <4>1. op' = [op EXCEPT !.applied = Append(@, app), !.absorptions = abs, !.rewritten[c] = h,
                               !.next = @ + 1, !.current = NoCurrent, !.state = "applying"]
          BY <3>3, Zenon DEF Recorded
        <4> HIDE DEF app, ab, abs
        <4>2. /\ Same(op, op') /\ op'.next = op.next + 1 /\ op'.rewritten = [op.rewritten EXCEPT ![c] = h]
          BY <1>3, <4>1 DEF Sound, Shaped, Same
        <4>3. pc' \in Moving
          BY <3>3 DEF Moving
        <4>4. QED
          BY <2>4, <3>1, <4>2, <4>3
      <3>4. QED
        BY <3>1, <3>2, <3>3
    <2>7. QED
      BY <1>6, <2>5, <2>6 DEF OmitStep
  <1>7. QED
    BY <1>1, <1>5, <1>6

LEMMA TopologicalStarts == Init => Topological
  <1>1. ASSUME Init PROVE Topological
    <2>1. journal = NoOperation /\ pc = "idle"
      BY <1>1 DEF Init
    <2>2. QED
      BY <2>1, NothingRebuilt DEF Topological, Settling, Moving, Finishing, Sharing
  <1>2. QED
    BY <1>1

TopologyIInv == HonestIInv /\ (~meddled => Topological)

LEMMA TopologyStep ==
    ASSUME TopologyIInv, [Next]_vars
    PROVE  ~meddled' => Topological'
  <1> SUFFICES ASSUME ~meddled' PROVE Topological'
    OBVIOUS
  <1>1. ~meddled /\ Hon /\ Honest /\ Topological
    <2>1. ~meddled
      BY MeddledStays DEF TopologyIInv, HonestIInv, WorkIInv, TypesIInv, Bounded
    <2>2. QED
      BY <2>1 DEF TopologyIInv, HonestIInv, WorkIInv, LinesIInv, Hon, Ord
  <1>2. pc \notin {"idle"} \cup Undoing => Lined
    <2>1. ASSUME pc \notin {"idle"} \cup Undoing PROVE Pending /\ ~undoing
      BY <1>1, <2>1, Runs DEF Hon, Ord, Settled, TypesIInv
    <2>2. QED
      BY <2>1 DEF TopologyIInv, HonestIInv, LinesIInv, Lined
  <1>3. Topo
    BY <1>1, <1>2 DEF Topo
  <1>4. CASE \/ RemoveDraftFiles \/ ReduceToHead \/ BeginStep \/ PickApplies \/ PickConflicts \/ StepBlocked
             \/ MergeApplies \/ MergeConflicts \/ MergeJoinsNothing \/ Pause \/ ApplyForecast \/ Mismatch
             \/ ContinuePick \/ BeginAbsorption \/ AbsorbApplies \/ AbsorbConflicts \/ AbsorbBlocked
             \/ AdvanceCursor \/ Meld \/ FinishStep \/ OverlayMismatch \/ (ReleaseAnchors /\ pc = "undone")
             \/ ClearJournal \/ RewordStep \/ EditStep \/ CommitFails \/ AbortReset \/ AbortRestore \/ AbortClear
             \/ Begins \/ Forecasts \/ Continues \/ Abort \/ Crash \/ PersonStep \/ UNCHANGED vars
    BY <1>3, <1>4, TopologicalElse
  <1>5. CASE \/ ResetOnto \/ PositionStep \/ CommitJoin \/ AnchorStep \/ Advance \/ QueueDone \/ Verified
             \/ MaterializeOverlay \/ RecordOverlay \/ Publish \/ (ReleaseAnchors /\ pc = "release")
    BY <1>3, <1>5, TopologicalPhases
  <1>6. CASE OmitStep \/ RecordApplication \/ RecordJoin
    BY <1>1, <1>3, <1>6, TopologicalEnds
  <1>7. ReleaseAnchors => pc \in {"release", "undone"}
    BY DEF ReleaseAnchors
  <1>8. QED
    BY <1>4, <1>5, <1>6, <1>7, Zenon DEF Next, CommandStep

LEMMA TopologyInvariant == Spec => []TopologyIInv
  <1>1. Init => TopologyIInv
    BY HonestStarts, WorkStarts, LinesStart, TopologicalStarts DEF TopologyIInv, HonestIInv
  <1>2. TopologyIInv /\ [Next]_vars => TopologyIInv'
    <2>1. ASSUME TopologyIInv, [Next]_vars PROVE HonestIInv'
      BY <2>1, WorkStep, LinesStep, HonestStep DEF TopologyIInv, HonestIInv, LinesIInv
    <2>2. QED
      BY <2>1, TopologyStep DEF TopologyIInv
  <1>3. QED
    BY <1>1, <1>2, PTL DEF Spec

(* "The recreation keeps the parent order": whatever the topology of the   *)
(* range, wherever a command was killed and whatever was continued, a      *)
(* receipt is published by an operation whose every rewritten commit has,  *)
(* in their order, the parents that replaced its original's (a parent that *)
(* was omitted being replaced by what it collapsed into), and whose result *)
(* is the rewritten head of the branch, which comes after the new base.    *)
(* Where no merge is left, HEAD is at the last commit rewritten also if    *)
(* that step was omitted; PositionStep puts it at the first parent of one  *)
(* that follows another line.                                              *)
THEOREM MergesAreRecreated == Spec => TopologyKept
  <1>1. ASSUME TopologyIInv, [Next]_vars, Publishes, ~meddled
        PROVE  /\ op.onto \in objs[HEAD].past
               /\ op.queue # <<>> => HEAD = op.rewritten[op.queue[Len(op.queue)].commit]
               /\ \A i \in 1..Len(op.queue) : LET step == op.queue[i] IN
                     step.kind # "omit" =>
                        /\ Len(objs[op.rewritten[step.commit]].parents) = Len(step.parents)
                        /\ \A k \in 1..Len(step.parents) :
                              objs[op.rewritten[step.commit]].parents[k] = Mapped(op, step.parents[k])
    <2>1. TypesIInv /\ Descent(objs) /\ Topological
      BY <1>1 DEF TopologyIInv, HonestIInv, WorkIInv, LinesIInv
    <2>2. notes' # notes
      <3>1. Len(notes) \in Nat
        BY <2>1, StrungTrue DEF TypesIInv, RebaseIInv, RebaseKinds
      <3>2. QED
        BY <1>1, <3>1 DEF Publishes
    <2>3. pc = "publish"
      BY <1>1, <2>2, OnlyPublish DEF Publish
    <2>4. journal = op /\ op.next > Len(op.queue) /\ Typed(op, Len(objs)) /\ op.onto \in 1..Len(objs) /\ Lineage(objs)
      BY <2>1, <2>3, Runs, OperationTrue DEF Finishing, Sharing, TypesIInv, Repository, Objects
    <2>5. Rebuilt(op, objs) /\ AtLast(op, HEAD)
      BY <2>1, <2>3, <2>4 DEF Topological, Settling, Finishing, Sharing
    <2>6. Len(op.queue) \in Nat /\ op.next = Len(op.queue) + 1 /\ op.queue \in Seq(Step)
      BY <2>4, LenProperties DEF Typed, Planned
    <2>7. CASE Len(op.queue) = 0
      <3>1. op.queue = <<>> /\ HEAD = op.onto
        BY <2>5, <2>6, <2>7, EmptySeq DEF AtLast
      <3>2. op.onto \in objs[HEAD].past
        BY <2>1, <2>4, <3>1, PastTrue
      <3>3. QED
        BY <2>7, <3>1, <3>2
    <2>8. CASE Len(op.queue) > 0
      <3>1. Straight(op.queue, op.next) /\ op.next > 1 /\ op.next - 1 = Len(op.queue) /\ Len(op.queue) \in 1..Len(op.queue)
        BY <2>6, <2>8 DEF Straight
      <3>2. HEAD = op.rewritten[op.queue[Len(op.queue)].commit]
        BY <2>5, <3>1 DEF AtLast
      <3>3. op.onto \in objs[HEAD].past
        BY <2>4, <2>5, <3>1, <3>2 DEF Rebuilt, Rooted
      <3>4. \A i \in 1..Len(op.queue) : i < op.next
        BY <2>6
      <3>5. QED
        BY <2>5, <3>2, <3>3, <3>4, Zenon DEF Rebuilt, Recreated
    <2>9. Len(op.queue) = 0 \/ Len(op.queue) > 0
      BY <2>6
    <2>10. QED
      BY <2>7, <2>8, <2>9, Zenon
  <1>2. TopologyIInv /\ [Next]_vars =>
          [Publishes /\ ~meddled =>
            /\ op.onto \in objs[HEAD].past
            /\ op.queue # <<>> => HEAD = op.rewritten[op.queue[Len(op.queue)].commit]
            /\ \A i \in 1..Len(op.queue) : LET step == op.queue[i] IN
                  step.kind # "omit" =>
                     /\ Len(objs[op.rewritten[step.commit]].parents) = Len(step.parents)
                     /\ \A k \in 1..Len(step.parents) :
                           objs[op.rewritten[step.commit]].parents[k] = Mapped(op, step.parents[k])]_vars
    BY <1>1, Zenon
  <1>3. QED
    BY <1>2, TopologyInvariant, PTL DEF Spec, TopologyKept

-----------------------------------------------------------------------------

(* Divergence.  An edit that is in S, and not where the step began, is the *)
(* step's own change, or one that it has taken in.                         *)
Explained(o, s, S) ==
    LET c == o.current.commit
        b == o.current.before
        e == Edited(s[c].of) IN
    /\ c \in 1..Len(s) /\ b \in 1..Len(s)
    /\ e \in S \ s[b].tree =>
          \/ e \in Brought(s, c)
          \/ /\ o.current.cursor # 0
             /\ \E k \in 1..Len(o.queue[o.next].absorbs) : e \in Brought(s, o.queue[o.next].absorbs[k])

(* So it is of what is awaited; and a pick that conflicts stages its own.  *)
Explains(o, s, h, S) ==
    /\ o.state = "awaiting-absorption" => Explained(o, s, s[h].tree \cup S)
    /\ o.state \in {"awaiting-message", "awaiting-content"} => Explained(o, s, o.current.treeBefore)
OwnOnly(o, s, S) == o.queue[o.next].kind # "merge" => S \subseteq Brought(s, o.current.commit)

(* An application that edited its change is amended, or took the edit in.  *)
Amends(o, h, x) == \E j \in 1..Len(o.amendments) : o.amendments[j].commit = h /\ o.amendments[j].of = x
TookIn(o, s, h, e) ==
    \E j \in 1..Len(o.absorptions) : /\ o.absorptions[j].survivor = h
                                     /\ \E d \in o.absorptions[j].absorbed : d \in 1..Len(s) /\ e \in Brought(s, d)
Warranted(o, s, app) ==
    LET x == s[app.origin].of IN
    /\ app.origin \in 1..Len(s) /\ app.commit \in 1..Len(s)
    /\ Edited(x) \in Brought(s, app.commit) \ Brought(s, app.origin) =>
          Amends(o, app.commit, x) \/ TookIn(o, s, app.commit, Edited(x))
Declares(o, s) == \A k \in 1..Len(o.applied) : Warranted(o, s, o.applied[k])

Divergence ==
    /\ Declares(journal, objs) /\ Declares(op, objs)
    /\ ~undoing => Explains(journal, objs, Home, index)
    /\ journal.state = "conflicted" /\ ~Still => OwnOnly(journal, objs, index)
    /\ pc = "paused" => Explains(op, objs, HEAD, index)
    /\ Waiting => OwnOnly(op, objs, index)
    /\ pc \in {"absorb", "cursor", "finish"} => Explained(op, objs, objs[HEAD].tree \cup index)
    /\ pc \in {"reword", "edit"} => Explained(op, objs, op.current.treeBefore)
    /\ pc = "record" => \/ Explained(op, objs, objs[HEAD].tree)
                        \/ Amends(op, HEAD, objs[op.current.commit].of)

(* What an operation says it made, as the repository grows.                *)
Extends(o, p) ==
    /\ p.applied = o.applied /\ p.absorptions = o.absorptions
    /\ \A j \in 1..Len(o.amendments) : j \in 1..Len(p.amendments) /\ p.amendments[j] = o.amendments[j]

LEMMA ExtendsSame ==
    /\ \A o : Extends(o, o)
    /\ \A o, p : Turned(o, p) /\ p.amendments = o.amendments => Extends(o, p)
    /\ \A o, p : p.applied = o.applied /\ p.absorptions = o.absorptions /\ p.amendments = o.amendments => Extends(o, p)
  <1>1. ASSUME NEW o, NEW p, p.applied = o.applied, p.absorptions = o.absorptions, p.amendments = o.amendments
        PROVE  Extends(o, p)
    BY <1>1, Zenon DEF Extends
  <1>2. ASSUME NEW o, NEW p, Turned(o, p)
        PROVE  p.applied = o.applied /\ p.absorptions = o.absorptions
    BY <1>2, Zenon DEF Turned, Unmoved
  <1>3. \A o : Extends(o, o)
    BY <1>1
  <1>4. \A o, p : Turned(o, p) /\ p.amendments = o.amendments => Extends(o, p)
    BY <1>1, <1>2
  <1>5. \A o, p : p.applied = o.applied /\ p.absorptions = o.absorptions /\ p.amendments = o.amendments => Extends(o, p)
    BY <1>1
  <1>6. QED
    BY <1>3, <1>4, <1>5

LEMMA WarrantedStays ==
    ASSUME NEW s, NEW z, Lineage(s), Grows(s, z), Len(s) \in Nat, Len(z) \in Nat, NEW o, NEW p,
           \A j \in 1..Len(o.absorptions) : j \in 1..Len(p.absorptions) /\ p.absorptions[j] = o.absorptions[j],
           \A j \in 1..Len(o.amendments) : j \in 1..Len(p.amendments) /\ p.amendments[j] = o.amendments[j],
           NEW app, Warranted(o, s, app)
    PROVE  Warranted(p, z, app)
  <1> DEFINE x == s[app.origin].of
             h == app.commit
  <1>1. /\ app.origin \in 1..Len(s) /\ h \in 1..Len(s) /\ \A c \in 1..Len(s) : c \in 1..Len(z)
        /\ z[app.origin] = s[app.origin] /\ Brought(z, app.origin) = Brought(s, app.origin)
        /\ Brought(z, h) = Brought(s, h)
    <2>1. app.origin \in 1..Len(s) /\ h \in 1..Len(s)
      BY Zenon DEF Warranted
    <2> HIDE DEF x, h
    <2>2. \A c \in 1..Len(s) : c \in 1..Len(z)
      BY DEF Grows
    <2>3. QED
      BY <2>1, <2>2, BroughtStays
  <1>2. Amends(o, h, x) => Amends(p, h, x)
    <2> HIDE DEF x, h
    <2>1. ASSUME NEW j \in 1..Len(o.amendments), o.amendments[j].commit = h, o.amendments[j].of = x
          PROVE  Amends(p, h, x)
      <3>1. j \in 1..Len(p.amendments) /\ p.amendments[j] = o.amendments[j]
        OBVIOUS
      <3>2. QED
        BY <2>1, <3>1, Zenon DEF Amends
    <2>2. QED
      BY <2>1, Zenon DEF Amends
  <1>3. TookIn(o, s, h, Edited(x)) => TookIn(p, z, h, Edited(x))
    <2>1. \A d \in 1..Len(s) : Brought(z, d) = Brought(s, d)
      BY BroughtStays
    <2> HIDE DEF x, h
    <2>2. QED
      BY <1>1, <2>1, Zenon DEF TookIn
  <1>4. Edited(x) \in Brought(s, h) \ Brought(s, app.origin) => Amends(o, h, x) \/ TookIn(o, s, h, Edited(x))
    BY DEF Warranted
  <1>5. z[app.origin].of = x
    BY <1>1
  <1>6. Edited(x) \in Brought(z, h) \ Brought(z, app.origin) => Amends(p, h, x) \/ TookIn(p, z, h, Edited(x))
    BY <1>1, <1>2, <1>3, <1>4
  <1> HIDE DEF x
  <1>7. QED
    BY <1>1, <1>5, <1>6 DEF Warranted

LEMMA DeclaresStays ==
    ASSUME NEW s, NEW z, Lineage(s), Grows(s, z), Len(s) \in Nat, Len(z) \in Nat, NEW o, NEW p, Extends(o, p),
           Declares(o, s)
    PROVE  Declares(p, z)
  <1>1. /\ p.applied = o.applied /\ p.absorptions = o.absorptions
        /\ \A j \in 1..Len(o.amendments) : j \in 1..Len(p.amendments) /\ p.amendments[j] = o.amendments[j]
    BY DEF Extends
  <1>2. ASSUME NEW k \in 1..Len(o.applied) PROVE Warranted(p, z, o.applied[k])
    <2>1. Warranted(o, s, o.applied[k])
      BY DEF Declares
    <2>2. QED
      BY <1>1, <2>1, WarrantedStays
  <1>3. QED
    BY <1>1, <1>2 DEF Declares

LEMMA NothingDeclared == \A o, s : o.applied = <<>> => Declares(o, s)
  <1>1. 1..Len(<<>>) = {}
    OBVIOUS
  <1>2. QED
    BY <1>1 DEF Declares

LEMMA ExplainedStays ==
    ASSUME NEW s, NEW z, Lineage(s), Grows(s, z), Len(s) \in Nat, Len(z) \in Nat, NEW o, NEW p,
           Planned(o.queue, Len(s)), o.next \in 1..Len(o.queue), AsFar(o, p),
           o.current.cursor # 0 => p.current.cursor # 0, NEW S, NEW T, T \subseteq S, Explained(o, s, S)
    PROVE  Explained(p, z, T)
  <1> DEFINE c == o.current.commit
             b == o.current.before
             a == o.queue[o.next].absorbs
             e == Edited(s[c].of)
  <1>1. \A k \in 1..Len(a) : a[k] \in 1..Len(s)
    BY DEF Planned
  <1>2. c \in 1..Len(s) /\ b \in 1..Len(s) /\ c \in 1..Len(z) /\ b \in 1..Len(z) /\ z[c] = s[c] /\ z[b] = s[b]
    <2>1. c \in 1..Len(s) /\ b \in 1..Len(s)
      BY DEF Explained
    <2> HIDE DEF c, b
    <2>2. QED
      BY <2>1 DEF Grows
  <1>3. Brought(z, c) = Brought(s, c) /\ \A k \in 1..Len(a) : Brought(z, a[k]) = Brought(s, a[k])
    BY <1>1, <1>2, BroughtStays
  <1>4. /\ p.queue[p.next].absorbs = a /\ p.current.commit = c /\ p.current.before = b
    BY DEF AsFar
  <1>5. e \in S \ s[b].tree => \/ e \in Brought(s, c)
                               \/ o.current.cursor # 0 /\ \E k \in 1..Len(a) : e \in Brought(s, a[k])
    BY DEF Explained
  <1>6. Edited(z[c].of) = e
    BY <1>2
  <1>7. e \in T \ z[b].tree => \/ e \in Brought(z, c)
                               \/ p.current.cursor # 0 /\ \E k \in 1..Len(a) : e \in Brought(z, a[k])
    <2> HIDE DEF e, a, b, c
    <2>1. QED
      BY <1>2, <1>3, <1>5
  <1> HIDE DEF e, a, b, c
  <1>8. QED
    BY <1>2, <1>4, <1>6, <1>7, Zenon DEF Explained

LEMMA OwnStays ==
    ASSUME NEW s, NEW z, Lineage(s), Grows(s, z), NEW o, o.current.commit \in 1..Len(s), NEW p, AsFar(o, p),
           NEW S, NEW T, T \subseteq S, OwnOnly(o, s, S)
    PROVE  OwnOnly(p, z, T)
  <1>1. Brought(z, o.current.commit) = Brought(s, o.current.commit)
    BY BroughtStays
  <1>2. QED
    BY <1>1 DEF OwnOnly, AsFar

(* An operation that nobody meddled with, and what it says of its edits.   *)
Div == Hon /\ Divergence

LEMMA DivGrounds ==
    ASSUME Div, [Next]_vars
    PROVE  /\ Grows(objs, objs') /\ Lineage(objs) /\ Len(objs) \in Nat /\ Len(objs') \in Nat /\ Repository /\ TypesIInv
           /\ Planned(journal.queue, Len(objs)) /\ Planned(op.queue, Len(objs))
           /\ journal.current.cursor \in Nat /\ op.current.cursor \in Nat
           /\ journal.state \notin {"applying", "blocked"} =>
                 journal.next \in 1..Len(journal.queue) /\ journal.current.commit \in 1..Len(objs)
           /\ pc \in Stepping => op.next \in 1..Len(op.queue) /\ op.current.commit \in 1..Len(objs)
           /\ pc # "idle" => Home = HEAD /\ branch = journal.branch /\ op.branch = journal.branch /\ HEAD \in 1..Len(objs)
           /\ pc \in Starting \cup Finishing \cup Undoing => journal = op
           /\ pc \in Starting \cup Moving \cup Finishing => op.state = "applying"
  <1>1. /\ Grows(objs, objs') /\ Lineage(objs) /\ Repository /\ TypesIInv
        /\ Planned(journal.queue, Len(objs)) /\ Planned(op.queue, Len(objs))
        /\ journal.current.cursor \in Nat /\ op.current.cursor \in Nat
        /\ pc \in Stepping => op.next \in 1..Len(op.queue)
        /\ pc # "idle" => Home = HEAD /\ branch = journal.branch /\ op.branch = journal.branch /\ HEAD \in 1..Len(objs)
    BY HonestGrounds DEF Div, Hon, Ord
  <1>2. Len(objs) \in Nat /\ Len(objs') \in Nat
    <2>1. Strung(objs) /\ Strung(objs)'
      BY <1>1, TypesStep DEF TypesIInv, Repository, Lineage
    <2>2. QED
      BY <2>1, StrungTrue DEF Strung
  <1>3. journal.state \notin {"applying", "blocked"} =>
           journal.next \in 1..Len(journal.queue) /\ journal.current.commit \in 1..Len(objs)
    <2>1. SUFFICES ASSUME journal.state \notin {"applying", "blocked"}
                   PROVE  journal.next \in 1..Len(journal.queue) /\ journal.current.commit \in 1..Len(objs)
      OBVIOUS
    <2>2. journal.next \in 1..Len(journal.queue)
      BY <1>1, <2>1 DEF TypesIInv, RebaseIInv, Journaled, RebaseKinds, Sound
    <2>3. journal.current.commit = journal.queue[journal.next].commit
      BY <1>1, <2>1 DEF TypesIInv, Standing, AtStep
    <2>4. QED
      BY <1>1, <2>2, <2>3 DEF Planned
  <1>4. pc \in Stepping => op.current.commit \in 1..Len(objs)
    <2>1. SUFFICES ASSUME pc \in Stepping PROVE op.current.commit \in 1..Len(objs)
      OBVIOUS
    <2>2. op.current.commit = op.queue[op.next].commit
      BY <1>1, <2>1 DEF TypesIInv, Standing, AtStep
    <2>3. QED
      BY <1>1, <2>1, <2>2 DEF Planned
  <1>5. /\ pc \in Starting \cup Finishing \cup Undoing => journal = op
        /\ pc \in Starting \cup Moving \cup Finishing => op.state = "applying"
    BY <1>1 DEF TypesIInv, RebaseIInv, Journaled
  <1>6. QED
    BY <1>1, <1>2, <1>3, <1>4, <1>5

LEMMA Told ==
    ASSUME Div, [Next]_vars
    PROVE  /\ \A o : Extends(op, o) => Declares(o, objs')
           /\ \A o : Extends(journal, o) => Declares(o, objs')
  <1>1. Declares(op, objs) /\ Declares(journal, objs)
    BY DEF Div, Divergence
  <1>2. ASSUME NEW o, Extends(op, o) PROVE Declares(o, objs')
    BY <1>1, <1>2, DivGrounds, DeclaresStays
  <1>3. ASSUME NEW o, Extends(journal, o) PROVE Declares(o, objs')
    BY <1>1, <1>3, DivGrounds, DeclaresStays
  <1>4. QED
    BY <1>2, <1>3

(* Nothing but the record of an application says that a step made a commit.*)
LEMMA MemoryTells ==
    ASSUME Div, [Next]_vars, ~RecordApplication
    PROVE  Declares(op', objs')
  <1> USE DEF Works, Thinks, Journals, Keep, Write, Stop
  <1>0. Declares(NoOperation, objs') /\ (Extends(op, op') \/ Extends(journal, op') => Declares(op', objs'))
    BY Told, NothingDeclared DEF NoOperation
  <1>1. CASE UNCHANGED op
    BY <1>0, <1>1, ExtendsSame
  <1>2. CASE op' = NoOperation
    BY <1>0, <1>2
  <1>3. CASE BeginStep \/ OmitStep \/ RecordJoin
    <2>1. Sound(op)
      BY DivGrounds DEF TypesIInv, RebaseIInv, RebaseKinds
    <2>2. op'.applied = op.applied /\ op'.absorptions = op.absorptions /\ op'.amendments = op.amendments
      BY <1>3, <2>1, Zenon DEF BeginStep, OmitStep, RecordJoin, Sound, Shaped
    <2>3. QED
      BY <1>0, <2>2, ExtendsSame
  <1>4. CASE \/ PickConflicts \/ MergeConflicts \/ StepBlocked \/ MergeJoinsNothing \/ AbsorbBlocked \/ AbsorbConflicts
             \/ BeginAbsorption \/ AdvanceCursor \/ (FinishStep /\ pc' = "paused") \/ (RewordStep /\ pc' = "paused")
             \/ RecordOverlay
    <2>1. pc # "idle"
      BY <1>4 DEF PickConflicts, MergeConflicts, StepBlocked, MergeJoinsNothing, AbsorbBlocked, AbsorbConflicts,
         BeginAbsorption, AdvanceCursor, FinishStep, RewordStep, RecordOverlay
    <2>2. Turned(op, op') /\ op'.amendments = op.amendments
      BY <1>4, <2>1, DivGrounds, StepsTurn
    <2>3. QED
      BY <1>0, <2>2, ExtendsSame
  <1>5. CASE EditStep
    <2>1. pc # "idle"
      BY <1>5 DEF EditStep
    <2>2. /\ Turned(op, op')
          /\ \/ op'.amendments = op.amendments
             \/ op'.amendments = Append(op.amendments, [of |-> objs[op.current.commit].of,
                                          commit |-> New, origin |-> op.current.commit])
      BY <1>5, <2>1, DivGrounds, StepsTurn
    <2>3. Strung(op.amendments) /\ Sound(op)
      BY DivGrounds DEF TypesIInv, RebaseIInv, RebaseKinds, Sound
    <2>4. \A j \in 1..Len(op.amendments) : j \in 1..Len(op'.amendments) /\ op'.amendments[j] = op.amendments[j]
      BY <2>2, <2>3, StrungAppend
    <2>5. Extends(op, op')
      BY <2>2, <2>4 DEF Extends, Turned, Unmoved
    <2>6. QED
      BY <1>0, <2>5
  <1>6. CASE Continues
    <2>1. Turned(journal, op') /\ op'.amendments = journal.amendments
      BY <1>6, DivGrounds, ContinuesTurn
    <2>2. QED
      BY <1>0, <2>1, ExtendsSame
  <1>7. CASE Begins
    BY <1>7, DivGrounds, BeginsAnew, NothingDeclared
  <1>8. CASE Abort
    <2>1. op' = journal
      BY <1>8 DEF Abort
    <2>2. QED
      BY <1>0, <2>1, ExtendsSame
  <1>9. CASE \/ RemoveDraftFiles \/ ReduceToHead \/ ResetOnto \/ PositionStep \/ PickApplies
             \/ MergeApplies \/ Pause \/ ApplyForecast \/ Mismatch \/ ContinuePick \/ CommitJoin
             \/ AbsorbApplies \/ Meld \/ (FinishStep /\ pc' # "paused") \/ AnchorStep \/ Advance
             \/ QueueDone \/ Verified \/ MaterializeOverlay \/ OverlayMismatch
    <2>1. UNCHANGED op \/ op' = NoOperation
      BY <1>9 DEF RemoveDraftFiles, ReduceToHead, ResetOnto, PositionStep, PickApplies, MergeApplies, Pause,
         ApplyForecast, Mismatch, ContinuePick, CommitJoin, AbsorbApplies, Meld, FinishStep, AnchorStep, Advance,
         QueueDone, Verified, MaterializeOverlay, OverlayMismatch, Go
    <2>2. QED
      BY <1>1, <1>2, <2>1
  <1>10. CASE \/ Publish \/ ReleaseAnchors \/ ClearJournal \/ (RewordStep /\ pc' # "paused") \/ CommitFails
              \/ AbortReset \/ AbortRestore \/ AbortClear \/ Crash
    <2>1. UNCHANGED op \/ op' = NoOperation
      BY <1>10 DEF Publish, ReleaseAnchors, ClearJournal, RewordStep, CommitFails, AbortReset, AbortRestore,
         AbortClear, Crash, Go
    <2>2. QED
      BY <1>1, <1>2, <2>1
  <1>11. CASE PersonStep \/ Forecasts \/ UNCHANGED vars
    BY <1>1, <1>11, RestsAlone
  <1>12. QED
    BY <1>3, <1>4, <1>5, <1>6, <1>7, <1>8, <1>9, <1>10, <1>11, Zenon DEF Next, CommandStep

LEMMA JournalTells ==
    ASSUME Div, [Next]_vars
    PROVE  Declares(journal', objs')
  <1> USE DEF Works, Thinks, Journals, Keep
  <1>0. /\ Declares(NoOperation, objs')
        /\ Extends(op, journal') \/ Extends(journal, journal') => Declares(journal', objs')
    BY Told, NothingDeclared DEF NoOperation
  <1>1. CASE UNCHANGED journal
    BY <1>0, <1>1, ExtendsSame
  <1>2. CASE BeginStep \/ BeginAbsorption \/ AdvanceCursor \/ RecordOverlay \/ Continues \/ Begins
    <2>1. journal' = op'
      <3>1. TypesIInv
        BY DivGrounds
      <3>2. CASE Begins \/ Continues
        BY <3>1, <3>2, BeginsAnew, ContinuesTurn
      <3>3. CASE BeginStep \/ BeginAbsorption \/ AdvanceCursor \/ RecordOverlay
        <4>1. \E o : Write(o)
          BY <3>3, Zenon DEF BeginStep, BeginAbsorption, AdvanceCursor, RecordOverlay
        <4>2. QED
          BY <4>1 DEF Write
      <3>4. QED
        BY <1>2, <3>2, <3>3
    <2>2. RecordApplication => UNCHANGED journal
      BY DEF RecordApplication
    <2>3. CASE ~RecordApplication
      <3>1. Declares(op', objs')
        BY <2>3, MemoryTells
      <3>2. QED
        BY <2>1, <3>1
    <2>4. QED
      BY <1>1, <2>2, <2>3
  <1>3. CASE Pause \/ Mismatch \/ OverlayMismatch
    <2>1. pc # "idle"
      BY <1>3 DEF Pause, Mismatch, OverlayMismatch
    <2>2. Turned(op, journal') /\ journal'.amendments = op.amendments
      BY <1>3, <2>1, DivGrounds, StepsTurn
    <2>3. QED
      BY <1>0, <2>2, ExtendsSame
  <1>4. CASE ApplyForecast \/ Advance
    <2>1. journal' = op
      BY <1>4 DEF ApplyForecast, Advance
    <2>2. QED
      BY <1>0, <2>1, ExtendsSame
  <1>5. CASE ClearJournal \/ AbortClear
    BY <1>0, <1>5 DEF ClearJournal, AbortClear
  <1>7. CASE \/ RemoveDraftFiles \/ ReduceToHead \/ ResetOnto \/ OmitStep \/ PositionStep \/ PickApplies
             \/ PickConflicts \/ StepBlocked \/ MergeApplies \/ MergeConflicts \/ MergeJoinsNothing
             \/ ContinuePick \/ CommitJoin \/ AbsorbApplies \/ AbsorbConflicts \/ AbsorbBlocked \/ Meld
    BY <1>1, <1>7 DEF RemoveDraftFiles, ReduceToHead, ResetOnto, OmitStep, PositionStep, PickApplies,
       PickConflicts, StepBlocked, MergeApplies, MergeConflicts, MergeJoinsNothing, ContinuePick, CommitJoin,
       AbsorbApplies, AbsorbConflicts, AbsorbBlocked, Meld
  <1>8. CASE \/ FinishStep \/ RecordApplication \/ RecordJoin \/ AnchorStep \/ QueueDone \/ Verified
             \/ MaterializeOverlay \/ Publish \/ ReleaseAnchors \/ RewordStep \/ EditStep \/ CommitFails
             \/ AbortReset \/ AbortRestore \/ Abort \/ Crash
    BY <1>1, <1>8 DEF FinishStep, RecordApplication, RecordJoin, AnchorStep, QueueDone, Verified,
       MaterializeOverlay, Publish, ReleaseAnchors, RewordStep, EditStep, CommitFails, AbortReset, AbortRestore,
       Abort, Crash
  <1>9. CASE PersonStep \/ Forecasts \/ UNCHANGED vars
    BY <1>1, <1>9, RestsAlone
  <1>10. QED
    BY <1>2, <1>3, <1>4, <1>5, <1>7, <1>8, <1>9, Zenon DEF Next, CommandStep

LEMMA StillExplains ==
    ASSUME Div, [Next]_vars, UNCHANGED journal, undoing => undoing',
           journal.state = "awaiting-absorption" /\ ~undoing => Home' = Home /\ index' \subseteq index
    PROVE  ~undoing' => Explains(journal', objs', Home', index')
  <1>1. SUFFICES ASSUME ~undoing' PROVE Explains(journal, objs', Home', index')
    OBVIOUS
  <1>2. Explains(journal, objs, Home, index) /\ ~undoing /\ AsFar(journal, journal)
    BY <1>1 DEF Div, Divergence, AsFar
  <1>3. ASSUME NEW S, NEW T, T \subseteq S, Explained(journal, objs, S), journal.state \notin {"applying", "blocked"}
        PROVE  Explained(journal, objs', T)
    BY <1>2, <1>3, DivGrounds, ExplainedStays
  <1>4. CASE journal.state = "awaiting-absorption"
    <2>1. Home \in 1..Len(objs)
      BY HonestGrounds DEF Div
    <2>2. objs'[Home'].tree \cup index' \subseteq objs[Home].tree \cup index
      BY <1>2, <1>4, <2>1, DivGrounds DEF Grows
    <2>3. Explained(journal, objs, objs[Home].tree \cup index)
      BY <1>2, <1>4 DEF Explains
    <2>4. Explained(journal, objs', objs'[Home'].tree \cup index')
      BY <1>3, <1>4, <2>2, <2>3
    <2>5. QED
      BY <1>4, <2>4 DEF Explains
  <1>5. CASE journal.state \in {"awaiting-message", "awaiting-content"}
    <2>1. Explained(journal, objs, journal.current.treeBefore)
      BY <1>2, <1>5 DEF Explains
    <2>2. Explained(journal, objs', journal.current.treeBefore)
      BY <1>3, <1>5, <2>1
    <2>3. QED
      BY <1>5, <2>2 DEF Explains
  <1>6. QED
    BY <1>4, <1>5 DEF Explains

(* A running command that leaves the journal alone.                        *)
LEMMA StillTold ==
    ASSUME Div, [Next]_vars, UNCHANGED <<journal, undoing>>, pc # "idle",
           journal.state = "conflicted" /\ ~Still' => ~Still /\ index' \subseteq index
    PROVE  /\ ~undoing' => Explains(journal', objs', Home', index')
           /\ journal'.state = "conflicted" /\ ~Still' => OwnOnly(journal', objs', index')
  <1>1. journal.state = "awaiting-absorption" => undoing
    BY DEF Div, Hon, Ord, Settled
  <1>2. ~undoing' => Explains(journal', objs', Home', index')
    BY <1>1, StillExplains
  <1>3. ASSUME journal.state = "conflicted", ~Still' PROVE OwnOnly(journal', objs', index')
    <2>1. OwnOnly(journal, objs, index) /\ index' \subseteq index
      BY <1>3 DEF Div, Divergence
    <2>2. journal.current.commit \in 1..Len(objs) /\ AsFar(journal, journal)
      BY <1>3, DivGrounds DEF AsFar
    <2>3. QED
      BY <2>1, <2>2, DivGrounds, OwnStays
  <1>4. QED
    BY <1>2, <1>3

(* Nothing is awaited of a journal in these states.                        *)
LEMMA Silent ==
    ASSUME NEW o, o.state \in {"applying", "blocked"}
    PROVE  \A s, h, S : Explains(o, s, h, S) /\ o.state # "conflicted"
  BY DEF Explains

LEMMA DivergenceBeyond ==
    ASSUME Div, [Next]_vars, ~RecordApplication,
           pc' \notin {"absorb", "cursor", "finish", "record", "paused", "batch", "continue", "reword", "edit"},
           ~undoing' => Explains(journal', objs', Home', index'),
           journal'.state = "conflicted" /\ ~Still' => OwnOnly(journal', objs', index')
    PROVE  Divergence'
  <1>1. Declares(journal', objs') /\ Declares(op', objs')
    BY JournalTells, MemoryTells
  <1>2. ~Waiting'
    BY DEF Waiting
  <1>3. QED
    BY <1>1, <1>2 DEF Divergence

LEMMA DivergencePhases ==
    ASSUME Div, [Next]_vars, Still',
           \/ RemoveDraftFiles \/ ReduceToHead \/ ResetOnto \/ OmitStep \/ PositionStep \/ AnchorStep \/ Advance
           \/ QueueDone \/ Verified \/ MaterializeOverlay \/ RecordOverlay \/ Publish \/ ReleaseAnchors
           \/ AbortReset \/ AbortRestore \/ RecordJoin \/ CommitJoin
    PROVE  Divergence'
  <1> USE DEF Works, Thinks, Journals, Write, Go, Keep, gitVars, headVars, treeVars, histVars
  <1>1. /\ pc # "idle" /\ undoing' = undoing /\ ~RecordApplication
        /\ pc' \notin {"absorb", "cursor", "finish", "record", "paused", "batch", "continue", "reword", "edit"}
    <2>1. /\ pc # "idle" /\ undoing' = undoing
          /\ pc' \in Starting \cup Moving \cup Finishing \cup Undoing \cup {"record-join"}
      BY DEF RemoveDraftFiles, ReduceToHead, ResetOnto, OmitStep, PositionStep, AnchorStep, Advance, QueueDone,
             Verified, MaterializeOverlay, RecordOverlay, Publish, ReleaseAnchors, AbortReset, AbortRestore,
             RecordJoin, CommitJoin, Starting, Moving, Finishing, Sharing, Undoing
    <2>2. pc = "record" => ~(RemoveDraftFiles \/ ReduceToHead \/ ResetOnto \/ OmitStep \/ PositionStep \/ AnchorStep
             \/ Advance \/ QueueDone \/ Verified \/ MaterializeOverlay \/ RecordOverlay \/ Publish \/ ReleaseAnchors
             \/ AbortReset \/ AbortRestore \/ RecordJoin \/ CommitJoin)
      BY DEF RemoveDraftFiles, ReduceToHead, ResetOnto, OmitStep, PositionStep, AnchorStep, Advance, QueueDone,
             Verified, MaterializeOverlay, RecordOverlay, Publish, ReleaseAnchors, AbortReset, AbortRestore,
             RecordJoin, CommitJoin
    <2>3. RecordApplication => pc = "record"
      BY DEF RecordApplication
    <2>4. QED
      BY <2>1, <2>2, <2>3 DEF Starting, Moving, Finishing, Sharing, Undoing
  <1>2. CASE Advance \/ RecordOverlay
    <2>1. (journal' = op /\ op.state = "applying") \/ RecordOverlay
      BY <1>2, DivGrounds DEF Advance, Moving
    <2>2. RecordOverlay => journal' = op' /\ op'.state = "applying"
      <3>1. RecordOverlay => pc \in Finishing
        BY DEF RecordOverlay, Finishing
      <3>2. QED
        BY <1>1, <3>1, DivGrounds, StepsTurn DEF RecordOverlay
    <2>3. journal'.state = "applying"
      BY <2>1, <2>2
    <2>4. QED
      BY <1>1, <2>3, Silent, DivergenceBeyond
  <1>3. CASE ~Advance /\ ~RecordOverlay
    <2>1. journal' = journal
      BY <1>3 DEF RemoveDraftFiles, ReduceToHead, ResetOnto, OmitStep, PositionStep, AnchorStep, QueueDone, Verified,
         MaterializeOverlay, Publish, ReleaseAnchors, AbortReset, AbortRestore, RecordJoin, CommitJoin
    <2>2. QED
      BY <1>1, <2>1, StillTold, DivergenceBeyond
  <1>4. QED
    BY <1>2, <1>3

LEMMA DivergenceStops ==
    ASSUME Div, [Next]_vars,
           Pause \/ Mismatch \/ OverlayMismatch \/ CommitFails \/ Crash \/ ClearJournal \/ AbortClear
    PROVE  Divergence'
  <1> USE DEF Stop, Go, gitVars, headVars, treeVars, histVars
  <1>1. /\ pc # "idle" /\ pc' = "idle" /\ UNCHANGED <<branch, tip, index, objs, cp, mh>>
        /\ ~(ClearJournal \/ AbortClear) => undoing' = undoing
    BY DEF Pause, Mismatch, OverlayMismatch, CommitFails, Crash, ClearJournal, AbortClear
  <1>2. ~RecordApplication /\ (Still' <=> Still)
    <2>1. RecordApplication => pc' # "idle"
      BY DEF RecordApplication, Keep
    <2>2. QED
      BY <1>1, <2>1 DEF Still
  <1>3. CASE CommitFails \/ Crash
    <2>1. UNCHANGED <<journal, undoing>>
      BY <1>3 DEF CommitFails, Crash
    <2>2. QED
      BY <1>1, <1>2, <2>1, StillTold, DivergenceBeyond
  <1>4. CASE ClearJournal \/ AbortClear
    <2>1. journal'.state = "applying"
      BY <1>4 DEF ClearJournal, AbortClear, NoOperation
    <2>2. QED
      BY <1>1, <1>2, <2>1, Silent, DivergenceBeyond
  <1>5. CASE Pause \/ Mismatch \/ OverlayMismatch
    <2>1. journal'.state = "blocked" \/ (journal' = op /\ pc = "paused")
      BY <1>1, <1>5, DivGrounds, StepsTurn
    <2>2. CASE journal'.state = "blocked"
      BY <1>1, <1>2, <2>2, Silent, DivergenceBeyond
    <2>3. CASE journal' = op /\ pc = "paused"
      <3>1. Home' = HEAD
        BY <1>1, <2>3, DivGrounds DEF Home, HEAD
      <3>2. Explains(op, objs, HEAD, index) /\ (op.state = "conflicted" => OwnOnly(op, objs, index))
        BY <2>3 DEF Div, Divergence, Waiting
      <3>3. QED
        BY <1>1, <1>2, <2>3, <3>1, <3>2, DivergenceBeyond
    <2>4. QED
      BY <2>1, <2>2, <2>3
  <1>6. QED
    BY <1>3, <1>4, <1>5

LEMMA DivergenceBegins ==
    ASSUME Div, [Next]_vars, Begins \/ Abort
    PROVE  Divergence'
  <1>1. CASE Begins
    <2>1. pc = "idle" /\ pc' \in {"reset", "reduce"} /\ journal' = op' /\ op'.state = "applying"
      BY <1>1, DivGrounds, BeginsAnew
    <2>2. ~RecordApplication
      BY <2>1 DEF RecordApplication
    <2>3. QED
      BY <2>1, <2>2, Silent, DivergenceBeyond
  <1>2. CASE Abort
    <2>1. /\ pc = "idle" /\ pc' = "undo" /\ undoing' = TRUE /\ cp' = NoCommit /\ mh' = NoCommit
      BY <1>2 DEF Abort, Go
    <2>2. ~RecordApplication /\ Still'
      BY <2>1 DEF RecordApplication, Still
    <2>3. QED
      BY <2>1, <2>2, DivergenceBeyond
  <1>3. QED
    BY <1>1, <1>2

LEMMA DivergenceContinues ==
    ASSUME Div, [Next]_vars, Continues, ~meddled', Settled'
    PROVE  Divergence'
  <1> USE DEF Resumes, Go, gitVars, headVars, treeVars
  <1>1. /\ Continuable(journal) /\ ~undoing /\ undoing' = undoing /\ UNCHANGED <<tip, branch, index, objs, cp, mh>>
        /\ pc = "idle"
    BY DEF Continues, ContinueConflict, ContinueMessage, ContinueContent, ContinueAbsorption
  <1>2. /\ Turned(journal, op') /\ journal' = op'
        /\ \/ /\ pc' = "continue" /\ journal.state = "conflicted" /\ op'.state = "conflicted"
              /\ op'.current.cursor = journal.current.cursor
           \/ pc' = "reword" /\ journal.state = "awaiting-message" /\ op' = journal
           \/ pc' = "edit" /\ journal.state = "awaiting-content" /\ op' = journal
           \/ /\ pc' = "absorb" /\ journal.state = "awaiting-absorption" /\ op'.state = "applying"
              /\ op'.current.cursor = journal.current.cursor + 1
    BY DivGrounds, ContinuesTurn
  <1>3. /\ Home' = Home /\ HEAD' = Home /\ ~RecordApplication /\ (Still' <=> Still) /\ AsFar(journal, op')
        /\ Explains(journal, objs, Home, index)
        /\ Declares(journal', objs') /\ Declares(op', objs')
    <2>1. ~RecordApplication
      BY <1>1 DEF RecordApplication
    <2>2. Declares(journal', objs') /\ Declares(op', objs')
      BY <2>1, JournalTells, MemoryTells
    <2>3. AsFar(journal, op')
      BY <1>2 DEF AsFar, Turned, Unmoved, Same
    <2>4. Home' = Home /\ HEAD' = Home
      BY <1>1, <1>2, TurnedSame DEF Home, HEAD, Continuable, OnBranch, Same
    <2>5. QED
      BY <1>1, <2>1, <2>2, <2>3, <2>4 DEF Div, Divergence, Still
  <1>4. CASE pc' = "continue"
    <2>1. ~Still
      BY <1>1, <1>2, <1>4 DEF Continuable, PendingInGit, Still
    <2>2. OwnOnly(journal, objs, index) /\ journal.current.commit \in 1..Len(objs)
      BY <1>2, <1>4, <2>1, DivGrounds DEF Div, Divergence
    <2>3. OwnOnly(op', objs', index')
      BY <1>1, <1>3, <2>2, DivGrounds, OwnStays
    <2>4. Explains(journal', objs', Home', index')
      BY <1>2, <1>4 DEF Explains
    <2>5. QED
      BY <1>2, <1>3, <1>4, <2>3, <2>4 DEF Divergence
  <1>5. CASE pc' \in {"reword", "edit"}
    <2>1. ~Waiting'
      BY <1>5 DEF Waiting
    <2>2. Explains(journal', objs', Home', index') /\ journal'.state # "conflicted"
      BY <1>1, <1>2, <1>3, <1>5
    <2>3. Explained(op', objs', op'.current.treeBefore)
      BY <1>1, <1>2, <1>3, <1>5 DEF Explains
    <2>4. QED
      BY <1>3, <1>5, <2>1, <2>2, <2>3 DEF Divergence
  <1>6. CASE pc' = "absorb"
    <2>1. ~Waiting'
      BY <1>6 DEF Waiting
    <2>2. Explained(journal, objs, objs[Home].tree \cup index) /\ journal.next \in 1..Len(journal.queue)
      BY <1>2, <1>3, <1>6, DivGrounds DEF Explains
    <2>3. op'.current.cursor # 0
      BY <1>2, <1>6, DivGrounds
    <2>4. Explained(op', objs', objs'[HEAD'].tree \cup index')
      BY <1>1, <1>3, <2>2, <2>3, DivGrounds, ExplainedStays
    <2>5. journal'.state \in {"applying", "blocked"}
      BY <1>2, <1>6
    <2>6. QED
      BY <1>3, <1>6, <2>1, <2>4, <2>5, Silent DEF Divergence
  <1>7. QED
    BY <1>2, <1>4, <1>5, <1>6

(* What an amendment of HEAD holds.                                        *)
LEMMA AmendsTo ==
    ASSUME Repository, Lineage(objs), HEAD \in 1..Len(objs), branch' = branch,
           Meld \/ RewordStep \/ EditStep,
           objs[HEAD].parents = <<op.current.before>>
    PROVE  /\ HEAD' = New
           /\ Meld => objs'[New].tree \subseteq objs[HEAD].tree \cup index \cup objs[op.current.before].tree
           /\ RewordStep \/ EditStep =>
                 objs'[New].tree \subseteq
                     objs[HEAD].tree \cup Staged(op.current.commit) \cup objs[op.current.before].tree
  <1>1. ASSUME NEW of, NEW named, NEW content, Amend(of, named, content)
        PROVE  HEAD' = New /\ objs'[New].tree \subseteq objs[HEAD].tree \cup content \cup objs[op.current.before].tree
    <2>1. Among(<<op.current.before>>) = {op.current.before}
      BY DEF Among
    <2>2. QED
      BY <1>1, <2>1, AmendedCommit
  <1>2. ASSUME Meld
        PROVE  HEAD' = New /\ objs'[New].tree \subseteq objs[HEAD].tree \cup index \cup objs[op.current.before].tree
    <2>1. Amend(objs[op.current.commit].of, objs[op.current.commit].named, index)
      BY <1>2 DEF Meld
    <2>2. QED
      BY <1>1, <2>1
  <1>3. ASSUME RewordStep \/ EditStep
        PROVE  HEAD' = New /\ objs'[New].tree \subseteq
                   objs[HEAD].tree \cup Staged(op.current.commit) \cup objs[op.current.before].tree
    <2>1. \E of, named : Amend(of, named, Staged(op.current.commit))
      BY <1>3, Zenon DEF RewordStep, EditStep
    <2>2. QED
      BY <1>1, <2>1
  <1>4. QED
    BY <1>2, <1>3

(* What the base already held explains nothing and needs no explanation.   *)
LEMMA ExplainedOver ==
    ASSUME NEW s, NEW o, NEW S, Explained(o, s, S)
    PROVE  Explained(o, s, S \cup s[o.current.before].tree)
  BY DEF Explained

LEMMA DivergenceWithin ==
    ASSUME Div, [Next]_vars, pc # "record",
           ~undoing' => Explains(journal', objs', Home', index'),
           journal'.state = "conflicted" /\ ~Still' => OwnOnly(journal', objs', index'),
           pc' = "paused" => Explains(op', objs', HEAD', index'),
           pc' \in {"paused", "batch"} /\ op'.state = "conflicted" => OwnOnly(op', objs', index'),
           pc' \in {"absorb", "cursor", "finish"} => Explained(op', objs', objs'[HEAD'].tree \cup index'),
           pc' = "record" => \/ Explained(op', objs', objs'[HEAD'].tree)
                             \/ Amends(op', HEAD', objs'[op'.current.commit].of),
           pc' \notin {"continue", "reword", "edit"}
    PROVE  Divergence'
  <1>1. ~RecordApplication
    BY DEF RecordApplication
  <1>2. Declares(journal', objs') /\ Declares(op', objs')
    BY <1>1, JournalTells, MemoryTells
  <1>3. Waiting' => OwnOnly(op', objs', index')
    BY DEF Waiting
  <1>4. QED
    BY <1>2, <1>3 DEF Divergence

(* Where the current step is.                                              *)
LEMMA StepGrounds ==
    ASSUME Div, [Next]_vars, pc \in Stepping
    PROVE  /\ op.next \in 1..Len(op.queue) /\ op.current.commit \in 1..Len(objs) /\ HEAD \in 1..Len(objs) /\ pc # "idle"
           /\ pc \in {"pick", "batch", "continue"} =>
                 /\ HEAD = op.current.before /\ op.current.cursor = 0
           /\ pc = "pick" => index = {}
           /\ pc \in {"pick", "merge", "join", "absorb", "cursor", "finish"} =>
                 journal.state = "applying" /\ op.state = "applying"
           /\ \A S : Explained(op, objs, S) =>
                 \A o, T : AsFar(op, o) /\ (op.current.cursor # 0 => o.current.cursor # 0)
                              /\ T \subseteq S \cup objs[op.current.before].tree
                           => Explained(o, objs', T)
  <1>1. op.next \in 1..Len(op.queue) /\ op.current.commit \in 1..Len(objs) /\ HEAD \in 1..Len(objs) /\ pc # "idle"
    BY DivGrounds DEF Stepping
  <1>2. pc \in {"pick", "batch", "continue"} => HEAD = op.current.before /\ op.current.cursor = 0
    <2>1. pc \in {"batch", "continue"} => Waiting
      BY DEF Waiting, Div, Hon, Ord, Settled
    <2>2. QED
      BY <2>1 DEF Div, Hon, Ord, Settled
  <1>3. pc = "pick" => index = {}
    BY DEF Div, Hon, Ord, Orderly, CleanAt, Kempt, Unsettled
  <1>4. pc \in {"pick", "merge", "join", "absorb", "cursor", "finish"} => journal.state = "applying" /\ op.state = "applying"
    BY DEF Div, Hon, Ord, Settled, Written
  <1>5. ASSUME NEW S, Explained(op, objs, S), NEW o, NEW T, AsFar(op, o),
               op.current.cursor # 0 => o.current.cursor # 0, T \subseteq S \cup objs[op.current.before].tree
        PROVE  Explained(o, objs', T)
    <2>1. Explained(op, objs, S \cup objs[op.current.before].tree)
      BY <1>5, ExplainedOver
    <2>2. QED
      BY <1>1, <1>5, <2>1, DivGrounds, ExplainedStays
  <1>6. QED
    BY <1>1, <1>2, <1>3, <1>4, <1>5

LEMMA TakesExplained ==
    ASSUME Div, [Next]_vars, pc = "absorb", op.current.cursor > 0, Outstanding
    PROVE  Explained(op, objs, objs[HEAD].tree \cup index \cup Adds(Item))
  <1> DEFINE a == op.queue[op.next].absorbs
             e == Edited(objs[op.current.commit].of)
             S == objs[HEAD].tree \cup index
             B == objs[op.current.before].tree
  <1>1. Explained(op, objs, S)
    BY DEF Div, Divergence
  <1>2. op.current.cursor \in 1..Len(a) /\ op.current.cursor # 0
    <2>1. op.current.cursor \in Nat /\ op.queue[op.next] \in Step
      BY DivGrounds DEF Planned, Stepping
    <2>2. Len(a) \in Nat
      <3>1. a \in Seq(Nat)
        BY <2>1 DEF Step
      <3>2. QED
        BY <3>1, LenProperties
    <2>3. op.current.cursor <= Len(a)
      BY DEF Outstanding, NextStep
    <2> HIDE DEF a
    <2>4. QED
      BY <2>1, <2>2, <2>3
  <1>3. Adds(Item) \subseteq Brought(objs, a[op.current.cursor])
    BY BroughtTrue DEF Adds, Item, NextStep
  <1>4. /\ op.current.commit \in 1..Len(objs) /\ op.current.before \in 1..Len(objs)
        /\ e \in S \ B => \/ e \in Brought(objs, op.current.commit)
                          \/ op.current.cursor # 0 /\ \E k \in 1..Len(a) : e \in Brought(objs, a[k])
    BY <1>1 DEF Explained
  <1>5. e \in (S \cup Adds(Item)) \ B =>
           \/ e \in Brought(objs, op.current.commit)
           \/ op.current.cursor # 0 /\ \E k \in 1..Len(a) : e \in Brought(objs, a[k])
    <2> HIDE DEF a, e, S, B
    <2>1. QED
      BY <1>2, <1>3, <1>4
  <1>6. QED
    BY <1>4, <1>5, Zenon DEF Explained

LEMMA DivergencePicks ==
    ASSUME Div, [Next]_vars, Settled',
           \/ BeginStep \/ PickApplies \/ PickConflicts \/ StepBlocked \/ MergeApplies \/ MergeConflicts
           \/ MergeJoinsNothing \/ ApplyForecast \/ ContinuePick \/ AbsorbBlocked
    PROVE  Divergence'
  <1> USE DEF Works, Thinks, Journals, Write, Go, gitVars, headVars, treeVars, histVars
  <1>1. pc \in {"queue"} \cup Stepping /\ UNCHANGED <<branch, undoing>> /\ pc # "record" /\ pc # "idle"
    BY DEF BeginStep, PickApplies, PickConflicts, StepBlocked, MergeApplies, MergeConflicts,
           MergeJoinsNothing, ApplyForecast, ContinuePick, AbsorbBlocked, Stepping
  <1>2. TypesIInv
    BY DivGrounds
  <1>3. CASE BeginStep
    <2>1. /\ pc = "queue" /\ pc' = NextStep.kind /\ NextStep.kind # "omit" /\ journal' = op' /\ MoreSteps
      BY <1>3 DEF BeginStep
    <2>2. op'.state = "applying"
      BY <1>2, <1>3, Runs DEF BeginStep, Sound, Shaped
    <2>3. pc' \in {"pick", "merge"}
      BY <1>1, <1>2, <2>1, OperationTrue
    <2>4. QED
      BY <1>1, <2>1, <2>2, <2>3, Silent, DivergenceWithin
  <1>4. CASE StepBlocked \/ MergeJoinsNothing \/ AbsorbBlocked
    <2>1. /\ pc \in {"pick", "merge", "absorb"} /\ pc' = "paused" /\ journal' = journal
      BY <1>4 DEF StepBlocked, MergeJoinsNothing, AbsorbBlocked
    <2>2. op'.state = "blocked" /\ journal'.state = "applying"
      BY <1>1, <1>2, <1>4, <2>1, StepsTurn, StepGrounds DEF Stepping
    <2>3. QED
      BY <1>1, <2>1, <2>2, Silent, DivergenceWithin
  <1>5. CASE PickConflicts \/ MergeConflicts
    <2>1. /\ pc \in {"pick", "merge"} /\ pc' = "paused" /\ UNCHANGED <<journal, objs>>
          /\ PickConflicts => index' = Adds(op.current.commit)
          /\ MergeConflicts => pc = "merge"
      BY <1>5 DEF PickConflicts, MergeConflicts
    <2>2. op'.state = "conflicted" /\ journal'.state = "applying" /\ AsFar(op, op')
      BY <1>1, <1>2, <1>5, <2>1, StepsTurn, StepGrounds DEF Stepping, AsFar, Turned, Unmoved, Same
    <2>3. Explains(op', objs', HEAD', index')
      BY <2>2 DEF Explains
    <2>4. OwnOnly(op', objs', index')
      <3>1. CASE PickConflicts
        BY <2>1, <2>2, <3>1, BroughtTrue DEF OwnOnly, Adds, AsFar
      <3>2. CASE MergeConflicts
        BY <1>2, <2>1, <2>2, <3>2 DEF OwnOnly, AsFar, NextStep, TypesIInv, Standing
      <3>3. QED
        BY <1>5, <3>1, <3>2
    <2>5. QED
      BY <1>1, <2>1, <2>2, <2>3, <2>4, Silent, DivergenceWithin
  <1>6. CASE MergeApplies
    <2>1. pc = "merge" /\ pc' = "join" /\ journal' = journal
      BY <1>6 DEF MergeApplies
    <2>2. journal'.state = "applying"
      BY <2>1, StepGrounds DEF Stepping
    <2>3. QED
      BY <1>1, <2>1, <2>2, Silent, DivergenceWithin
  <1>7. CASE ApplyForecast
    <2>1. /\ pc = "paused" /\ op.state = "conflicted" /\ pc' = "batch" /\ journal' = op /\ op' = op
          /\ UNCHANGED <<objs, index>>
      BY <1>7 DEF ApplyForecast
    <2>2. OwnOnly(op, objs, index)
      BY <2>1 DEF Div, Divergence, Waiting
    <2>3. Explains(journal', objs', Home', index')
      BY <2>1 DEF Explains
    <2>4. QED
      BY <1>1, <2>1, <2>2, <2>3, DivergenceWithin
  <1>8. CASE PickApplies
    <2> DEFINE c == op.current.commit
    <2>1. /\ pc = "pick" /\ UNCHANGED <<op, journal, index>> /\ pc' \in {"finish", "absorb"}
          /\ AddCommit(<<HEAD>>, objs[c].of, objs[c].named, Delta(c))
      BY <1>8, Zenon DEF PickApplies
    <2>2. /\ HEAD = op.current.before /\ index = {} /\ journal.state = "applying" /\ c \in 1..Len(objs)
          /\ HEAD \in 1..Len(objs)
      BY <2>1, StepGrounds DEF Stepping
    <2>3. objs'[New].tree = Delta(c) \cup objs[HEAD].tree /\ HEAD' = New
      <3>1. Among(<<HEAD>>) = {HEAD}
        BY DEF Among
      <3>2. QED
        BY <1>1, <2>1, <3>1, DivGrounds, AddedCommit
    <2>4. Explained(op, objs, Delta(c) \cup objs[HEAD].tree)
      BY <2>2, BroughtTrue DEF Explained
    <2>5. Explained(op', objs', objs'[HEAD'].tree \cup index')
      <3>1. objs'[HEAD'].tree \cup index' \subseteq
               (Delta(c) \cup objs[HEAD].tree) \cup objs[op.current.before].tree
        BY <2>1, <2>2, <2>3
      <3>2. AsFar(op, op') /\ (op.current.cursor # 0 => op'.current.cursor # 0)
        BY <2>1 DEF AsFar
      <3> HIDE DEF c
      <3>3. pc \in Stepping
        BY <2>1 DEF Stepping
      <3>4. QED
        BY <2>4, <3>1, <3>2, <3>3, StepGrounds
    <2>6. QED
      BY <1>1, <2>1, <2>2, <2>5, Silent, DivergenceWithin
  <1>9. CASE ContinuePick
    <2> DEFINE c == op.current.commit
    <2>1. /\ pc \in {"batch", "continue"} /\ NextStep.kind = "pick" /\ UNCHANGED <<op, journal>> /\ pc' = "record"
          /\ index' = {}
          /\ \E of, named : AddCommit(<<HEAD>>, of, named, index)
      BY <1>9, Zenon DEF ContinuePick
    <2>2. HEAD = op.current.before /\ c \in 1..Len(objs) /\ HEAD \in 1..Len(objs)
      BY <2>1, StepGrounds DEF Stepping
    <2>3. objs'[New].tree = index \cup objs[HEAD].tree /\ HEAD' = New
      <3>1. Among(<<HEAD>>) = {HEAD}
        BY DEF Among
      <3>2. QED
        BY <1>1, <2>1, <3>1, DivGrounds, AddedCommit
    <2>4. index \subseteq Brought(objs, c)
      <3>1. Waiting
        BY <2>1 DEF Waiting, Div, Hon, Ord, Settled
      <3>2. QED
        BY <2>1, <3>1 DEF Div, Divergence, OwnOnly, NextStep
    <2>5. Explained(op, objs, index \cup objs[HEAD].tree)
      BY <2>2, <2>4 DEF Explained
    <2>6. Explained(op', objs', objs'[HEAD'].tree)
      <3>1. objs'[HEAD'].tree \subseteq (index \cup objs[HEAD].tree) \cup objs[op.current.before].tree
        BY <2>3
      <3>2. AsFar(op, op') /\ (op.current.cursor # 0 => op'.current.cursor # 0)
        BY <2>1 DEF AsFar
      <3>3. pc \in Stepping
        BY <2>1 DEF Stepping
      <3>4. QED
        BY <2>5, <3>1, <3>2, <3>3, StepGrounds
    <2>7. Still'
      BY <2>1 DEF Settled
    <2>8. /\ ~undoing' => Explains(journal', objs', Home', index')
          /\ journal'.state = "conflicted" /\ ~Still' => OwnOnly(journal', objs', index')
      BY <1>1, <2>1, <2>7, StillTold
    <2>9. QED
      BY <1>1, <2>1, <2>6, <2>8, DivergenceWithin
  <1>10. QED
    BY <1>3, <1>4, <1>5, <1>6, <1>7, <1>8, <1>9

LEMMA DivergenceAbsorbs ==
    ASSUME Div, [Next]_vars,
           BeginAbsorption \/ AbsorbApplies \/ AbsorbConflicts \/ AdvanceCursor \/ Meld \/ FinishStep
    PROVE  Divergence'
  <1> USE DEF Works, Thinks, Journals, Write, Go, gitVars, headVars, treeVars, histVars
  <1>1. /\ pc \in {"absorb", "cursor", "finish"} /\ UNCHANGED <<branch, undoing>> /\ pc # "record" /\ pc # "idle"
        /\ pc \in Stepping
    BY DEF BeginAbsorption, AbsorbApplies, AbsorbConflicts, AdvanceCursor, Meld, FinishStep, Stepping
  <1>2. TypesIInv /\ journal.state = "applying" /\ op.current.cursor \in Nat
    BY <1>1, DivGrounds, StepGrounds
  <1>3. Explained(op, objs, objs[HEAD].tree \cup index)
    BY <1>1 DEF Div, Divergence
  <1>4. CASE BeginAbsorption \/ AdvanceCursor
    <2>1. /\ pc' = "absorb" /\ journal' = op' /\ UNCHANGED <<tip, index, objs>>
      BY <1>4 DEF BeginAbsorption, AdvanceCursor
    <2>2. /\ Turned(op, op') /\ op'.state = op.state
          /\ BeginAbsorption => op'.current.cursor = 1
          /\ AdvanceCursor => op'.current.cursor = op.current.cursor + 1
      BY <1>1, <1>2, <1>4, StepsTurn
    <2>3. HEAD' = HEAD /\ AsFar(op, op') /\ op'.current.cursor # 0 /\ op'.state = "applying"
      BY <1>1, <1>2, <1>4, <2>1, <2>2, StepGrounds DEF HEAD, AsFar, Turned, Unmoved, Same
    <2>4. Explained(op', objs', objs'[HEAD'].tree \cup index')
      <3>1. objs'[HEAD'].tree \cup index' \subseteq (objs[HEAD].tree \cup index) \cup objs[op.current.before].tree
        BY <2>1, <2>3
      <3>2. QED
        BY <1>1, <1>3, <2>3, <3>1, StepGrounds
    <2>5. QED
      BY <1>1, <2>1, <2>3, <2>4, Silent, DivergenceWithin
  <1>5. CASE AbsorbApplies \/ AbsorbConflicts
    <2>1. /\ pc = "absorb" /\ op.current.cursor > 0 /\ Outstanding /\ index' = index \cup Adds(Item)
          /\ UNCHANGED <<tip, objs, journal>>
          /\ \/ pc' = "cursor" /\ op' = op
             \/ pc' = "paused" /\ AbsorbConflicts
      BY <1>5 DEF AbsorbApplies, AbsorbConflicts
    <2>2. AbsorbConflicts => Turned(op, op') /\ op'.state = "awaiting-absorption" /\ op'.current = op.current
      BY <1>1, <1>2, StepsTurn
    <2>3. HEAD' = HEAD /\ AsFar(op, op') /\ op'.current.cursor = op.current.cursor
      BY <1>1, <2>1, <2>2 DEF HEAD, AsFar, Turned, Unmoved, Same
    <2>4. Explained(op', objs', objs'[HEAD'].tree \cup index')
      <3>1. Explained(op, objs, objs[HEAD].tree \cup index \cup Adds(Item))
        BY <2>1, TakesExplained
      <3>2. objs'[HEAD'].tree \cup index' \subseteq
               (objs[HEAD].tree \cup index \cup Adds(Item)) \cup objs[op.current.before].tree
        BY <2>1, <2>3
      <3>3. QED
        BY <1>1, <2>3, <3>1, <3>2, StepGrounds
    <2>5. pc' = "paused" => Explains(op', objs', HEAD', index') /\ op'.state # "conflicted"
      BY <2>1, <2>2, <2>4 DEF Explains
    <2>6. QED
      BY <1>1, <1>2, <2>1, <2>4, <2>5, Silent, DivergenceWithin
  <1>6. CASE Meld
    <2>1. /\ pc = "absorb" /\ pc' = "finish" /\ UNCHANGED <<op, journal>> /\ index' = {}
      BY <1>6 DEF Meld
    <2>2. objs[HEAD].parents = <<op.current.before>>
      BY <2>1 DEF Div, Hon, Honest, On
    <2>3. HEAD' = New /\ objs'[New].tree \subseteq objs[HEAD].tree \cup index \cup objs[op.current.before].tree
      BY <1>1, <1>6, <2>2, DivGrounds, AmendsTo
    <2>4. Explained(op', objs', objs'[HEAD'].tree \cup index')
      <3>1. objs'[HEAD'].tree \cup index' \subseteq (objs[HEAD].tree \cup index) \cup objs[op.current.before].tree
        BY <2>1, <2>3
      <3>2. AsFar(op, op') /\ (op.current.cursor # 0 => op'.current.cursor # 0)
        BY <2>1 DEF AsFar
      <3>3. QED
        BY <1>1, <1>3, <3>1, <3>2, StepGrounds
    <2>5. QED
      BY <1>1, <1>2, <2>1, <2>4, Silent, DivergenceWithin
  <1>7. CASE FinishStep
    <2>1. UNCHANGED <<journal, tip, index, objs>> /\ ((pc' = "record" /\ op' = op) \/ pc' = "paused")
      BY <1>7 DEF FinishStep
    <2>2. pc' = "paused" => /\ Turned(op, op') /\ op'.state \in {"awaiting-message", "awaiting-content"}
                            /\ op'.current.cursor = op.current.cursor /\ op'.current.treeBefore = objs[HEAD].tree
      BY <1>1, <1>2, <1>7, StepsTurn
    <2>3. HEAD' = HEAD /\ AsFar(op, op') /\ op'.current.cursor = op.current.cursor
      BY <1>1, <2>1, <2>2 DEF HEAD, AsFar, Turned, Unmoved, Same
    <2>4. Explained(op', objs', objs[HEAD].tree)
      <3>1. objs[HEAD].tree \subseteq (objs[HEAD].tree \cup index) \cup objs[op.current.before].tree
        OBVIOUS
      <3>2. QED
        BY <1>1, <1>3, <2>3, <3>1, StepGrounds
    <2>5. pc' = "paused" => Explains(op', objs', HEAD', index') /\ op'.state # "conflicted"
      BY <2>2, <2>4 DEF Explains
    <2>6. pc' = "record" => Explained(op', objs', objs'[HEAD'].tree)
      BY <2>1, <2>3, <2>4
    <2>7. QED
      BY <1>1, <1>2, <2>1, <2>5, <2>6, Silent, DivergenceWithin
  <1>8. QED
    BY <1>4, <1>5, <1>6, <1>7

LEMMA DivergenceAmends ==
    ASSUME Div, [Next]_vars, RewordStep \/ EditStep
    PROVE  Divergence'
  <1> USE DEF Works, Go, gitVars, headVars, treeVars, histVars
  <1> DEFINE c == op.current.commit
             tree == objs[HEAD].tree \cup Staged(c)
             told == [of |-> objs[c].of, commit |-> New, origin |-> c]
  <1>1. /\ pc \in {"reword", "edit"} /\ UNCHANGED <<branch, undoing, journal, index, cp, mh>> /\ pc # "record" /\ pc # "idle"
        /\ pc \in Stepping /\ (pc' = "record" \/ (RewordStep /\ pc' = "paused"))
    BY Zenon DEF RewordStep, EditStep, Stepping
  <1>2. TypesIInv
    BY DivGrounds
  <1>3. Explained(op, objs, op.current.treeBefore) /\ objs[HEAD].parents = <<op.current.before>>
    BY <1>1 DEF Div, Divergence, Hon, Honest, On
  <1>4. /\ ~undoing' => Explains(journal', objs', Home', index')
        /\ journal'.state = "conflicted" /\ ~Still' => OwnOnly(journal', objs', index')
    <2>1. Still' <=> Still
      BY <1>1 DEF Still
    <2>2. QED
      BY <1>1, <2>1, StillTold
  <1>5. HEAD' = New /\ objs'[New].tree \subseteq tree \cup objs[op.current.before].tree
    BY <1>1, <1>3, DivGrounds, AmendsTo
  <1>6. ASSUME tree = op.current.treeBefore, op' = op
        PROVE  Explained(op', objs', objs'[HEAD'].tree)
    <2>1. AsFar(op, op') /\ (op.current.cursor # 0 => op'.current.cursor # 0)
      BY <1>6 DEF AsFar
    <2>2. objs'[HEAD'].tree \subseteq op.current.treeBefore \cup objs[op.current.before].tree
      BY <1>5, <1>6
    <2> HIDE DEF tree, c
    <2>3. QED
      BY <1>1, <1>3, <2>1, <2>2, StepGrounds
  <1>7. CASE RewordStep
    <2>1. \/ tree = op.current.treeBefore /\ pc' = "record" /\ op' = op
          \/ pc' = "paused"
      BY <1>7, Zenon DEF RewordStep
    <2>2. pc' = "paused" => op'.state = "blocked"
      BY <1>1, <1>2, <1>7, StepsTurn
    <2> HIDE DEF tree
    <2>3. pc' = "record" => Explained(op', objs', objs'[HEAD'].tree)
      BY <1>6, <2>1
    <2>4. QED
      BY <1>1, <1>4, <2>1, <2>2, <2>3, Silent, DivergenceWithin
  <1>8. CASE EditStep
    <2>1. /\ pc' = "record"
          /\ op' = IF Diverged(op, tree) THEN [op EXCEPT !.amendments = Append(@, told)] ELSE op
      BY <1>8, Zenon DEF EditStep
    <2>2. CASE ~Diverged(op, tree)
      <3>1. tree = op.current.treeBefore /\ op' = op
        BY <2>1, <2>2 DEF Diverged
      <3> HIDE DEF tree
      <3>2. Explained(op', objs', objs'[HEAD'].tree)
        BY <1>6, <3>1
      <3>3. QED
        BY <1>1, <1>4, <2>1, <3>2, DivergenceWithin
    <2>3. CASE Diverged(op, tree)
      <3> HIDE DEF tree, told
      <3>1. Sound(op)
        BY <1>2 DEF TypesIInv, RebaseIInv, RebaseKinds
      <3>2. op'.amendments = Append(op.amendments, told) /\ op'.current = op.current
        BY <2>1, <2>3, <3>1 DEF Sound, Shaped
      <3>3. /\ Len(op'.amendments) \in 1..Len(op'.amendments)
            /\ op'.amendments[Len(op'.amendments)] = told
        <4>1. Strung(op.amendments)
          BY <3>1 DEF Sound
        <4>2. QED
          BY <3>2, <4>1, StrungAppend
      <3>4. told.commit = New /\ told.of = objs[c].of
        BY DEF told
      <3>5. objs'[op'.current.commit].of = objs[c].of
        <4>1. c \in 1..Len(objs)
          BY <1>1, StepGrounds
        <4>2. QED
          BY <3>2, <4>1, DivGrounds DEF Grows
      <3>6. Amends(op', HEAD', objs'[op'.current.commit].of)
        BY <1>5, <3>3, <3>4, <3>5, Zenon DEF Amends
      <3>7. QED
        BY <1>1, <1>4, <2>1, <3>6, DivergenceWithin
    <2>4. QED
      BY <2>2, <2>3
  <1>9. QED
    BY <1>7, <1>8

(* A step's application is recorded with what it took in.                  *)
LEMMA DivergenceEnds ==
    ASSUME Div, [Next]_vars, RecordApplication, Still'
    PROVE  Divergence'
  <1> USE DEF Go, gitVars, headVars, treeVars, histVars
  <1> DEFINE c == op.current.commit
             x == objs[c].of
             a == op.queue[op.next].absorbs
             app == [origin |-> c, commit |-> HEAD, fork |-> op.current.fork]
             ab == [survivor |-> HEAD, absorbed |-> Elements(a)]
             abs == IF op.current.cursor = 0 THEN op.absorptions ELSE Append(op.absorptions, ab)
  <1>1. /\ pc = "record" /\ pc # "idle" /\ pc \in Stepping
        /\ UNCHANGED <<journal, undoing, objs, tip, branch, index, cp, mh>>
        /\ \/ op' = Recorded(op) /\ pc' \in {"anchor", "advance"}
           \/ pc' = "paused"
    <2>1. /\ pc = "record" /\ UNCHANGED <<journal, undoing, objs, tip, branch, index, cp, mh>>
          /\ \/ Keep(Recorded(op))
             \/ pc' = "paused"
      BY Zenon DEF RecordApplication
    <2>2. Keep(Recorded(op)) => op' = Recorded(op) /\ pc' \in {"anchor", "advance"}
      BY Zenon DEF Keep
    <2>3. QED
      BY <2>1, <2>2 DEF Stepping
  <1>2. TypesIInv /\ Sound(op) /\ Declares(op, objs) /\ HEAD' = HEAD
    BY <1>1, DivGrounds DEF TypesIInv, RebaseIInv, RebaseKinds, Div, Divergence, HEAD
  <1>3. /\ ~undoing' => Explains(journal', objs', Home', index')
        /\ journal'.state = "conflicted" /\ ~Still' => OwnOnly(journal', objs', index')
    BY <1>1, StillTold
  <1>4. Declares(journal', objs')
    BY JournalTells
  <1>5. CASE pc' = "paused"
    <2>1. Turned(op, op') /\ op'.amendments = op.amendments /\ op'.state = "blocked"
      BY <1>1, <1>2, <1>5, StepsTurn
    <2>2. Declares(op', objs')
      BY <2>1, ExtendsSame, Told
    <2>3. Explains(op', objs', HEAD', index') /\ ~Waiting'
      BY <2>1, Silent DEF Waiting
    <2>4. QED
      BY <1>3, <1>4, <1>5, <2>2, <2>3 DEF Divergence
  <1>6. CASE op' = Recorded(op) /\ pc' \in {"anchor", "advance"}
    <2>1. op' = [op EXCEPT !.applied = Append(@, app), !.absorptions = abs, !.rewritten[c] = HEAD, !.next = @ + 1,
                           !.current = NoCurrent, !.state = "applying"]
      BY <1>6, Zenon DEF Recorded
    <2>2. Strung(op.applied) /\ Strung(op.absorptions) /\ Len(op.applied) \in Nat /\ Len(op.absorptions) \in Nat
      BY <1>2, StrungTrue DEF Sound
    <2>3. op'.applied = Append(op.applied, app) /\ op'.absorptions = abs /\ op'.amendments = op.amendments
      <3> HIDE DEF app, abs, c
      <3>1. QED
        BY <1>2, <2>1 DEF Sound, Shaped
    <2>4. \A j \in 1..Len(op.absorptions) : j \in 1..Len(op'.absorptions) /\ op'.absorptions[j] = op.absorptions[j]
      <3> HIDE DEF ab
      <3>1. CASE op.current.cursor = 0
        BY <2>3, <3>1
      <3>2. CASE op.current.cursor # 0
        BY <2>2, <2>3, <3>2, StrungAppend
      <3>3. QED
        BY <3>1, <3>2
    <2>5. Lineage(objs) /\ Grows(objs, objs) /\ Len(objs) \in Nat /\ Planned(op.queue, Len(objs))
      BY DivGrounds DEF Grows
    <2>6. ASSUME NEW k \in 1..Len(op.applied) PROVE Warranted(op', objs, op.applied[k])
      <3>1. Warranted(op, objs, op.applied[k])
        BY <1>2 DEF Declares
      <3>2. QED
        BY <2>3, <2>4, <2>5, <3>1, WarrantedStays
    <2>7. Warranted(op', objs, app)
      <3>1. c \in 1..Len(objs) /\ HEAD \in 1..Len(objs) /\ op.next \in 1..Len(op.queue)
        BY <1>1, StepGrounds
      <3>2. objs[HEAD].parents = <<op.current.before>>
        BY <1>1 DEF Div, Hon, Honest, On
      <3>3. Brought(objs, HEAD) = objs[HEAD].tree \ objs[op.current.before].tree
        <4>1. Among(<<op.current.before>>) = {op.current.before}
          BY DEF Among
        <4>2. QED
          BY <3>2, <4>1 DEF Brought
      <3>4. ASSUME Edited(x) \in Brought(objs, HEAD) \ Brought(objs, c)
            PROVE  Amends(op', HEAD, x) \/ TookIn(op', objs, HEAD, Edited(x))
        <4>1. CASE Amends(op, HEAD, x)
          BY <2>3, <4>1 DEF Amends
        <4>2. CASE Explained(op, objs, objs[HEAD].tree)
          <5>1. PICK k \in 1..Len(a) : Edited(x) \in Brought(objs, a[k]) /\ op.current.cursor # 0
            BY <3>3, <3>4, <4>2 DEF Explained
          <5>2. a[k] \in 1..Len(objs) /\ a[k] \in Elements(a)
            BY <2>5, <3>1, <5>1 DEF Planned, Elements
          <5>3. /\ Len(op'.absorptions) \in 1..Len(op'.absorptions)
                /\ op'.absorptions[Len(op'.absorptions)] = ab
            <6> HIDE DEF ab
            <6>1. QED
              BY <2>2, <2>3, <5>1, StrungAppend
          <5>4. ab.survivor = HEAD /\ ab.absorbed = Elements(a)
            OBVIOUS
          <5> HIDE DEF ab, a, x
          <5>5. QED
            BY <5>1, <5>2, <5>3, <5>4, Zenon DEF TookIn
        <4>3. QED
          BY <1>1, <4>1, <4>2 DEF Div, Divergence
      <3>5. app.origin = c /\ app.commit = HEAD
        OBVIOUS
      <3>6. objs[app.origin].of = x
        BY <3>5
      <3> HIDE DEF app, c, x
      <3>7. QED
        BY <3>1, <3>4, <3>5, <3>6 DEF Warranted
    <2>8. Declares(op', objs')
      <3> HIDE DEF app
      <3>1. ASSUME NEW k \in 1..Len(op'.applied) PROVE Warranted(op', objs, op'.applied[k])
        <4>1. Len(op'.applied) = Len(op.applied) + 1 /\ op'.applied[Len(op.applied) + 1] = app
          BY <2>2, <2>3, StrungAppend
        <4>2. \A i \in 1..Len(op.applied) : op'.applied[i] = op.applied[i]
          BY <2>2, <2>3, StrungAppend
        <4>3. k \in 1..Len(op.applied) \/ k = Len(op.applied) + 1
          BY <2>2, <4>1
        <4>4. QED
          BY <2>6, <2>7, <4>1, <4>2, <4>3
      <3>2. QED
        BY <1>1, <3>1 DEF Declares
    <2>9. ~Waiting' /\ pc' \notin {"paused", "absorb", "cursor", "finish", "reword", "edit", "record"}
      BY <1>6 DEF Waiting
    <2>10. QED
      BY <1>3, <1>4, <2>8, <2>9 DEF Divergence
  <1>7. QED
    BY <1>1, <1>5, <1>6

LEMMA DivergenceRests ==
    ASSUME Div, [Next]_vars, PersonStep \/ Forecasts \/ UNCHANGED vars, ~meddled'
    PROVE  Divergence'
  <1> USE DEF Outside, Acts, ActsIf, AtRest, procVars, gitVars, headVars, treeVars, histVars
  <1>1. UNCHANGED <<journal, op, pc, undoing>> /\ (PersonStep \/ Forecasts => pc = "idle")
    BY RestsAlone
  <1>2. CASE UNCHANGED vars
    <2>1. UNCHANGED <<journal, op, pc, undoing, objs, branch, tip, index, cp, mh>>
      BY <1>2 DEF vars
    <2>2. HEAD' = HEAD /\ Home' = Home /\ (Waiting' <=> Waiting) /\ (Still' <=> Still)
      BY <2>1 DEF HEAD, Home, Waiting, Still
    <2>3. QED
      BY <2>1, <2>2 DEF Div, Divergence
  <1>3. /\ tip \in [Branch -> Objects] /\ branch \in Branch /\ journal.branch \in Branch
        /\ journal.state = "awaiting-absorption" =>
              journal.branch # "main" /\ Still /\ (branch = journal.branch => Paused)
    <2>1. tip \in [Branch -> Objects] /\ branch \in Branch /\ journal.branch \in Branch /\ (Awaits(journal.state) => Pending)
      BY HonestGrounds DEF Div
    <2>2. QED
      BY <2>1 DEF Div, Hon, Ord, Settled, Paused, OnBranch, Awaits
  <1>4. ASSUME pc = "idle", journal.state = "awaiting-absorption" => Home' = Home /\ index' \subseteq index,
               Still' \/ (~Still /\ index' = index)
        PROVE  Divergence'
    <2>1. pc' = "idle" /\ ~RecordApplication
      BY <1>1, <1>4 DEF RecordApplication
    <2>2. ~undoing' => Explains(journal', objs', Home', index')
      BY <1>1, <1>4, StillExplains
    <2>3. ASSUME journal.state = "conflicted", ~Still' PROVE OwnOnly(journal', objs', index')
      <3>1. OwnOnly(journal, objs, index) /\ index' = index
        BY <1>4, <2>3 DEF Div, Divergence
      <3>2. journal.current.commit \in 1..Len(objs) /\ AsFar(journal, journal)
        BY <2>3, DivGrounds DEF AsFar
      <3>3. QED
        BY <1>1, <3>1, <3>2, DivGrounds, OwnStays
    <2>4. QED
      BY <1>1, <2>1, <2>2, <2>3, DivergenceBeyond
  <1>5. CASE Resolve \/ Edit \/ CaptureDraft \/ GoBack \/ Forecasts
    <2>1. UNCHANGED <<tip, index, cp, mh>> /\ pc = "idle"
      BY <1>5 DEF Resolve, Edit, CaptureDraft, GoBack, Forecasts, Forecast
    <2>2. QED
      BY <1>1, <1>4, <2>1 DEF Home, Still
  <1>6. CASE GitContinue \/ GitAbandon
    <2>1. ~Still /\ pc = "idle" /\ Still'
      BY <1>6 DEF GitContinue, GitAbandon, Still
    <2>2. QED
      BY <1>3, <1>4, <2>1
  <1>7. CASE CommitAbsorbed \/ ThrowAway
    BY <1>7 DEF CommitAbsorbed, ThrowAway
  <1>8. CASE CleanUp
    <2>1. tip' = tip /\ pc = "idle" /\ index' = {} /\ Still'
      BY <1>8 DEF CleanUp, Still
    <2>2. QED
      BY <1>1, <1>4, <2>1 DEF Home
  <1>9. CASE CommitOwn
    <2>1. pc = "idle" /\ tip' = [tip EXCEPT ![branch] = New] /\ ~Paused /\ index' = index /\ Still'
      BY <1>9 DEF CommitOwn, AddCommit, Still
    <2>2. journal.state = "awaiting-absorption" => Home' = Home
      BY <1>1, <1>3, <2>1 DEF Home
    <2>3. QED
      BY <1>4, <2>1, <2>2
  <1>10. CASE MainMoves
    <2>1. pc = "idle" /\ tip' = [tip EXCEPT !["main"] = New] /\ UNCHANGED <<index, cp, mh>>
      BY <1>10 DEF MainMoves
    <2>2. journal.state = "awaiting-absorption" => Home' = Home
      BY <1>1, <1>3, <2>1 DEF Home
    <2>3. QED
      BY <1>4, <2>1, <2>2 DEF Still
  <1>11. CASE \E b \in Branch : Checkout(b) \/ Land(b)
    <2>1. PICK b \in Branch : Checkout(b) \/ Land(b)
      BY <1>11
    <2>2. CASE Checkout(b)
      <3>1. tip' = tip /\ pc = "idle" /\ index' = {} /\ Still'
        BY <2>2 DEF Checkout, Still
      <3>2. QED
        BY <1>1, <1>4, <3>1 DEF Home
    <2>3. CASE Land(b)
      <3>1. pc = "idle" /\ tip' = [tip EXCEPT !["main"] = tip[b]] /\ UNCHANGED <<index, cp, mh>>
        BY <2>3 DEF Land
      <3>2. journal.state = "awaiting-absorption" => Home' = Home
        BY <1>1, <1>3, <3>1 DEF Home
      <3>3. QED
        BY <1>4, <3>1, <3>2 DEF Still
    <2>4. QED
      BY <2>1, <2>2, <2>3
  <1>12. QED
    BY <1>2, <1>5, <1>6, <1>7, <1>8, <1>9, <1>10, <1>11, Zenon DEF PersonStep

LEMMA DivergenceStarts == Init => Divergence
  <1> SUFFICES ASSUME Init PROVE Divergence
    OBVIOUS
  <1>1. journal = NoOperation /\ op = NoOperation /\ pc = "idle"
    BY DEF Init
  <1>2. NoOperation.state = "applying" /\ NoOperation.applied = <<>>
    BY DEF NoOperation
  <1>3. ~Waiting
    BY <1>1 DEF Waiting
  <1>4. QED
    BY <1>1, <1>2, <1>3, Silent, NothingDeclared DEF Divergence

LEMMA DivergenceStep ==
    ASSUME HonestIInv, ~meddled => Divergence, [Next]_vars
    PROVE  ~meddled' => Divergence'
  <1> SUFFICES ASSUME ~meddled' PROVE Divergence'
    OBVIOUS
  <1>1. Div
    BY MeddledStays DEF HonestIInv, LinesIInv, WorkIInv, Div, Hon, Ord, TypesIInv, Bounded
  <1>2. Settled'
    BY WorkStep DEF HonestIInv, WorkIInv
  <1>3. CASE \/ RemoveDraftFiles \/ ReduceToHead \/ ResetOnto \/ OmitStep \/ PositionStep \/ AnchorStep \/ Advance
             \/ QueueDone \/ Verified \/ MaterializeOverlay \/ RecordOverlay \/ Publish \/ ReleaseAnchors
             \/ AbortReset \/ AbortRestore \/ RecordJoin \/ CommitJoin
    <2>1. pc' \in Starting \cup Moving \cup Finishing \cup Undoing \cup {"record-join"}
      BY <1>3 DEF RemoveDraftFiles, ReduceToHead, ResetOnto, OmitStep, PositionStep, AnchorStep, Advance, QueueDone,
             Verified, MaterializeOverlay, RecordOverlay, Publish, ReleaseAnchors, AbortReset, AbortRestore,
             RecordJoin, CommitJoin, Starting, Moving, Finishing, Sharing, Undoing, Works, Thinks, Journals, Write, Go, Keep
    <2>2. Still'
      BY <1>2, <2>1 DEF Settled, Starting, Moving, Finishing, Sharing, Undoing
    <2>3. QED
      BY <1>1, <1>3, <2>2, DivergencePhases
  <1>4. CASE RecordApplication
    <2>1. pc = "record" /\ UNCHANGED <<cp, mh>>
      BY <1>4, Zenon DEF RecordApplication, Thinks, gitVars, headVars, treeVars
    <2>2. Still'
      BY <1>1, <2>1 DEF Div, Hon, Ord, Settled, Still
    <2>3. QED
      BY <1>1, <1>4, <2>2, DivergenceEnds
  <1>5. CASE Pause \/ Mismatch \/ OverlayMismatch \/ CommitFails \/ Crash \/ ClearJournal \/ AbortClear
    BY <1>1, <1>5, DivergenceStops
  <1>6. CASE Begins \/ Abort
    BY <1>1, <1>6, DivergenceBegins
  <1>7. CASE Continues
    BY <1>1, <1>2, <1>7, DivergenceContinues
  <1>8. CASE \/ BeginStep \/ PickApplies \/ PickConflicts \/ StepBlocked \/ MergeApplies \/ MergeConflicts
             \/ MergeJoinsNothing \/ ApplyForecast \/ ContinuePick \/ AbsorbBlocked
    BY <1>1, <1>2, <1>8, DivergencePicks
  <1>9. CASE BeginAbsorption \/ AbsorbApplies \/ AbsorbConflicts \/ AdvanceCursor \/ Meld \/ FinishStep
    BY <1>1, <1>9, DivergenceAbsorbs
  <1>10. CASE RewordStep \/ EditStep
    BY <1>1, <1>10, DivergenceAmends
  <1>11. CASE PersonStep \/ Forecasts \/ UNCHANGED vars
    BY <1>1, <1>11, DivergenceRests
  <1>12. QED
    BY <1>3, <1>4, <1>5, <1>6, <1>7, <1>8, <1>9, <1>10, <1>11, Zenon DEF Next, CommandStep

(* Publication.  What a receipt vouches for is warranted by the records    *)
(* that stand before it; and what was published of an operation is there.  *)
Vouched(ns, i, s, app) ==
    LET x == s[app.origin].of IN
    /\ app.origin \in 1..Len(s) /\ app.commit \in 1..Len(s)
    /\ Edited(x) \in Brought(s, app.commit) \ Brought(s, app.origin) =>
          \E j \in 1..(i - 1) :
              \/ ns[j].type = "amendment" /\ ns[j].commit = app.commit /\ ns[j].of = x
              \/ /\ ns[j].type = "absorption" /\ ns[j].survivor = app.commit
                 /\ \E d \in ns[j].absorbed : d \in 1..Len(s) /\ Edited(x) \in Brought(s, d)
VouchedAll(ns, i, s) ==
    ns[i].type = "rebase" => \A k \in 1..Len(ns[i].applied) : Vouched(ns, i, s, ns[i].applied[k])
Vouches(ns, s) == \A i \in 1..Len(ns) : VouchedAll(ns, i, s)
Shown == pc = "publish" => \A i \in 1..Len(Publication(op)) : i < nextNote => Publication(op)[i] \in Published

LEMMA VouchedStays ==
    ASSUME NEW s, NEW z, Lineage(s), Grows(s, z), Len(s) \in Nat, Len(z) \in Nat,
           NEW ns, NEW ms, NEW i, \A j \in 1..(i - 1) : ms[j] = ns[j], NEW app, Vouched(ns, i, s, app)
    PROVE  Vouched(ms, i, z, app)
  <1> DEFINE x == s[app.origin].of
             h == app.commit
  <1>1. app.origin \in 1..Len(s) /\ h \in 1..Len(s)
    BY Zenon DEF Vouched
  <1>2. Edited(x) \in Brought(s, h) \ Brought(s, app.origin) =>
          \E j \in 1..(i - 1) :
              \/ ns[j].type = "amendment" /\ ns[j].commit = h /\ ns[j].of = x
              \/ /\ ns[j].type = "absorption" /\ ns[j].survivor = h
                 /\ \E d \in ns[j].absorbed : d \in 1..Len(s) /\ Edited(x) \in Brought(s, d)
    BY Zenon DEF Vouched
  <1> HIDE DEF x, h
  <1>3. \A c \in 1..Len(s) : c \in 1..Len(z)
    BY DEF Grows
  <1>4. \A c \in 1..Len(s) : Brought(z, c) = Brought(s, c) /\ z[c] = s[c]
    BY BroughtStays
  <1>5. Edited(x) \in Brought(z, h) \ Brought(z, app.origin) =>
          \E j \in 1..(i - 1) :
              \/ ms[j].type = "amendment" /\ ms[j].commit = h /\ ms[j].of = x
              \/ /\ ms[j].type = "absorption" /\ ms[j].survivor = h
                 /\ \E d \in ms[j].absorbed : d \in 1..Len(z) /\ Edited(x) \in Brought(z, d)
    <2>1. SUFFICES ASSUME Edited(x) \in Brought(s, h) \ Brought(s, app.origin)
                   PROVE  \E j \in 1..(i - 1) :
                             \/ ms[j].type = "amendment" /\ ms[j].commit = h /\ ms[j].of = x
                             \/ /\ ms[j].type = "absorption" /\ ms[j].survivor = h
                                /\ \E d \in ms[j].absorbed : d \in 1..Len(z) /\ Edited(x) \in Brought(z, d)
      BY <1>1, <1>4
    <2>2. PICK j \in 1..(i - 1) :
              \/ ns[j].type = "amendment" /\ ns[j].commit = h /\ ns[j].of = x
              \/ /\ ns[j].type = "absorption" /\ ns[j].survivor = h
                 /\ \E d \in ns[j].absorbed : d \in 1..Len(s) /\ Edited(x) \in Brought(s, d)
      BY <1>2, <2>1
    <2>3. ms[j] = ns[j]
      BY <2>2
    <2>4. QED
      BY <1>3, <1>4, <2>2, <2>3
  <1>6. z[app.origin].of = x /\ app.origin \in 1..Len(z) /\ h \in 1..Len(z)
    BY <1>1, <1>3, <1>4 DEF x
  <1>7. QED
    BY <1>5, <1>6, Zenon DEF Vouched, h

LEMMA VouchesStays ==
    ASSUME NEW s, NEW z, Lineage(s), Grows(s, z), Len(s) \in Nat, Len(z) \in Nat, NEW ns, Vouches(ns, s)
    PROVE  Vouches(ns, z)
  <1>1. ASSUME NEW i \in 1..Len(ns), ns[i].type = "rebase", NEW k \in 1..Len(ns[i].applied)
        PROVE  Vouched(ns, i, z, ns[i].applied[k])
    <2>1. Vouched(ns, i, s, ns[i].applied[k])
      BY <1>1, Zenon DEF Vouches, VouchedAll
    <2>2. \A j \in 1..(i - 1) : ns[j] = ns[j]
      OBVIOUS
    <2> DEFINE app == ns[i].applied[k]
    <2> HIDE DEF app
    <2>3. Vouched(ns, i, s, app) => Vouched(ns, i, z, app)
      BY <2>2, VouchedStays
    <2>4. QED
      BY <2>1, <2>3 DEF app
  <1>2. QED
    BY <1>1, Zenon DEF Vouches, VouchedAll

(* Where publishing begins.                                                *)
LEMMA ToPublish ==
    ASSUME TypesIInv, [Next]_vars, pc' = "publish"
    PROVE  Verified \/ RecordOverlay \/ Publish \/ UNCHANGED vars
  <1> USE DEF Go, Keep, Stop
  <1>1. ~(\/ RemoveDraftFiles \/ ReduceToHead \/ ResetOnto \/ OmitStep \/ PositionStep \/ AnchorStep \/ Advance
          \/ QueueDone \/ MaterializeOverlay \/ ReleaseAnchors \/ AbortReset \/ AbortRestore \/ RecordJoin \/ CommitJoin)
    BY DEF RemoveDraftFiles, ReduceToHead, ResetOnto, OmitStep, PositionStep, AnchorStep, Advance, QueueDone,
           MaterializeOverlay, ReleaseAnchors, AbortReset, AbortRestore, RecordJoin, CommitJoin
  <1>2. ~(Pause \/ Mismatch \/ OverlayMismatch \/ CommitFails \/ Crash \/ ClearJournal \/ AbortClear)
    BY DEF Pause, Mismatch, OverlayMismatch, CommitFails, Crash, ClearJournal, AbortClear
  <1>3. ~(\/ BeginStep \/ PickApplies \/ PickConflicts \/ StepBlocked \/ MergeApplies \/ MergeConflicts
          \/ MergeJoinsNothing \/ ApplyForecast \/ ContinuePick \/ AbsorbBlocked)
    <2>1. ~(PickApplies \/ PickConflicts \/ StepBlocked \/ AbsorbBlocked)
      BY DEF PickApplies, PickConflicts, StepBlocked, AbsorbBlocked
    <2>2. ~BeginStep
      <3>1. BeginStep => pc # "idle" /\ MoreSteps /\ pc' = NextStep.kind
        BY DEF BeginStep
      <3>2. pc # "idle" /\ MoreSteps => NextStep.kind \in {"pick", "omit", "merge"}
        BY OperationTrue
      <3>3. QED
        BY <3>1, <3>2
    <2>3. ~(MergeApplies \/ MergeConflicts \/ MergeJoinsNothing \/ ApplyForecast \/ ContinuePick)
      BY DEF MergeApplies, MergeConflicts, MergeJoinsNothing, ApplyForecast, ContinuePick
    <2>4. QED
      BY <2>1, <2>2, <2>3
  <1>4. ~(BeginAbsorption \/ AbsorbApplies \/ AbsorbConflicts \/ AdvanceCursor \/ Meld \/ FinishStep)
    BY DEF BeginAbsorption, AbsorbApplies, AbsorbConflicts, AdvanceCursor, Meld, FinishStep
  <1>5. ~(RecordApplication \/ RewordStep \/ EditStep)
    BY DEF RecordApplication, RewordStep, EditStep
  <1>6. ~(Begins \/ Continues \/ Abort)
    BY BeginsAnew, ContinuesTurn DEF Abort
  <1>7. CASE PersonStep \/ Forecasts
    BY <1>7, RestsAlone
  <1>8. QED
    BY <1>1, <1>2, <1>3, <1>4, <1>5, <1>6, <1>7, Zenon DEF Next, CommandStep

LEMMA ShownStep ==
    ASSUME TypesIInv, Shown, [Next]_vars
    PROVE  Shown'
  <1>1. SUFFICES ASSUME pc' = "publish", NEW i \in 1..Len(Publication(op)'), i < nextNote'
                 PROVE  Publication(op)'[i] \in Published'
    BY DEF Shown
  <1>2. CASE UNCHANGED vars
    <2>1. UNCHANGED <<pc, op, nextNote, notes, objs, branch, tip>>
      BY <1>2 DEF vars, gitVars, headVars, treeVars, procVars, histVars
    <2>2. Publication(op)' = Publication(op) /\ Published' = Published
      BY <2>1 DEF Publication, Receipt, HEAD, Absorbed, IsMerge, Reviewed, Published
    <2>3. QED
      BY <1>1, <2>1, <2>2 DEF Shown
  <1>3. CASE Verified \/ RecordOverlay
    <2>1. nextNote' = 1
      BY <1>3 DEF Verified, RecordOverlay, Journals, TypesIInv, RebaseIInv, PublishingTrue
    <2>2. QED
      BY <1>1, <2>1
  <1>4. CASE Publish
    <2>1. /\ pc = "publish" /\ UNCHANGED <<op, objs, branch, tip>>
          /\ notes' = Append(notes, Publication(op)[nextNote]) /\ nextNote' = nextNote + 1
      BY <1>4 DEF Publish, gitVars, headVars
    <2>2. Publication(op)' = Publication(op)
      BY <2>1 DEF Publication, Receipt, HEAD, Absorbed, IsMerge, Reviewed
    <2>3. Strung(notes) /\ nextNote \in Nat
      BY <2>1, Runs DEF TypesIInv, RebaseIInv, RebaseKinds
    <2>4. Published' = Published \cup {Publication(op)[nextNote]}
      <3>1. Len(notes') = Len(notes) + 1 /\ Len(notes) \in Nat /\ notes'[Len(notes) + 1] = Publication(op)[nextNote]
            /\ \A j \in 1..Len(notes) : notes'[j] = notes[j]
        BY <2>1, <2>3, StrungAppend, StrungTrue
      <3>2. QED
        BY <3>1 DEF Published
    <2>5. i < nextNote \/ i = nextNote
      BY <1>1, <2>1, <2>3
    <2>6. QED
      BY <1>1, <2>1, <2>2, <2>4, <2>5 DEF Shown
  <1>5. QED
    BY <1>1, <1>2, <1>3, <1>4, ToPublish

(* What a chain says, of which only the last record is a receipt.          *)
LEMMA ChainTells ==
    ASSUME NEW o, Sound(o), NEW r, r.op = o.id, NEW p, p = Chain(o, r)
    PROVE  /\ Len(p) \in Nat /\ p[Len(p)] = r
           /\ \A i \in 1..Len(p) : i # Len(p) => p[i].type # "rebase"
           /\ \A j \in 1..Len(o.amendments) : \E i \in 1..Len(p) : i # Len(p) /\ p[i] =
                 [type |-> "amendment", op |-> o.id, of |-> o.amendments[j].of,
                  commit |-> o.amendments[j].commit, origin |-> o.amendments[j].origin]
           /\ \A j \in 1..Len(o.absorptions) : \E i \in 1..Len(p) : i # Len(p) /\ p[i] =
                 [type |-> "absorption", op |-> o.id, survivor |-> o.absorptions[j].survivor,
                  absorbed |-> o.absorptions[j].absorbed]
  BY ChainMade

(* A receipt comes after all that its operation declares.                  *)
LEMMA VouchesPublish ==
    ASSUME TypesIInv, Publish, Declares(op, objs), Shown, Vouches(notes, objs), Descent(objs)
    PROVE  Vouches(notes', objs')
  <1> DEFINE p == Publication(op)
             n == Len(notes)
  <1>1. /\ pc = "publish" /\ objs' = objs /\ nextNote' = nextNote + 1 /\ notes' = Append(notes, p[nextNote])
    BY DEF Publish, gitVars
  <1>2. /\ Strung(notes) /\ n \in Nat /\ Sound(op) /\ nextNote \in 1..Len(p) /\ nextNote \in Nat
    BY <1>1, Runs, StrungTrue DEF TypesIInv, RebaseIInv, RebaseKinds, PublishingTrue
  <1>3. /\ Len(notes') = n + 1 /\ notes'[n + 1] = p[nextNote] /\ \A j \in 1..n : notes'[j] = notes[j]
    BY <1>1, <1>2, StrungAppend
  <1>4. /\ Len(p) \in Nat /\ p[Len(p)] = Receipt(op)
        /\ \A i \in 1..Len(p) : i # Len(p) => p[i].type # "rebase"
        /\ \A j \in 1..Len(op.amendments) : \E i \in 1..Len(p) : i # Len(p) /\ p[i] =
              [type |-> "amendment", op |-> op.id, of |-> op.amendments[j].of,
               commit |-> op.amendments[j].commit, origin |-> op.amendments[j].origin]
        /\ \A j \in 1..Len(op.absorptions) : \E i \in 1..Len(p) : i # Len(p) /\ p[i] =
              [type |-> "absorption", op |-> op.id, survivor |-> op.absorptions[j].survivor,
               absorbed |-> op.absorptions[j].absorbed]
    <2>1. p = Chain(op, Receipt(op)) /\ Receipt(op).op = op.id
      BY PublicationChain
    <2> DEFINE r == Receipt(op)
    <2>2. p = Chain(op, r) /\ r.op = op.id /\ Sound(op)
      BY <1>2, <2>1
    <2> HIDE DEF p, r
    <2>3. QED
      BY <2>2, ChainTells DEF r
  <1>5. \A i \in 1..Len(p) : i < nextNote => \E j \in 1..n : notes[j] = p[i]
    BY <1>1 DEF Shown, Published
  <1> HIDE DEF p, n
  <1>6. ASSUME NEW i \in 1..n PROVE VouchedAll(notes', i, objs)
    <2>1. VouchedAll(notes, i, objs)
      BY <1>6 DEF Vouches, n
    <2>2. /\ notes'[i] = notes[i] /\ \A j \in 1..(i - 1) : notes'[j] = notes[j]
      BY <1>2, <1>3, <1>6
    <2>3. Lineage(objs) /\ Grows(objs, objs) /\ Len(objs) \in Nat
      BY StrungTrue DEF Descent, TypesIInv, Repository, Lineage, Grows
    <2>4. ASSUME notes'[i].type = "rebase", NEW k \in 1..Len(notes'[i].applied)
          PROVE  Vouched(notes', i, objs, notes'[i].applied[k])
      <3>1. Vouched(notes, i, objs, notes[i].applied[k]) /\ notes'[i].applied[k] = notes[i].applied[k]
        BY <2>1, <2>2, <2>4 DEF VouchedAll
      <3> DEFINE app == notes[i].applied[k]
      <3> HIDE DEF app
      <3>2. Vouched(notes, i, objs, app) => Vouched(notes', i, objs, app)
        BY <2>2, <2>3, VouchedStays
      <3>3. QED
        BY <3>1, <3>2 DEF app
    <2>5. QED
      BY <2>4, Zenon DEF VouchedAll
  <1>7. VouchedAll(notes', n + 1, objs)
    <2>1. CASE nextNote # Len(p)
      BY <1>2, <1>3, <1>4, <2>1 DEF VouchedAll
    <2>2. CASE nextNote = Len(p)
      <3>1. /\ \A i \in 1..Len(p) : i # Len(p) => i < nextNote
            /\ (n + 1) - 1 = n
        BY <1>2, <1>4, <2>2
      <3>2. notes'[n + 1].applied = op.applied
        BY <1>3, <1>4, <2>2, PublicationChain
      <3>3. \A x, h : Amends(op, h, x) =>
               \E j \in 1..n : notes'[j].type = "amendment" /\ notes'[j].commit = h /\ notes'[j].of = x
        <4>1. ASSUME NEW k \in 1..Len(op.amendments)
              PROVE  \E j \in 1..n : /\ notes'[j].type = "amendment"
                                     /\ notes'[j].commit = op.amendments[k].commit
                                     /\ notes'[j].of = op.amendments[k].of
          <5>1. PICK i \in 1..Len(p) : i # Len(p) /\ p[i] =
                   [type |-> "amendment", op |-> op.id, of |-> op.amendments[k].of,
                    commit |-> op.amendments[k].commit, origin |-> op.amendments[k].origin]
            BY <1>4
          <5>2. PICK j \in 1..n : notes[j] = p[i]
            BY <1>5, <3>1, <5>1
          <5>3. notes'[j] = p[i]
            BY <1>3, <5>2
          <5>4. QED
            BY <5>1, <5>3
        <4>2. QED
          BY <4>1 DEF Amends
      <3>4. \A h, e : TookIn(op, objs, h, e) =>
               \E j \in 1..n : /\ notes'[j].type = "absorption" /\ notes'[j].survivor = h
                              /\ \E d \in notes'[j].absorbed : d \in 1..Len(objs) /\ e \in Brought(objs, d)
        <4>1. ASSUME NEW k \in 1..Len(op.absorptions)
              PROVE  \E j \in 1..n : /\ notes'[j].type = "absorption"
                                     /\ notes'[j].survivor = op.absorptions[k].survivor
                                     /\ notes'[j].absorbed = op.absorptions[k].absorbed
          <5>1. PICK i \in 1..Len(p) : i # Len(p) /\ p[i] =
                   [type |-> "absorption", op |-> op.id, survivor |-> op.absorptions[k].survivor,
                    absorbed |-> op.absorptions[k].absorbed]
            BY <1>4
          <5>2. PICK j \in 1..n : notes[j] = p[i]
            BY <1>5, <3>1, <5>1
          <5>3. notes'[j] = p[i]
            BY <1>3, <5>2
          <5>4. QED
            BY <5>1, <5>3
        <4>2. ASSUME NEW h, NEW e, TookIn(op, objs, h, e)
              PROVE  \E j \in 1..n : /\ notes'[j].type = "absorption" /\ notes'[j].survivor = h
                                     /\ \E d \in notes'[j].absorbed : d \in 1..Len(objs) /\ e \in Brought(objs, d)
          <5>1. PICK k \in 1..Len(op.absorptions) :
                   /\ op.absorptions[k].survivor = h
                   /\ \E d \in op.absorptions[k].absorbed : d \in 1..Len(objs) /\ e \in Brought(objs, d)
            BY <4>2, Zenon DEF TookIn
          <5>2. PICK j \in 1..n : /\ notes'[j].type = "absorption"
                                  /\ notes'[j].survivor = op.absorptions[k].survivor
                                  /\ notes'[j].absorbed = op.absorptions[k].absorbed
            BY <4>1
          <5>3. QED
            BY <5>1, <5>2
        <4>3. QED
          BY <4>2
      <3>5. ASSUME NEW k \in 1..Len(op.applied)
            PROVE  Vouched(notes', n + 1, objs, op.applied[k])
        <4> DEFINE app == op.applied[k]
                   x == objs[app.origin].of
        <4>1. Warranted(op, objs, app)
          BY DEF Declares
        <4>2. /\ app.origin \in 1..Len(objs) /\ app.commit \in 1..Len(objs)
              /\ Edited(x) \in Brought(objs, app.commit) \ Brought(objs, app.origin) =>
                    Amends(op, app.commit, x) \/ TookIn(op, objs, app.commit, Edited(x))
          BY <4>1, Zenon DEF Warranted
        <4> HIDE DEF x
        <4>3. Edited(x) \in Brought(objs, app.commit) \ Brought(objs, app.origin) =>
                \E j \in 1..((n + 1) - 1) :
                    \/ notes'[j].type = "amendment" /\ notes'[j].commit = app.commit /\ notes'[j].of = x
                    \/ /\ notes'[j].type = "absorption" /\ notes'[j].survivor = app.commit
                       /\ \E d \in notes'[j].absorbed : d \in 1..Len(objs) /\ Edited(x) \in Brought(objs, d)
          <5> HIDE DEF app
          <5>1. Amends(op, app.commit, x) => \E j \in 1..n :
                    notes'[j].type = "amendment" /\ notes'[j].commit = app.commit /\ notes'[j].of = x
            BY <3>3
          <5>2. TookIn(op, objs, app.commit, Edited(x)) => \E j \in 1..n :
                    /\ notes'[j].type = "absorption" /\ notes'[j].survivor = app.commit
                    /\ \E d \in notes'[j].absorbed : d \in 1..Len(objs) /\ Edited(x) \in Brought(objs, d)
            BY <3>4
          <5>3. QED
            BY <3>1, <4>2, <5>1, <5>2, Zenon
        <4>4. QED
          BY <4>2, <4>3, Zenon DEF Vouched, x, app
      <3>6. QED
        BY <3>2, <3>5, Zenon DEF VouchedAll
    <2>3. QED
      BY <2>1, <2>2
  <1>8. \A i \in 1..Len(notes') : i \in 1..n \/ i = n + 1
    BY <1>2, <1>3
  <1>9. QED
    BY <1>1, <1>6, <1>7, <1>8, Zenon DEF Vouches

DeclaredIInv == HonestIInv /\ (~meddled => Divergence /\ Vouches(notes, objs)) /\ Shown

LEMMA DeclaredStep ==
    ASSUME DeclaredIInv, [Next]_vars
    PROVE  DeclaredIInv'
  <1>1. HonestIInv' /\ TypesIInv /\ Descent(objs)
    BY WorkStep, LinesStep, HonestStep DEF DeclaredIInv, HonestIInv, WorkIInv, LinesIInv
  <1>2. Shown'
    BY <1>1, ShownStep DEF DeclaredIInv
  <1>3. ASSUME ~meddled' PROVE Divergence' /\ Vouches(notes, objs)'
    <2>1. ~meddled
      BY <1>3, MeddledStays DEF DeclaredIInv, HonestIInv
    <2>2. Divergence'
      BY <1>3, DivergenceStep DEF DeclaredIInv
    <2>3. Vouches(notes, objs) /\ Divergence /\ Shown
      BY <2>1 DEF DeclaredIInv
    <2>4. Div
      BY <2>1, <2>3, <1>1 DEF DeclaredIInv, HonestIInv, LinesIInv, WorkIInv, Div, Hon, Ord, Bounded
    <2>5. CASE notes' = notes
      <3>1. Vouches(notes, objs')
        BY <2>3, <2>4, DivGrounds, VouchesStays
      <3>2. QED
        BY <2>2, <2>5, <3>1
    <2>6. CASE notes' # notes
      <3>1. Publish
        BY <2>6, OnlyPublish
      <3>2. Declares(op, objs)
        BY <2>3 DEF Divergence
      <3>3. QED
        BY <1>1, <2>2, <2>3, <3>1, <3>2, VouchesPublish
    <2>7. QED
      BY <2>5, <2>6
  <1>4. QED
    BY <1>1, <1>2, <1>3 DEF DeclaredIInv

LEMMA DeclaredInvariant == Spec => []DeclaredIInv
  <1>1. Init => DeclaredIInv
    <2>1. Init => HonestIInv /\ Divergence
      BY HonestStarts, WorkStarts, LinesStart, DivergenceStarts DEF HonestIInv
    <2>2. Init => notes = <<>> /\ pc = "idle"
      BY DEF Init
    <2>3. notes = <<>> => Vouches(notes, objs)
      BY DEF Vouches
    <2>4. QED
      BY <2>1, <2>2, <2>3 DEF DeclaredIInv, Shown
  <1>2. DeclaredIInv /\ [Next]_vars => DeclaredIInv'
    BY DeclaredStep
  <1>3. QED
    BY <1>1, <1>2, PTL DEF Spec

(* "edit keeps the identity while changing what it contains, so it         *)
(* publishes an amendment": in every history and for every program, the    *)
(* operations killed and continued included, a receipt vouches for a       *)
(* commit with an edit its original does not have only after the record of *)
(* that amendment, or of the absorption that brought the edit in. The      *)
(* exception is declared: a person who put work of his own into a paused   *)
(* step.                                                                   *)
THEOREM EditsAreDeclared == Spec => []DivergenceDeclared
  <1>1. ASSUME DeclaredIInv, ~meddled, NEW i \in 1..Len(notes), notes[i].type = "rebase",
               NEW k \in 1..Len(notes[i].applied)
        PROVE  LET app == notes[i].applied[k]
                   x == objs[app.origin].of IN
               Edited(x) \in Delta(app.commit) \ Delta(app.origin) =>
                   \E j \in 1..(i - 1) :
                       \/ /\ notes[j].type = "amendment"
                          /\ notes[j].commit = app.commit /\ notes[j].of = x
                       \/ /\ notes[j].type = "absorption" /\ notes[j].survivor = app.commit
                          /\ \E d \in notes[j].absorbed : Edited(x) \in Delta(d)
    <2>1. Vouched(notes, i, objs, notes[i].applied[k])
      BY <1>1, Zenon DEF DeclaredIInv, Vouches, VouchedAll
    <2>2. \A c : Delta(c) = Brought(objs, c)
      BY BroughtTrue
    <2>3. QED
      BY <2>1, <2>2, Zenon DEF Vouched
  <1>2. DeclaredIInv => DivergenceDeclared
    BY <1>1, Zenon DEF DivergenceDeclared
  <1>3. QED
    BY <1>2, DeclaredInvariant, PTL

-----------------------------------------------------------------------------

(* Names.  Two commits are alike if they carry one Change-Id.              *)
Alike(s, c, d) == s[c].named /\ s[d].named /\ s[c].of = s[d].of
Single(s, P) == \A c, d \in P : Alike(s, c, d) => c = d
Lacks(s, P, c) == \A d \in P : ~Alike(s, c, d)
Singles(s) == \A h \in 1..Len(s) : Single(s, s[h].past)

LEMMA AlikeTrue == \A c, d : SameName(c, d) <=> Alike(objs, c, d)
  BY DEF SameName, Alike

LEMMA AlikeStays ==
    ASSUME NEW s, NEW z, Grows(s, z)
    PROVE  /\ \A c, d \in 1..Len(s) : Alike(z, c, d) <=> Alike(s, c, d)
           /\ \A P \in SUBSET (1..Len(s)) :
                 /\ Single(s, P) => Single(z, P)
                 /\ \A c \in 1..Len(s) : Lacks(s, P, c) => Lacks(z, P, c)
  <1>1. \A c, d \in 1..Len(s) : Alike(z, c, d) <=> Alike(s, c, d)
    BY DEF Grows, Alike
  <1>2. QED
    BY <1>1 DEF Single, Lacks

(* A commit goes onto commits none of which bears its name.                *)
LEMMA SinglesGrow ==
    ASSUME NEW s, Lineage(s), Descent(s), Singles(s), NEW parents \in Seq(1..Len(s)), Len(parents) <= 2,
           NEW of, NEW named, NEW content, Single(s, Pasts(s, Among(parents))),
           named => \A d \in Pasts(s, Among(parents)) : ~(s[d].named /\ s[d].of = of)
    PROVE  Singles(Append(s, Made(s, parents, of, named, content)))
  <1> DEFINE e == Made(s, parents, of, named, content)
             z == Append(s, e)
             n == Len(s) + 1
             P == Pasts(s, Among(parents))
  <1>1. Len(s) \in Nat /\ Strung(s)
    BY StrungTrue DEF Lineage
  <1>2. Grows(s, z) /\ Len(z) = n /\ z[n].past = {n} \cup P
    BY DescentGrows
  <1>3. z[n] = e
    <2> HIDE DEF e
    <2>1. QED
      BY <1>1, StrungAppend
  <1>4. z[n].of = of /\ z[n].named = named
    <2>1. e.of = of /\ e.named = named
      BY DEF Made
    <2> HIDE DEF e, z
    <2>2. QED
      BY <1>3, <2>1
  <1>5. P \subseteq 1..Len(s)
    <2>1. \A p \in Among(parents) : p \in 1..Len(s)
      BY LenProperties DEF Among
    <2>2. \A p \in 1..Len(s) : s[p].past \subseteq 1..Len(s)
      BY PastTrue
    <2>3. QED
      BY <2>1, <2>2 DEF Pasts
  <1>6. Single(s, P) /\ (named => \A d \in P : ~(s[d].named /\ s[d].of = of))
    OBVIOUS
  <1> HIDE DEF e, z, P
  <1>7. \A d \in P : z[d] = s[d] /\ d # n
    BY <1>1, <1>2, <1>5 DEF Grows
  <1>8. Single(z, z[n].past)
    <2>1. Single(z, P)
      BY <1>2, <1>5, <1>6, AlikeStays
    <2>2. \A d \in P : ~Alike(z, n, d) /\ ~Alike(z, d, n)
      BY <1>4, <1>6, <1>7 DEF Alike
    <2>3. QED
      BY <1>2, <2>1, <2>2 DEF Single
  <1>9. ASSUME NEW h \in 1..Len(s) PROVE Single(z, z[h].past)
    <2>1. s[h].past \subseteq 1..Len(s) /\ z[h] = s[h]
      BY <1>2, PastTrue DEF Grows
    <2>2. QED
      BY <1>2, <2>1, AlikeStays DEF Singles
  <1>10. \A h \in 1..Len(z) : h = n \/ h \in 1..Len(s)
    BY <1>1, <1>2
  <1>11. Singles(z)
    BY <1>8, <1>9, <1>10, Zenon DEF Singles
  <1>12. QED
    BY <1>11 DEF z, e

(* What commits an operation may have in a past: those of the new base, and*)
(* by their names those it made, each for the step it stands for.          *)
Proper(o, s, P) ==
    \A d \in P : \/ d \in s[o.onto].past
                 \/ ~s[d].named
                 \/ \E j \in 1..Len(o.queue) :
                       /\ j < o.next /\ o.queue[j].kind = "pick"
                       /\ o.rewritten[o.queue[j].commit] = d /\ Alike(s, o.queue[j].commit, d)

(* No two steps are alike, and the new base lacks the names of those that  *)
(* are picked.                                                             *)
Fresh(o, s) ==
    /\ \A i \in 1..Len(o.queue) : o.queue[i].kind = "pick" => Lacks(s, s[o.onto].past, o.queue[i].commit)
    /\ \A i, j \in 1..Len(o.queue) : Alike(s, o.queue[i].commit, o.queue[j].commit) => i = j
Lineal(o, s) == \A i \in 1..Len(o.queue) : i < o.next => Proper(o, s, s[o.rewritten[o.queue[i].commit]].past)

LEMMA ProperTrue ==
    ASSUME NEW o, NEW s, NEW P, Proper(o, s, P), Fresh(o, s), Single(s, s[o.onto].past), o.next \in Nat
    PROVE  /\ Single(s, P)
           /\ \A i \in 1..Len(o.queue) : i >= o.next /\ o.queue[i].kind = "pick" => Lacks(s, P, o.queue[i].commit)
  <1> DEFINE q == o.queue
             N == Len(q)
             B == s[o.onto].past
             Of(j, d) == /\ j < o.next /\ q[j].kind = "pick"
                         /\ o.rewritten[q[j].commit] = d /\ Alike(s, q[j].commit, d)
  <1>1. \A d \in P : s[d].named => d \in B \/ \E j \in 1..N : Of(j, d)
    BY Zenon DEF Proper
  <1>2. \A c, d : Alike(s, c, d) => s[c].named /\ s[d].named /\ Alike(s, d, c)
    BY DEF Alike
  <1>3. /\ \A i \in 1..N : q[i].kind = "pick" => \A d \in B : ~Alike(s, q[i].commit, d)
        /\ \A i, j \in 1..N : Alike(s, q[i].commit, q[j].commit) => i = j
    BY DEF Fresh, Lacks
  <1>4. \A c, d \in B : Alike(s, c, d) => c = d
    BY DEF Single
  <1>5. ASSUME NEW c \in P, NEW d \in P, Alike(s, c, d) PROVE c = d
    <2>1. CASE c \in B /\ d \in B
      BY <1>4, <1>5, <2>1
    <2>2. ASSUME NEW x \in B, NEW y, Alike(s, x, y), NEW j \in 1..N, Of(j, y) PROVE FALSE
      <3>1. Alike(s, q[j].commit, y) /\ q[j].kind = "pick"
        BY <2>2
      <3>2. Alike(s, q[j].commit, x)
        BY <2>2, <3>1 DEF Alike
      <3>3. QED
        BY <1>3, <3>1, <3>2
    <2>3. ASSUME NEW i \in 1..N, Of(i, c), NEW j \in 1..N, Of(j, d) PROVE c = d
      <3>1. Alike(s, q[i].commit, c) /\ Alike(s, q[j].commit, d) /\ o.rewritten[q[i].commit] = c /\ o.rewritten[q[j].commit] = d
        BY <2>3
      <3>2. Alike(s, q[i].commit, q[j].commit)
        BY <1>5, <3>1 DEF Alike
      <3>3. i = j
        BY <1>3, <3>2
      <3>4. QED
        BY <3>1, <3>3
    <2> HIDE DEF Of, q, N, B
    <2>4. QED
      BY <1>1, <1>2, <1>5, <2>1, <2>2, <2>3, Zenon
  <1>6. ASSUME NEW i \in 1..N, i >= o.next, q[i].kind = "pick", NEW d \in P, Alike(s, q[i].commit, d) PROVE FALSE
    <2>1. CASE d \in B
      BY <1>3, <1>6, <2>1
    <2>2. ASSUME NEW j \in 1..N, Of(j, d) PROVE FALSE
      <3>1. Alike(s, q[j].commit, d) /\ j < o.next
        BY <2>2
      <3>2. Alike(s, q[i].commit, q[j].commit)
        BY <1>6, <3>1 DEF Alike
      <3>3. i = j
        BY <1>3, <3>2
      <3> HIDE DEF q, N, B
      <3>4. QED
        BY <1>6, <3>1, <3>3
    <2> HIDE DEF Of, q, N, B
    <2>3. QED
      BY <1>1, <1>2, <1>6, <2>1, <2>2, Zenon
  <1>7. QED
    BY <1>5, <1>6 DEF Single, Lacks

LEMMA ProperStays ==
    ASSUME NEW s, NEW z, Grows(s, z), NEW o, Typed(o, Len(s)), o.id # 0, NEW p, Carried(o, p),
           NEW P \in SUBSET (1..Len(s)), Proper(o, s, P)
    PROVE  Proper(p, z, P)
  <1>1. o.onto \in 1..Len(s) /\ \A j \in 1..Len(o.queue) : o.queue[j].commit \in 1..Len(s)
    <2>1. o.onto \in 1..Len(s)
      BY DEF Typed, NoCommit
    <2>2. QED
      BY <2>1, QueueWithin DEF Within
  <1>2. p.queue = o.queue /\ p.next = o.next /\ p.rewritten = o.rewritten /\ p.onto = o.onto
    BY DEF Carried, Same
  <1>3. ASSUME NEW d \in P
        PROVE  \/ d \in z[p.onto].past
               \/ ~z[d].named
               \/ \E j \in 1..Len(p.queue) : /\ j < p.next /\ p.queue[j].kind = "pick"
                                             /\ p.rewritten[p.queue[j].commit] = d /\ Alike(z, p.queue[j].commit, d)
    <2>1. z[o.onto] = s[o.onto] /\ z[d] = s[d]
      BY <1>1 DEF Grows
    <2>2. \A j \in 1..Len(o.queue) : Alike(z, o.queue[j].commit, d) <=> Alike(s, o.queue[j].commit, d)
      BY <1>1, AlikeStays
    <2>3. QED
      BY <1>2, <2>1, <2>2 DEF Proper
  <1>4. QED
    BY <1>3 DEF Proper

LEMMA FreshStays ==
    ASSUME NEW s, NEW z, Lineage(s), Descent(s), Grows(s, z), NEW o, Typed(o, Len(s)), o.id # 0, NEW p, Same(o, p),
           Fresh(o, s)
    PROVE  Fresh(p, z)
  <1>1. o.onto \in 1..Len(s) /\ \A j \in 1..Len(o.queue) : o.queue[j].commit \in 1..Len(s)
    <2>1. o.onto \in 1..Len(s)
      BY DEF Typed, NoCommit
    <2>2. QED
      BY <2>1, QueueWithin DEF Within
  <1>2. p.queue = o.queue /\ p.onto = o.onto
    BY DEF Same
  <1>3. z[o.onto] = s[o.onto] /\ s[o.onto].past \in SUBSET (1..Len(s))
    BY <1>1, PastTrue DEF Grows
  <1>4. ASSUME NEW i \in 1..Len(o.queue), o.queue[i].kind = "pick"
        PROVE  Lacks(z, z[o.onto].past, o.queue[i].commit)
    <2>1. Lacks(s, s[o.onto].past, o.queue[i].commit)
      BY <1>4 DEF Fresh
    <2> DEFINE P == s[o.onto].past
               c == o.queue[i].commit
    <2>2. Lacks(s, P, c) /\ P \in SUBSET (1..Len(s)) /\ c \in 1..Len(s) /\ z[o.onto].past = P
      BY <1>1, <1>3, <2>1
    <2> HIDE DEF P, c
    <2>3. Lacks(z, P, c)
      BY <2>2, AlikeStays
    <2>4. QED
      BY <2>2, <2>3 DEF c
  <1>5. ASSUME NEW i \in 1..Len(o.queue), NEW j \in 1..Len(o.queue), Alike(z, o.queue[i].commit, o.queue[j].commit)
        PROVE  i = j
    <2>1. Alike(s, o.queue[i].commit, o.queue[j].commit)
      BY <1>1, <1>5, AlikeStays
    <2>2. QED
      BY <2>1 DEF Fresh
  <1>6. QED
    BY <1>2, <1>4, <1>5 DEF Fresh

LEMMA LinealStays ==
    ASSUME NEW s, NEW z, Lineage(s), Descent(s), Grows(s, z), NEW o, Typed(o, Len(s)), o.id # 0,
           NEW p, Carried(o, p), Lineal(o, s)
    PROVE  Lineal(p, z)
  <1>1. p.queue = o.queue /\ p.next = o.next /\ p.rewritten = o.rewritten
    BY DEF Carried, Same
  <1>2. ASSUME NEW i \in 1..Len(o.queue), i < o.next
        PROVE  Proper(p, z, z[o.rewritten[o.queue[i].commit]].past)
    <2> DEFINE h == o.rewritten[o.queue[i].commit]
    <2>1. h \in 1..Len(s)
      BY <1>2, QueueWithin DEF Within
    <2>2. Proper(o, s, s[h].past)
      BY <1>2 DEF Lineal
    <2> HIDE DEF h
    <2>3. z[h] = s[h] /\ s[h].past \in SUBSET (1..Len(s))
      BY <2>1, PastTrue DEF Grows
    <2>4. Proper(p, z, s[h].past)
      BY <2>2, <2>3, ProperStays
    <2>5. QED
      BY <2>3, <2>4 DEF h
  <1>3. QED
    BY <1>1, <1>2 DEF Lineal

(* What a step states as its parents is on the new base or was rewritten.  *)
LEMMA ParentsProper ==
    ASSUME NEW s, NEW o, Typed(o, Len(s)), o.next <= Len(o.queue), Lineal(o, s),
           NEW k \in 1..Len(o.queue[o.next].parents)
    PROVE  Proper(o, s, s[Mapped(o, o.queue[o.next].parents[k])].past)
  <1> DEFINE q == o.queue[o.next].parents[k]
  <1>1. Within(o, Len(s)) /\ o.next \in 1..Len(o.queue)
    <2>1. Within(o, Len(s))
      BY QueueWithin
    <2>2. QED
      BY <2>1 DEF Within
  <1>2. CASE q = NoCommit
    <2>1. Mapped(o, q) = o.onto
      BY <1>2 DEF Mapped
    <2> HIDE DEF q
    <2>2. Proper(o, s, s[Mapped(o, q)].past)
      BY <2>1 DEF Proper
    <2>3. QED
      BY <2>2 DEF q
  <1>3. CASE q # NoCommit
    <2>1. PICK j \in 1..Len(o.queue) : j < o.next /\ o.queue[j].commit = q
      BY <1>1, <1>3 DEF Within
    <2>2. Mapped(o, q) = o.rewritten[q]
      BY <1>3, Zenon DEF Mapped
    <2> HIDE DEF q
    <2>3. Proper(o, s, s[o.rewritten[q]].past)
      BY <2>1 DEF Lineal
    <2>4. QED
      BY <2>2, <2>3 DEF q
  <1>4. QED
    BY <1>2, <1>3

(* One more step is done, as a commit with a past that is proper: what it  *)
(* adds to what was proper is unnamed, or stands for the step.             *)
Adopts(o, s, h) ==
    LET step == o.queue[o.next] IN
    \E P : /\ Proper(o, s, P)
           /\ \A d \in s[h].past \ P : ~s[d].named \/ (d = h /\ step.kind = "pick" /\ Alike(s, step.commit, h))

LEMMA LinealOn ==
    ASSUME NEW s, Len(s) \in Nat, NEW o, Typed(o, Len(s)), Drawn(o.queue, s), o.next <= Len(o.queue), Lineal(o, s),
           NEW h, Adopts(o, s, h), NEW p, Maps(o, p, h)
    PROVE  Lineal(p, s)
  <1> DEFINE q == o.queue
             N == Len(q)
             x == o.next
             c == q[x].commit
  <1>0. /\ Same(o, p) /\ p.next = o.next + 1 /\ p.rewritten = [o.rewritten EXCEPT ![c] = h]
    BY Zenon DEF Maps
  <1>1. /\ N \in Nat /\ x \in Nat /\ x >= 1 /\ x \in 1..N
        /\ \A i \in 1..N : q[i].commit \in 1..Len(s)
    <2>1. Within(o, Len(s))
      BY QueueWithin
    <2>2. QED
      BY <2>1 DEF Within
  <1>2. \A i, j \in 1..N : i < j => q[i].commit < q[j].commit
    BY DEF Drawn
  <1>3. \A i \in 1..N : q[i].commit \in DOMAIN o.rewritten
    BY DEF Typed, Mapping
  <1>4. ASSUME NEW i \in 1..N, i < x PROVE q[i].commit # c
    <2>1. q[i].commit < c /\ q[i].commit \in Nat
      BY <1>1, <1>2, <1>4
    <2>2. QED
      BY <2>1
  <1>5. /\ p.rewritten[c] = h /\ p.queue = q /\ p.onto = o.onto /\ c = q[x].commit
        /\ \A i \in 1..N : i < x => p.rewritten[q[i].commit] = o.rewritten[q[i].commit]
    BY <1>0, <1>1, <1>3, <1>4 DEF Same
  <1>6. (\A i \in 1..N : i < p.next => i < x \/ i = x) /\ x < p.next /\ \A i \in 1..N : i < x => i < p.next
    BY <1>0, <1>1
  <1>7. ASSUME NEW P, Proper(o, s, P) PROVE Proper(p, s, P)
    <2>1. ASSUME NEW d \in P, d \notin s[o.onto].past, s[d].named
          PROVE  \E j \in 1..N : /\ j < p.next /\ q[j].kind = "pick"
                                 /\ p.rewritten[q[j].commit] = d /\ Alike(s, q[j].commit, d)
      <3>1. PICK j \in 1..N : /\ j < x /\ q[j].kind = "pick"
                              /\ o.rewritten[q[j].commit] = d /\ Alike(s, q[j].commit, d)
        BY <1>7, <2>1 DEF Proper
      <3> HIDE DEF q, N, x, c
      <3>2. QED
        BY <1>5, <1>6, <3>1
    <2>2. QED
      BY <1>5, <2>1 DEF Proper
  <1>8. Proper(p, s, s[h].past)
    <2>1. PICK P : /\ Proper(o, s, P)
                   /\ \A d \in s[h].past \ P : ~s[d].named \/ (d = h /\ q[x].kind = "pick" /\ Alike(s, c, h))
      BY Zenon DEF Adopts
    <2>2. Proper(p, s, P)
      BY <1>7, <2>1
    <2> HIDE DEF q, N, x, c
    <2>3. ASSUME NEW d \in s[h].past
          PROVE  \/ d \in s[p.onto].past
                 \/ ~s[d].named
                 \/ \E j \in 1..Len(p.queue) : /\ j < p.next /\ p.queue[j].kind = "pick"
                                               /\ p.rewritten[p.queue[j].commit] = d /\ Alike(s, p.queue[j].commit, d)
      <3>1. CASE d \in P
        BY <2>2, <3>1 DEF Proper
      <3>2. CASE d \notin P /\ s[d].named
        <4>1. d = h /\ q[x].kind = "pick" /\ Alike(s, c, d)
          BY <2>1, <3>2
        <4>2. QED
          BY <1>1, <1>5, <1>6, <4>1 DEF N
      <3>3. QED
        BY <3>1, <3>2
    <2>4. QED
      BY <2>3 DEF Proper
  <1>9. ASSUME NEW i \in 1..N, i < p.next PROVE Proper(p, s, s[p.rewritten[q[i].commit]].past)
    <2>1. CASE i < x
      <3>1. Proper(o, s, s[o.rewritten[q[i].commit]].past)
        BY <2>1 DEF Lineal
      <3>2. QED
        BY <1>5, <1>7, <2>1, <3>1
    <2>2. CASE i = x
      BY <1>5, <1>8, <2>2
    <2>3. QED
      BY <1>6, <1>9, <2>1, <2>2
  <1>10. QED
    BY <1>5, <1>9 DEF Lineal

(* What the steps made stands for them; what Git has pending would not     *)
(* repeat a name of HEAD's past, nor join two commits alike; and HEAD is   *)
(* the commit of the step that is being finished.                          *)
Bears(o, s, h) ==
    LET step == o.queue[o.next] IN step.kind = "pick" /\ (s[h].named => Alike(s, step.commit, h))

Tracing == Fresh(journal, objs) /\ Lineal(journal, objs) /\ (pc \in Moving => Lineal(op, objs))
InGit ==
    /\ branch # "main" /\ (~Still /\ Pending => branch = journal.branch)
    /\ cp # NoCommit => Lacks(objs, objs[HEAD].past, cp)
    /\ mh # NoCommit => Single(objs, objs[HEAD].past \cup objs[mh].past)
Borne ==
    /\ Awaits(journal.state) /\ ~undoing => Bears(journal, objs, Home)
    /\ pc \in Carries \/ Listens => Bears(op, objs, HEAD)
    /\ pc = "record-join" => ~objs[HEAD].named

Unique == Singles(objs) /\ Tracing /\ InGit /\ Borne
Uniq == Topo /\ Unique

LEMMA NamesGrounds ==
    ASSUME Uniq, [Next]_vars, pc \in {"queue"} \cup Stepping
    PROVE  /\ Fresh(op, objs) /\ Lineal(op, objs) /\ op.id # 0 /\ Typed(op, Len(objs)) /\ op.next \in Nat
           /\ Single(objs, objs[op.onto].past)
           /\ MoreSteps => \A k \in 1..Len(NextStep.parents) :
                 Proper(op, objs, objs[Mapped(op, NextStep.parents[k])].past)
  <1>1. Topo /\ pc # "idle"
    BY DEF Uniq, Stepping
  <1>2. /\ Lineage(objs) /\ Descent(objs) /\ Grows(objs, objs) /\ Typed(journal, Len(objs)) /\ Typed(op, Len(objs))
        /\ op.id # 0 /\ journal.id = op.id
    BY <1>1, TopoGrounds DEF Grows, Same
  <1>3. Carried(journal, op)
    BY <1>1, TopoGrounds DEF Starting, Carried, Same
  <1>4. Fresh(op, objs) /\ Lineal(op, objs)
    BY <1>2, <1>3, FreshStays, LinealStays DEF Uniq, Unique, Tracing, Carried
  <1>5. op.onto \in 1..Len(objs)
    BY <1>2 DEF Typed, NoCommit
  <1>6. Single(objs, objs[op.onto].past)
    BY <1>5 DEF Uniq, Unique, Singles
  <1>7. op.next \in Nat
    BY <1>2, QueueWithin DEF Within
  <1>8. MoreSteps => \A k \in 1..Len(NextStep.parents) :
            Proper(op, objs, objs[Mapped(op, NextStep.parents[k])].past)
    BY <1>2, <1>4, ParentsProper DEF MoreSteps, NextStep
  <1>9. QED
    BY <1>2, <1>4, <1>6, <1>7, <1>8

(* The commits a step was begun on have no name twice, and that of a pick  *)
(* not at all.                                                             *)
LEMMA BeforeUnique ==
    ASSUME Uniq, [Next]_vars, pc \in Stepping
    PROVE  LET b == op.current.before
               m == op.current.joins
               c == op.current.commit IN
           /\ b \in 1..Len(objs) /\ c \in 1..Len(objs) /\ c = NextStep.commit /\ NextStep = op.queue[op.next]
           /\ op.next \in 1..Len(op.queue) /\ MoreSteps
           /\ Proper(op, objs, objs[b].past) /\ Single(objs, objs[b].past)
           /\ NextStep.kind = "pick" => Lacks(objs, objs[b].past, c)
           /\ NextStep.kind = "merge" => /\ m \in 1..Len(objs) /\ Proper(op, objs, objs[m].past)
                                         /\ Single(objs, objs[b].past \cup objs[m].past)
  <1> DEFINE b == op.current.before
             m == op.current.joins
             c == op.current.commit
  <1>1. Topo /\ pc # "idle" /\ TypesIInv
    BY TopoGrounds DEF Uniq, Stepping
  <1>2. MoreSteps /\ AtStep(op) /\ op.next \in 1..Len(op.queue) /\ NextStep.commit \in Objects
    BY <1>1, OperationTrue
  <1>3. c = NextStep.commit /\ c \in 1..Len(objs) /\ NextStep = op.queue[op.next]
    BY <1>2 DEF AtStep, NextStep, Objects
  <1>4. Placed(op) /\ b = Mapped(op, NextStep.parents[1]) /\ (NextStep.kind = "merge" => m = Mapped(op, NextStep.parents[2]))
    <2>1. Lined
      BY <1>1, TopoRebuilt
    <2>2. Placed(journal) /\ Level(journal, op)
      BY <2>1, InStepTrue
    <2>3. Placed(op)
      BY <2>2, Levelled
    <2>4. QED
      BY <1>3, <2>3 DEF Placed
  <1>5. Len(NextStep.parents) \in {1, 2} /\ (NextStep.kind = "merge" => Len(NextStep.parents) = 2)
    BY <1>1, <1>2, TopoRebuilt
  <1>6. 1 \in 1..Len(NextStep.parents) /\ (NextStep.kind = "merge" => 2 \in 1..Len(NextStep.parents))
    <2> DEFINE n == Len(NextStep.parents)
    <2>1. n \in {1, 2} /\ (NextStep.kind = "merge" => n = 2)
      BY <1>5
    <2> HIDE DEF n
    <2>2. 1 \in 1..n /\ (n = 2 => 2 \in 1..n)
      BY <2>1
    <2>3. QED
      BY <2>1, <2>2 DEF n
  <1>7. /\ Fresh(op, objs) /\ Typed(op, Len(objs)) /\ op.id # 0 /\ op.next \in Nat /\ Single(objs, objs[op.onto].past)
        /\ \A k \in 1..Len(NextStep.parents) : Proper(op, objs, objs[Mapped(op, NextStep.parents[k])].past)
    BY <1>2, NamesGrounds
  <1>8. \A k \in 1..Len(NextStep.parents) : Mapped(op, NextStep.parents[k]) \in 1..Len(objs)
    BY <1>1, <1>2, <1>3, <1>7, MappedTrue, TopoGrounds DEF MoreSteps
  <1> HIDE DEF b, m, c
  <1>9. b \in 1..Len(objs) /\ Proper(op, objs, objs[b].past)
    BY <1>4, <1>6, <1>7, <1>8
  <1>10. NextStep.kind = "merge" => m \in 1..Len(objs) /\ Proper(op, objs, objs[m].past)
    BY <1>4, <1>6, <1>7, <1>8
  <1>11. Single(objs, objs[b].past) /\ (NextStep.kind = "pick" => Lacks(objs, objs[b].past, c))
    <2>1. op.next >= op.next
      BY <1>7
    <2>2. QED
      BY <1>2, <1>3, <1>7, <1>9, <2>1, ProperTrue
  <1>12. NextStep.kind = "merge" => Single(objs, objs[b].past \cup objs[m].past)
    <2>1. NextStep.kind = "merge" => Proper(op, objs, objs[b].past \cup objs[m].past)
      BY <1>9, <1>10 DEF Proper
    <2>2. QED
      BY <1>7, <2>1, ProperTrue
  <1>13. QED
    BY <1>2, <1>3, <1>9, <1>10, <1>11, <1>12 DEF b, m, c

(* A new plan takes no commit whose name the new base has.                 *)
LEMMA QueueFresh ==
    ASSUME Len(objs) \in Nat, NEW head, NEW onto, NEW program, Single(objs, objs[head].past)
    PROVE  LET q == Queue(head, onto, program) IN
           /\ \A i \in 1..Len(q) : q[i].kind = "pick" => Lacks(objs, objs[onto].past, q[i].commit)
           /\ \A i, j \in 1..Len(q) : Alike(objs, q[i].commit, q[j].commit) => i = j
  <1> DEFINE q == Queue(head, onto, program)
             range == ResolveRange(head, onto)
             S == (objs[head].past \ objs[onto].past) \cap 1..Len(objs)
  <1>1. /\ Ordered(range, S) /\ Len(range) \in Nat /\ Len(q) = Len(range)
        /\ \A i \in 1..Len(range) : q[i].commit = range[i]
    <2>1. Ordered(range, S)
      BY QueueSteps, Zenon
    <2>2. Len(range) \in Nat /\ Len(q) = Len(range)
      BY QueueSteps, Zenon
    <2>3. \A i \in 1..Len(range) : q[i].commit = range[i]
      BY DEF Queue
    <2>4. QED
      BY <2>1, <2>2, <2>3
  <1>2. \A i \in 1..Len(range) : q[i].kind = Kind(onto, program, range[i])
    BY DEF Queue
  <1>3. ASSUME NEW c, Kind(onto, program, c) = "pick" PROVE Lacks(objs, objs[onto].past, c)
    <2>1. Survives(Action(onto, program, c))
      BY <1>3 DEF Kind
    <2>2. ~Covered(onto, c) /\ ~Candidate(onto, c)
      BY <2>1 DEF Survives, Action
    <2>3. ~NamedIn(onto, c)
      BY <2>2 DEF Candidate
    <2>4. \A d \in objs[onto].past : ~SameName(c, d)
      BY <2>3, Zenon DEF NamedIn
    <2>5. QED
      BY <2>4, AlikeTrue DEF Lacks
  <1> HIDE DEF q, range
  <1>4. ASSUME NEW i \in 1..Len(range), NEW j \in 1..Len(range), Alike(objs, range[i], range[j]) PROVE i = j
    <2>1. range \in Seq(S)
      BY <1>1 DEF Ordered
    <2> HIDE DEF S
    <2>2. range[i] \in S /\ range[j] \in S
      BY <2>1, LenProperties
    <2>3. range[i] \in objs[head].past /\ range[j] \in objs[head].past /\ range[i] \in Nat /\ range[j] \in Nat
      BY <2>2 DEF S
    <2>4. range[i] = range[j]
      BY <1>4, <2>3 DEF Single
    <2>5. \A k, l \in 1..Len(range) : k < l => range[k] < range[l]
      BY <1>1 DEF Ordered
    <2>6. ~(i < j) /\ ~(j < i)
      BY <2>3, <2>4, <2>5
    <2>7. QED
      BY <1>1, <2>6
  <1>5. \A i \in 1..Len(q) : q[i].kind = "pick" => Lacks(objs, objs[onto].past, q[i].commit)
    BY <1>1, <1>2, <1>3
  <1>6. \A i, j \in 1..Len(q) : Alike(objs, q[i].commit, q[j].commit) => i = j
    BY <1>1, <1>4
  <1>7. QED
    BY <1>5, <1>6, Zenon DEF q

LEMMA FreshBegun ==
    ASSUME TypesIInv, Singles(objs), Begins
    PROVE  Fresh(op', objs) /\ op'.next = 1 /\ journal' = op' /\ objs' = objs /\ pc' \in {"reset", "reduce"}
  <1>1. PICK request \in asks[ops + 1], accept \in BOOLEAN : Begin(request, accept)
    BY Zenon DEF Begins
  <1> DEFINE onto == tip["main"]
             queue == Queue(HEAD, onto, request.program)
             rewritten == [c \in {queue[i].commit : i \in 1..Len(queue)} |-> NoCommit]
             on == branch
             head == HEAD
             draft == request.overlay
             approved == request.forecasted
             number == ops + 1
             begun == NewOperation(number, on, head, onto, queue, rewritten, draft, approved)
  <1>2. op' = begun /\ journal' = begun /\ objs' = objs /\ pc' \in {"reset", "reduce"}
    BY <1>1 DEF Begin, Write, Go, NewOperation, gitVars
  <1>3. Len(objs) \in Nat /\ Single(objs, objs[HEAD].past)
    BY CommitsTrue DEF TypesIInv, Singles, Objects
  <1>4. /\ \A i \in 1..Len(queue) : queue[i].kind = "pick" => Lacks(objs, objs[onto].past, queue[i].commit)
        /\ \A i, j \in 1..Len(queue) : Alike(objs, queue[i].commit, queue[j].commit) => i = j
    BY <1>3, QueueFresh, Zenon
  <1> HIDE DEF onto, queue, on, head, draft, approved, number, rewritten
  <1>5. BegunAs(begun, number, on, head, onto, queue, rewritten, draft, approved)
    BY Begun, Zenon
  <1> HIDE DEF begun
  <1>6. begun.queue = queue /\ begun.onto = onto /\ begun.next = 1
    BY <1>5, Zenon DEF BegunAs
  <1>7. Fresh(begun, objs)
    BY <1>4, <1>6 DEF Fresh
  <1>8. QED
    BY <1>2, <1>6, <1>7

LEMMA PastsOf ==
    ASSUME NEW s, NEW b, NEW m
    PROVE  /\ Pasts(s, Among(<<b>>)) = s[b].past
           /\ Pasts(s, Among(<<b, m>>)) = s[b].past \cup s[m].past
  <1>1. Among(<<b>>) = {b}
    BY DEF Among
  <1>2. Among(<<b, m>>) = {b, m}
    <2>1. Among(<<b, m>>) = {<<b, m>>[k] : k \in 1..2}
      BY DEF Among
    <2>2. 1..2 = {1, 2} /\ <<b, m>>[1] = b /\ <<b, m>>[2] = m
      OBVIOUS
    <2>3. QED
      BY <2>1, <2>2
  <1>3. QED
    BY <1>1, <1>2 DEF Pasts

(* The plan that is journaled.                                             *)
LEMMA TracingKept ==
    ASSUME Uniq, [Next]_vars
    PROVE  Fresh(journal', objs') /\ Lineal(journal', objs')
  <1>1. Topo /\ Fresh(journal, objs) /\ Lineal(journal, objs) /\ Singles(objs)
    BY DEF Uniq, Unique, Tracing
  <1>2. /\ TypesIInv /\ Grows(objs, objs') /\ Lineage(objs) /\ Descent(objs)
        /\ Typed(journal, Len(objs)) /\ Typed(op, Len(objs)) /\ (pc # "idle" => op.id # 0 /\ Same(journal, op))
    BY <1>1, TopoGrounds
  <1>3. \A o : Len(o.queue) = 0 => \A s : Fresh(o, s) /\ Lineal(o, s)
    BY DEF Fresh, Lineal
  <1>4. Len(NoOperation.queue) = 0
    BY DEF NoOperation
  <1>5. CASE Begins
    <2>1. Fresh(op', objs) /\ op'.next = 1 /\ journal' = op' /\ objs' = objs
      BY <1>1, <1>2, <1>5, FreshBegun
    <2>2. QED
      BY <2>1 DEF Lineal
  <1>6. CASE Advance
    <2>1. journal' = op /\ pc \in Moving /\ pc # "idle"
      BY <1>6 DEF Advance, Moving
    <2>2. Lineal(op, objs) /\ Carried(op, op)
      BY <2>1 DEF Uniq, Unique, Tracing, Carried, Same
    <2>3. journal.id # 0
      BY <1>2, <2>1 DEF Same
    <2>4. QED
      BY <1>1, <1>2, <2>1, <2>2, <2>3, FreshStays, LinealStays
  <1>7. CASE ~Begins /\ ~Advance
    <2>1. Carried(journal, journal') \/ journal' = NoOperation
      BY <1>1, <1>7, JournalCarried
    <2>2. CASE journal' = NoOperation
      BY <1>3, <1>4, <2>2
    <2>3. CASE Carried(journal, journal') /\ ~Pending
      <3>1. Len(journal'.queue) = 0
        BY <1>4, <2>3 DEF Pending, Carried, Same
      <3>2. QED
        BY <1>3, <3>1
    <2>4. CASE Carried(journal, journal') /\ Pending
      <3>1. journal.id # 0
        <4>1. journal.id \in 1..ops /\ ops \in Nat
          BY <1>2, <2>4 DEF TypesIInv, RebaseIInv, Journaled, RebaseKinds
        <4>2. QED
          BY <4>1
      <3>2. QED
        BY <1>1, <1>2, <2>4, <3>1, FreshStays, LinealStays DEF Carried
    <2>5. QED
      BY <2>1, <2>2, <2>3, <2>4
  <1>8. QED
    BY <1>5, <1>6, <1>7

(* A step that is done has become a commit that stands for it.             *)
LEMMA TracingEnds ==
    ASSUME Uniq, [Next]_vars, OmitStep \/ RecordApplication \/ RecordJoin, pc' \in Moving
    PROVE  Lineal(op', objs')
  <1> USE DEF Thinks, Keep, Go, gitVars, headVars
  <1>1. /\ (pc = "queue" /\ OmitStep /\ MoreSteps) \/ pc \in {"record", "record-join"}
        /\ pc \in {"queue"} \cup Stepping /\ pc # "idle" /\ objs' = objs
    BY DEF OmitStep, RecordApplication, RecordJoin, Stepping
  <1>2. Topo /\ Honest
    BY DEF Uniq, Topo, Hon
  <1>3. MoreSteps /\ op.next <= Len(op.queue) /\ NextStep = op.queue[op.next]
    <2>1. MoreSteps
      BY <1>1, <1>2, TopoGrounds, OperationTrue
    <2>2. QED
      BY <2>1 DEF MoreSteps, NextStep
  <1>4. /\ Drawn(op.queue, objs) /\ op.next \in 1..Len(op.queue)
        /\ NextStep.kind # "merge" => Len(NextStep.parents) = 1
    BY <1>1, <1>2, <1>3, TopoRebuilt
  <1>5. /\ Sound(op) /\ Typed(op, Len(objs)) /\ Len(objs) \in Nat /\ Descent(objs) /\ HEAD \in 1..Len(objs)
    BY <1>1, <1>2, TopoGrounds
  <1>6. /\ Lineal(op, objs)
        /\ \A k \in 1..Len(NextStep.parents) : Proper(op, objs, objs[Mapped(op, NextStep.parents[k])].past)
    BY <1>1, <1>3, NamesGrounds
  <1>7. ASSUME NEW h, Adopts(op, objs, h), Maps(op, op', h) PROVE Lineal(op', objs')
    BY <1>1, <1>3, <1>4, <1>5, <1>6, <1>7, LinealOn
  <1>8. CASE OmitStep
    <2> DEFINE h == Mapped(op, NextStep.parents[1])
    <2>1. op' = [op EXCEPT !.rewritten[NextStep.commit] = h, !.next = @ + 1] /\ NextStep.kind = "omit"
      BY <1>8, Zenon DEF OmitStep
    <2>2. Adopts(op, objs, h)
      <3>1. Len(NextStep.parents) = 1
        BY <1>4, <2>1
      <3>2. 1 \in 1..Len(NextStep.parents)
        BY <3>1
      <3>3. Proper(op, objs, objs[h].past)
        BY <1>6, <3>2
      <3> HIDE DEF h
      <3>4. QED
        BY <3>3 DEF Adopts
    <2> HIDE DEF h
    <2>3. Maps(op, op', h)
      BY <1>3, <1>5, <2>1 DEF Maps, Sound, Shaped, Same
    <2>4. QED
      BY <1>7, <2>2, <2>3
  <1>9. CASE pc \in {"record", "record-join"}
    <2> DEFINE h == HEAD
               c == op.current.commit
               b == op.current.before
               m == op.current.joins
    <2>1. /\ c = NextStep.commit /\ Proper(op, objs, objs[b].past)
          /\ NextStep.kind = "merge" => Proper(op, objs, objs[m].past)
      BY <1>9, BeforeUnique DEF Stepping
    <2>2. objs[h].past = {h} \cup Pasts(objs, Among(objs[h].parents))
      BY <1>5 DEF Descent
    <2>3. CASE RecordApplication
      <3>1. pc = "record" /\ op' = Recorded(op)
        BY <2>3, Zenon DEF RecordApplication, Moving
      <3>2. objs[h].past = {h} \cup objs[b].past
        <4>1. objs[h].parents = <<b>>
          BY <1>2, <3>1 DEF Honest, On
        <4> HIDE DEF h, b
        <4>2. Pasts(objs, Among(<<b>>)) = objs[b].past
          BY PastsOf
        <4>3. QED
          BY <2>2, <4>1, <4>2
      <3>3. Bears(op, objs, h)
        BY <3>1 DEF Uniq, Unique, Borne, Carries
      <3>4. Adopts(op, objs, h)
        <4> HIDE DEF h, b
        <4>1. \A d \in objs[h].past \ objs[b].past : d = h
          BY <3>2
        <4>2. QED
          BY <1>3, <2>1, <3>3, <4>1 DEF Adopts, Bears
      <3> DEFINE app == [origin |-> c, commit |-> h, fork |-> op.current.fork]
                 ab == [survivor |-> h, absorbed |-> Elements(op.queue[op.next].absorbs)]
                 abs == IF op.current.cursor = 0 THEN op.absorptions ELSE Append(op.absorptions, ab)
      <3>5. op' = [op EXCEPT !.applied = Append(@, app), !.absorptions = abs, !.rewritten[c] = h,
                             !.next = @ + 1, !.current = NoCurrent, !.state = "applying"]
        BY <3>1, Zenon DEF Recorded
      <3> HIDE DEF app, ab, abs, h, c
      <3>6. Maps(op, op', h)
        BY <1>3, <1>5, <2>1, <3>5 DEF Maps, Sound, Shaped, Same
      <3>7. QED
        BY <1>7, <3>4, <3>6
    <2>4. CASE RecordJoin
      <3> DEFINE j == [origin |-> c, commit |-> h, parents |-> <<b, m>>]
      <3>1. /\ op' = [op EXCEPT !.joins = Append(@, j), !.rewritten[c] = h, !.next = @ + 1,
                                !.current = NoCurrent, !.state = "applying"]
            /\ pc = "record-join"
        BY <2>4, Zenon DEF RecordJoin
      <3>2. objs[h].past = {h} \cup (objs[b].past \cup objs[m].past)
        <4>1. objs[h].parents = <<b, m>>
          BY <1>2, <3>1 DEF Honest
        <4> HIDE DEF h, b, m
        <4>2. Pasts(objs, Among(<<b, m>>)) = objs[b].past \cup objs[m].past
          BY PastsOf
        <4>3. QED
          BY <2>2, <4>1, <4>2
      <3>3. ~objs[h].named /\ NextStep.kind = "merge"
        BY <1>2, <3>1 DEF Uniq, Unique, Borne, Topo, Topological
      <3> HIDE DEF j, h, c, b, m
      <3>4. Adopts(op, objs, h)
        <4>1. \A d \in objs[h].past \ (objs[b].past \cup objs[m].past) : d = h
          BY <3>2
        <4>2. Proper(op, objs, objs[b].past \cup objs[m].past)
          BY <2>1, <3>3 DEF Proper
        <4>3. QED
          BY <3>3, <4>1, <4>2 DEF Adopts
      <3>5. Maps(op, op', h)
        BY <1>3, <1>5, <2>1, <3>1 DEF Maps, Sound, Shaped, Same
      <3>6. QED
        BY <1>7, <3>4, <3>5
    <2>5. QED
      BY <1>9, <2>3, <2>4 DEF OmitStep
  <1>10. QED
    BY <1>1, <1>8, <1>9

(* A step is done by these.                                                *)
LEMMA ToMoving ==
    ASSUME TypesIInv, [Next]_vars, pc' \in Moving
    PROVE  OmitStep \/ RecordApplication \/ RecordJoin \/ AnchorStep \/ UNCHANGED vars
  <1> USE DEF Go, Stop, Moving
  <1>1. ~(\/ RemoveDraftFiles \/ ReduceToHead \/ ResetOnto \/ Advance \/ QueueDone \/ MaterializeOverlay \/ ReleaseAnchors
          \/ AbortReset \/ AbortRestore \/ CommitJoin \/ Verified \/ RecordOverlay \/ Publish)
    BY DEF RemoveDraftFiles, ReduceToHead, ResetOnto, Advance, QueueDone, MaterializeOverlay, ReleaseAnchors,
           AbortReset, AbortRestore, CommitJoin, Verified, RecordOverlay, Publish
  <1>2. ~(Pause \/ Mismatch \/ OverlayMismatch \/ CommitFails \/ Crash \/ ClearJournal \/ AbortClear)
    BY DEF Pause, Mismatch, OverlayMismatch, CommitFails, Crash, ClearJournal, AbortClear
  <1>3. ~(PickApplies \/ PickConflicts \/ StepBlocked \/ AbsorbBlocked)
    BY DEF PickApplies, PickConflicts, StepBlocked, AbsorbBlocked
  <1>4. ~(PositionStep \/ BeginStep)
    <2>1. PositionStep \/ BeginStep => pc # "idle" /\ MoreSteps /\ (pc' = NextStep.kind \/ pc' = "queue")
      BY DEF PositionStep, BeginStep
    <2>2. pc # "idle" /\ MoreSteps => NextStep.kind \in {"pick", "omit", "merge"}
      BY OperationTrue
    <2>3. QED
      BY <2>1, <2>2
  <1>5. ~(MergeApplies \/ MergeConflicts \/ MergeJoinsNothing \/ ApplyForecast \/ ContinuePick)
    BY DEF MergeApplies, MergeConflicts, MergeJoinsNothing, ApplyForecast, ContinuePick
  <1>6. ~(AbsorbApplies \/ AbsorbConflicts \/ AdvanceCursor \/ Meld \/ FinishStep \/ BeginAbsorption)
    BY DEF BeginAbsorption, AbsorbApplies, AbsorbConflicts, AdvanceCursor, Meld, FinishStep
  <1>7. ~(RewordStep \/ EditStep)
    BY DEF RewordStep, EditStep
  <1>8. ~(Begins \/ Continues \/ Abort)
    BY BeginsAnew, ContinuesTurn DEF Abort
  <1>9. CASE PersonStep \/ Forecasts
    BY <1>9, RestsAlone
  <1>10. QED
    BY <1>1, <1>2, <1>3, <1>4, <1>5, <1>6, <1>7, <1>8, <1>9, Zenon DEF Next, CommandStep

LEMMA TracingStep ==
    ASSUME Uniq, [Next]_vars
    PROVE  Tracing'
  <1>1. Topo /\ TypesIInv /\ Grows(objs, objs') /\ Lineage(objs) /\ Descent(objs) /\ Typed(op, Len(objs))
    BY TopoGrounds DEF Uniq
  <1>2. ASSUME pc' \in Moving PROVE Lineal(op', objs')
    <2>1. CASE OmitStep \/ RecordApplication \/ RecordJoin
      BY <1>2, <2>1, TracingEnds
    <2>2. CASE AnchorStep \/ UNCHANGED vars
      <3>1. pc \in Moving /\ UNCHANGED <<op, objs>>
        BY <1>2, <2>2 DEF AnchorStep, Moving, gitVars, procVars, vars
      <3>2. QED
        BY <3>1 DEF Uniq, Unique, Tracing
    <2>3. QED
      BY <1>1, <1>2, <2>1, <2>2, ToMoving
  <1>3. QED
    BY <1>2, TracingKept DEF Tracing

(* A commit is made: under a name that what it goes onto has not.          *)
LEMMA GoesOnto ==
    ASSUME Uniq, [Next]_vars, NEW b \in 1..Len(objs), NEW of, NEW named, NEW content,
           named => \A d \in objs[b].past : ~(objs[d].named /\ objs[d].of = of),
           objs' = Append(objs, Made(objs, <<b>>, of, named, content))
    PROVE  Singles(objs')
  <1> DEFINE parents == <<b>>
  <1>1. Lineage(objs) /\ Descent(objs) /\ Singles(objs)
    BY TopoGrounds DEF Uniq, Unique
  <1>2. Pasts(objs, Among(parents)) = objs[b].past
    BY PastsOf
  <1>3. parents \in Seq(1..Len(objs)) /\ Len(parents) <= 2
    OBVIOUS
  <1>4. Single(objs, objs[b].past)
    BY <1>1 DEF Singles
  <1>5. objs' = Append(objs, Made(objs, parents, of, named, content))
    OBVIOUS
  <1> HIDE DEF parents
  <1>6. QED
    BY <1>1, <1>2, <1>3, <1>4, <1>5, SinglesGrow

LEMMA GoesOntoBoth ==
    ASSUME Uniq, [Next]_vars, NEW b \in 1..Len(objs), NEW m \in 1..Len(objs), NEW of, NEW content,
           Single(objs, objs[b].past \cup objs[m].past),
           objs' = Append(objs, Made(objs, <<b, m>>, of, FALSE, content))
    PROVE  Singles(objs')
  <1> DEFINE parents == <<b, m>>
  <1>1. Lineage(objs) /\ Descent(objs) /\ Singles(objs)
    BY TopoGrounds DEF Uniq, Unique
  <1>2. Pasts(objs, Among(parents)) = objs[b].past \cup objs[m].past
    BY PastsOf
  <1>3. parents \in Seq(1..Len(objs)) /\ Len(parents) <= 2
    OBVIOUS
  <1>4. objs' = Append(objs, Made(objs, parents, of, FALSE, content))
    OBVIOUS
  <1> HIDE DEF parents
  <1>5. QED
    BY <1>1, <1>2, <1>3, <1>4, SinglesGrow

LEMMA LacksName ==
    ASSUME NEW s, NEW P, NEW c, Lacks(s, P, c)
    PROVE  s[c].named => \A d \in P : ~(s[d].named /\ s[d].of = s[c].of)
  BY DEF Lacks, Alike

(* No step of the command, and nothing that the person does in the open,   *)
(* makes a commit with a name that its past has.                           *)
LEMMA SinglesStep ==
    ASSUME Uniq, [Next]_vars, ~meddled'
    PROVE  Singles(objs')
  <1> DEFINE c == op.current.commit
             b == op.current.before
             m == op.current.joins
  <1>1. /\ Topo /\ Settled /\ Honest /\ TypesIInv /\ Repository /\ HEAD \in 1..Len(objs) /\ Len(objs) \in Nat
        /\ Singles(objs) /\ InGit /\ Borne
    <2>1. Topo /\ Settled /\ Honest /\ Hon
      BY DEF Uniq, Topo, Hon, Ord
    <2>2. HEAD \in 1..Len(objs)
      BY <2>1, HonestGrounds
    <2>3. QED
      BY <2>1, <2>2, TopoGrounds DEF Uniq, Unique
  <1>2. CASE objs' = objs
    BY <1>1, <1>2
  <1>3. CASE PickApplies \/ ContinuePick
    <2>1. pc \in Stepping /\ NextStep.kind = "pick" /\ (pc = "pick" \/ Waiting)
      BY <1>1, <1>3 DEF PickApplies, ContinuePick, TypesIInv, Standing, Stepping, Settled, Waiting
    <2>2. HEAD = b
      BY <1>1, <2>1 DEF Settled
    <2>3. Lacks(objs, objs[b].past, c)
      BY <2>1, BeforeUnique
    <2> HIDE DEF c, b
    <2>4. Lacks(objs, objs[HEAD].past, c)
      BY <2>2, <2>3
    <2>5. objs[c].named => \A d \in objs[HEAD].past : ~(objs[d].named /\ objs[d].of = objs[c].of)
      BY <2>4, LacksName
    <2>6. \/ objs' = Append(objs, Made(objs, <<HEAD>>, objs[c].of, objs[c].named, Delta(c)))
          \/ objs' = Append(objs, Made(objs, <<HEAD>>, objs[c].of, objs[c].named /\ ~op.current.fork, index))
      BY <1>3 DEF PickApplies, ContinuePick, AddCommit, c
    <2> DEFINE named == objs[c].named /\ ~op.current.fork
    <2>7. named => \A d \in objs[HEAD].past : ~(objs[d].named /\ objs[d].of = objs[c].of)
      BY <2>5
    <2>8. \/ objs' = Append(objs, Made(objs, <<HEAD>>, objs[c].of, objs[c].named, Delta(c)))
          \/ objs' = Append(objs, Made(objs, <<HEAD>>, objs[c].of, named, index))
      BY <2>6
    <2> HIDE DEF named
    <2>9. QED
      BY <1>1, <2>5, <2>7, <2>8, GoesOnto
  <1>4. CASE CommitJoin
    <2>1. pc \in Stepping /\ NextStep.kind = "merge" /\ (pc = "join" \/ Waiting)
      BY <1>1, <1>4 DEF CommitJoin, Stepping, Settled, Waiting
    <2>2. HEAD = b /\ mh = m
      BY <1>1, <2>1 DEF Settled, Stops, NextStep
    <2>3. m \in 1..Len(objs) /\ Single(objs, objs[b].past \cup objs[m].past)
      BY <2>1, BeforeUnique
    <2>4. objs' = Append(objs, Made(objs, <<HEAD, mh>>, None, FALSE, index))
      BY <1>4 DEF CommitJoin, AddCommit
    <2> HIDE DEF b, m
    <2>5. mh \in 1..Len(objs) /\ Single(objs, objs[HEAD].past \cup objs[mh].past)
      BY <2>2, <2>3
    <2>6. QED
      BY <1>1, <2>4, <2>5, GoesOntoBoth
  <1>5. CASE Meld \/ RewordStep \/ EditStep
    <2>1. pc \in Stepping /\ pc \in {"absorb", "reword", "edit"}
      BY <1>5, Zenon DEF Meld, RewordStep, EditStep, Stepping
    <2>2. Bears(op, objs, HEAD) /\ objs[HEAD].parents = <<b>>
      BY <1>1, <2>1 DEF Borne, Carries, Honest, On
    <2>3. b \in 1..Len(objs) /\ NextStep.kind = "pick" /\ Lacks(objs, objs[b].past, c) /\ c = NextStep.commit
      BY <2>1, <2>2, BeforeUnique DEF Bears, NextStep
    <2>4. objs[HEAD].named => objs[c].named /\ objs[HEAD].of = objs[c].of
      BY <2>2, <2>3 DEF Bears, Alike, NextStep
    <2>5. ASSUME NEW of, NEW named, NEW content, Amend(of, named, content)
          PROVE  objs' = Append(objs, Made(objs, <<b>>, of, named, objs[HEAD].tree \cup content))
      BY <2>2, <2>5 DEF Amend, AddCommit
    <2> HIDE DEF b, c
    <2>6. objs[c].named => \A d \in objs[b].past : ~(objs[d].named /\ objs[d].of = objs[c].of)
      BY <2>3, LacksName
    <2>7. objs[HEAD].named => \A d \in objs[b].past : ~(objs[d].named /\ objs[d].of = objs[HEAD].of)
      BY <2>4, <2>6
    <2>8. \E content : Amend(objs[c].of, objs[c].named, content) \/ Amend(objs[HEAD].of, objs[HEAD].named, content)
      BY <1>5, Zenon DEF Meld, RewordStep, EditStep, c
    <2>9. PICK content : Amend(objs[c].of, objs[c].named, content) \/ Amend(objs[HEAD].of, objs[HEAD].named, content)
      BY <2>8
    <2> DEFINE whole == objs[HEAD].tree \cup content
    <2>10. \/ objs' = Append(objs, Made(objs, <<b>>, objs[c].of, objs[c].named, whole))
           \/ objs' = Append(objs, Made(objs, <<b>>, objs[HEAD].of, objs[HEAD].named, whole))
      BY <2>5, <2>9
    <2> HIDE DEF whole
    <2>11. QED
      BY <2>3, <2>6, <2>7, <2>10, GoesOnto
  <1>6. CASE GitContinue
    <2>1. CASE cp # NoCommit
      <3>1. objs' = Append(objs, Made(objs, <<HEAD>>, objs[cp].of, objs[cp].named, index))
        BY <1>6, <2>1 DEF GitContinue, AddCommit
      <3>2. Lacks(objs, objs[HEAD].past, cp)
        BY <1>1, <2>1 DEF InGit
      <3>3. QED
        BY <1>1, <3>1, <3>2, LacksName, GoesOnto
    <2>2. CASE cp = NoCommit
      <3>1. mh # NoCommit /\ objs' = Append(objs, Made(objs, <<HEAD, mh>>, None, FALSE, index))
        BY <1>6, <2>2 DEF GitContinue, AddCommit
      <3>2. mh \in 1..Len(objs)
        BY <1>1, <3>1 DEF Repository, NoCommit
      <3>3. Single(objs, objs[HEAD].past \cup objs[mh].past)
        BY <1>1, <3>1 DEF InGit
      <3>4. QED
        BY <1>1, <3>1, <3>2, <3>3, GoesOntoBoth
    <2>3. QED
      BY <2>1, <2>2
  <1>7. CASE CommitOwn
    <2>1. objs' = Append(objs, Made(objs, <<HEAD>>, None, FALSE, {AsWritten(None)}))
      BY <1>7 DEF CommitOwn, AddCommit
    <2>2. QED
      BY <1>1, <2>1, GoesOnto
  <1>8. CASE MainMoves
    <2> DEFINE h == tip["main"]
    <2>1. objs' = Append(objs, Made(objs, <<h>>, None, FALSE, {}))
      BY <1>8 DEF MainMoves
    <2>2. h \in 1..Len(objs)
      BY <1>1 DEF Repository, Branch, Objects
    <2> HIDE DEF h
    <2>3. QED
      BY <2>1, <2>2, GoesOnto
  <1>9. ~CommitAbsorbed
    BY DEF CommitAbsorbed
  <1>10. QED
    BY <1>2, <1>3, <1>4, <1>5, <1>6, <1>7, <1>8, <1>9, ObjectsKept DEF Commits

(* What Git has pending, on which branch.                                  *)
LEMMA InGitBranch ==
    ASSUME Uniq, [Next]_vars
    PROVE  branch' # "main" /\ (~Still' /\ Pending' => branch' = journal'.branch)
  <1>1. /\ Topo /\ Settled /\ TypesIInv /\ branch # "main"
        /\ ~Still /\ Pending => branch = journal.branch
    BY TopoGrounds DEF Uniq, Unique, InGit, Topo, Hon, Ord
  <1>2. ASSUME CommandStep \/ Crash
        PROVE  branch' = branch /\ pc # "idle" /\ ~Begins
    <2> USE DEF Works, Thinks, Journals, Stop, gitVars, headVars, AddCommit, Amend
    <2>1. ~Begins \/ pc = "idle"
      BY BeginsAnew, <1>1
    <2>2. CASE \/ RemoveDraftFiles \/ ReduceToHead \/ ResetOnto \/ OmitStep \/ PositionStep \/ BeginStep
               \/ PickApplies \/ PickConflicts \/ StepBlocked \/ MergeApplies \/ MergeConflicts \/ MergeJoinsNothing
      BY <2>1, <2>2 DEF RemoveDraftFiles, ReduceToHead, ResetOnto, OmitStep, PositionStep, BeginStep,
         PickApplies, PickConflicts, StepBlocked, MergeApplies, MergeConflicts, MergeJoinsNothing
    <2>3. CASE \/ Pause \/ ApplyForecast \/ Mismatch \/ ContinuePick \/ CommitJoin
               \/ BeginAbsorption \/ AbsorbApplies \/ AbsorbConflicts \/ AbsorbBlocked \/ AdvanceCursor \/ Meld
      BY <2>1, <2>3 DEF Pause, ApplyForecast, Mismatch, ContinuePick, CommitJoin,
         BeginAbsorption, AbsorbApplies, AbsorbConflicts, AbsorbBlocked, AdvanceCursor, Meld
    <2>4. CASE \/ FinishStep \/ RecordApplication \/ RecordJoin \/ AnchorStep \/ Advance
               \/ QueueDone \/ Verified \/ MaterializeOverlay \/ RecordOverlay \/ OverlayMismatch
      BY <2>1, <2>4 DEF FinishStep, RecordApplication, RecordJoin, AnchorStep, Advance,
         QueueDone, Verified, MaterializeOverlay, RecordOverlay, OverlayMismatch
    <2>5. CASE \/ Publish \/ ReleaseAnchors \/ ClearJournal \/ CommitFails
               \/ AbortReset \/ AbortRestore \/ AbortClear \/ Crash
      BY <2>1, <2>5 DEF Publish, ReleaseAnchors, ClearJournal, CommitFails, AbortReset, AbortRestore, AbortClear, Crash
    <2>6. CASE RewordStep \/ EditStep
      <3>1. pc \in {"reword", "edit"} /\ branch' = branch
        BY <2>6, Zenon DEF RewordStep, EditStep
      <3>2. QED
        BY <2>1, <3>1
    <2>7. QED
      BY <1>2, <2>2, <2>3, <2>4, <2>5, <2>6, Zenon DEF CommandStep
  <1>3. CASE CommandStep \/ Crash
    <2>1. branch' = branch /\ branch = journal.branch /\ journal.branch = op.branch /\ ~Begins
      BY <1>1, <1>2, <1>3, RunsOn
    <2>2. Carried(journal, journal') \/ journal' = NoOperation \/ journal' = op
      BY <1>1, <2>1, JournalCarried DEF Advance
    <2>3. Pending' => journal'.branch = journal.branch
      BY <2>1, <2>2 DEF Pending, Carried, Same
    <2>4. QED
      BY <1>1, <2>1, <2>3
  <1>4. CASE Begins \/ Abort
    <2>1. Still' /\ branch' = branch
      BY <1>1, <1>4, BeginsAnew DEF Abort, Still, headVars
    <2>2. QED
      BY <1>1, <2>1
  <1>5. CASE Continues
    <2>1. pc' # "idle" /\ Settled' /\ Turned(journal, journal') /\ Pending
      BY <1>1, <1>5, ContinuesTurn, SettledStep
    <2>2. journal'.branch = journal.branch
      BY <2>1, TurnedSame DEF Same
    <2>3. QED
      BY <1>1, <2>1, <2>2 DEF Settled
  <1>6. CASE PersonStep \/ Forecasts \/ UNCHANGED vars
    <2> USE DEF Outside, Acts, ActsIf, AtRest, procVars, gitVars, headVars, treeVars, vars
    <2>1. journal' = journal
      BY <1>6, RestsAlone
    <2>2. (branch' = branch /\ (Still => Still')) \/ (branch' # "main" /\ Still')
      <3>1. CASE Resolve \/ ThrowAway \/ Edit \/ CaptureDraft \/ CleanUp \/ Forecasts \/ MainMoves \/ UNCHANGED vars
        BY <3>1 DEF Resolve, ThrowAway, Edit, CaptureDraft, CleanUp, Forecasts, Forecast, MainMoves, Still
      <3>2. CASE GitContinue \/ GitAbandon \/ CommitAbsorbed \/ CommitOwn
        BY <3>2 DEF GitContinue, GitAbandon, CommitAbsorbed, CommitOwn, Still
      <3>3. CASE \E b \in Branch : Checkout(b) \/ Land(b)
        <4>1. PICK b \in Branch : Checkout(b) \/ Land(b)
          BY <3>3
        <4>2. QED
          BY <4>1 DEF Checkout, Land, Still
      <3>4. CASE GoBack
        <4>1. Pending /\ branch # journal.branch /\ branch' = journal.branch /\ UNCHANGED <<cp, mh>>
          BY <3>4 DEF GoBack
        <4>2. QED
          BY <1>1, <4>1 DEF Settled, Still
      <3>5. QED
        BY <1>6, <3>1, <3>2, <3>3, <3>4, Zenon DEF PersonStep
    <2>3. QED
      BY <1>1, <2>1, <2>2 DEF Pending
  <1>7. QED
    BY <1>3, <1>4, <1>5, <1>6, Zenon DEF Next

(* What Git has pending on HEAD stays what it was, or goes.                *)
InGitAt == /\ cp # NoCommit => Lacks(objs, objs[HEAD].past, cp)
           /\ mh # NoCommit => Single(objs, objs[HEAD].past \cup objs[mh].past)

LEMMA InGitStays ==
    ASSUME Uniq, [Next]_vars, Still' \/ (HEAD' = HEAD /\ cp' \in {cp, NoCommit} /\ mh' \in {mh, NoCommit})
    PROVE  InGitAt'
  <1>1. CASE Still'
    BY <1>1 DEF Still, InGitAt
  <1>2. CASE HEAD' = HEAD /\ cp' \in {cp, NoCommit} /\ mh' \in {mh, NoCommit}
    <2>1. Grows(objs, objs') /\ Repository /\ Lineage(objs) /\ Descent(objs) /\ HEAD \in 1..Len(objs)
      <3>1. HEAD \in 1..Len(objs)
        BY HonestGrounds DEF Uniq, Topo
      <3>2. QED
        BY <3>1, TopoGrounds DEF Uniq
    <2>2. objs'[HEAD] = objs[HEAD] /\ objs[HEAD].past \in SUBSET (1..Len(objs))
      BY <2>1, PastTrue DEF Grows
    <2>3. ASSUME cp' # NoCommit PROVE Lacks(objs', objs'[HEAD'].past, cp')
      <3> DEFINE P == objs[HEAD].past
      <3>1. cp' = cp /\ cp \in 1..Len(objs) /\ Lacks(objs, P, cp)
        BY <1>2, <2>1, <2>3 DEF Repository, NoCommit, Uniq, Unique, InGit
      <3>2. P \in SUBSET (1..Len(objs)) /\ objs'[HEAD'].past = P
        BY <1>2, <2>2
      <3> HIDE DEF P
      <3>3. Lacks(objs', P, cp)
        BY <2>1, <3>1, <3>2, AlikeStays
      <3>4. QED
        BY <3>1, <3>2, <3>3
    <2>4. ASSUME mh' # NoCommit PROVE Single(objs', objs'[HEAD'].past \cup objs'[mh'].past)
      <3> DEFINE P == objs[HEAD].past \cup objs[mh].past
      <3>1. mh' = mh /\ mh \in 1..Len(objs) /\ Single(objs, P)
        BY <1>2, <2>1, <2>4 DEF Repository, NoCommit, Uniq, Unique, InGit
      <3>2. objs'[mh] = objs[mh] /\ objs[mh].past \in SUBSET (1..Len(objs))
        BY <2>1, <3>1, PastTrue DEF Grows
      <3>3. P \in SUBSET (1..Len(objs)) /\ objs'[HEAD'].past \cup objs'[mh'].past = P
        BY <1>2, <2>2, <3>1, <3>2
      <3> HIDE DEF P
      <3>4. Single(objs', P)
        BY <2>1, <3>1, <3>3, AlikeStays
      <3>5. QED
        BY <3>3, <3>4
    <2>5. QED
      BY <2>3, <2>4 DEF InGitAt
  <1>3. QED
    BY <1>1, <1>2

LEMMA InGitStep ==
    ASSUME Uniq, [Next]_vars
    PROVE  InGit'
  <1> SUFFICES InGitAt'
    BY InGitBranch DEF InGit, InGitAt
  <1> USE DEF Works, Thinks, Journals, Stop, gitVars, headVars, treeVars
  <1>1. Topo /\ Settled /\ TypesIInv
    BY TopoGrounds DEF Uniq, Topo, Hon, Ord
  <1>2. Still \/ pc \in {"idle", "join", "paused", "batch", "continue"}
    BY <1>1 DEF Settled
  <1>3. CASE \/ RemoveDraftFiles \/ ReduceToHead \/ ResetOnto \/ OmitStep \/ PositionStep \/ BeginStep
             \/ PickApplies \/ MergeJoinsNothing \/ BeginAbsorption \/ AbsorbApplies \/ AbsorbConflicts
             \/ AbsorbBlocked \/ AdvanceCursor \/ Meld \/ FinishStep \/ RecordApplication \/ RecordJoin
    <2>1. UNCHANGED <<cp, mh>> /\ pc \notin {"idle", "join", "paused", "batch", "continue"}
      BY <1>3 DEF RemoveDraftFiles, ReduceToHead, ResetOnto, OmitStep, PositionStep, BeginStep,
         PickApplies, MergeJoinsNothing, BeginAbsorption, AbsorbApplies, AbsorbConflicts,
         AbsorbBlocked, AdvanceCursor, Meld, FinishStep, RecordApplication, RecordJoin
    <2>2. QED
      BY <1>2, <2>1, InGitStays DEF Still
  <1>4. CASE \/ AnchorStep \/ Advance \/ QueueDone \/ Verified \/ MaterializeOverlay \/ RecordOverlay
             \/ OverlayMismatch \/ Publish \/ ReleaseAnchors \/ ClearJournal \/ RewordStep \/ EditStep
             \/ AbortReset \/ AbortRestore \/ AbortClear
    <2>1. UNCHANGED <<cp, mh>> /\ pc \notin {"idle", "join", "paused", "batch", "continue"}
      BY <1>4 DEF AnchorStep, Advance, QueueDone, Verified, MaterializeOverlay, RecordOverlay,
         OverlayMismatch, Publish, ReleaseAnchors, ClearJournal, RewordStep, EditStep, AbortReset,
         AbortRestore, AbortClear
    <2>2. QED
      BY <1>2, <2>1, InGitStays DEF Still
  <1>5. CASE \/ Pause \/ ApplyForecast \/ Mismatch \/ CommitFails \/ Crash \/ Continues \/ Begins \/ Forecasts
             \/ Resolve \/ ThrowAway \/ Edit \/ CaptureDraft \/ CleanUp \/ UNCHANGED vars
    <2>1. UNCHANGED <<branch, tip, cp, mh>>
      <3>1. CASE Begins
        BY <1>1, <3>1, BeginsAnew
      <3>2. CASE \/ Pause \/ ApplyForecast \/ Mismatch \/ CommitFails \/ Crash \/ Forecasts
                 \/ Resolve \/ ThrowAway \/ Edit \/ CaptureDraft \/ CleanUp \/ UNCHANGED vars
        BY <3>2 DEF Pause, ApplyForecast, Mismatch, CommitFails, Crash, Forecasts, Forecast,
           Resolve, ThrowAway, Edit, CaptureDraft, CleanUp, vars
      <3>3. CASE Continues
        BY <3>3 DEF Continues, ContinueConflict, ContinueMessage, ContinueContent, ContinueAbsorption, Resumes
      <3>4. QED
        BY <1>5, <3>1, <3>2, <3>3
    <2>2. HEAD' = HEAD
      BY <2>1 DEF HEAD
    <2>3. QED
      BY <2>1, <2>2, InGitStays
  <1>6. CASE ContinuePick \/ CommitJoin
    <2>1. pc = "join" \/ Waiting
      BY <1>1, <1>6 DEF ContinuePick, CommitJoin, Settled, Waiting
    <2>2. Stops(op)
      BY <1>1, <2>1 DEF Settled
    <2>3. Still'
      BY <1>6, <2>2 DEF ContinuePick, CommitJoin, Stops, Still, NextStep
    <2>4. QED
      BY <2>3, InGitStays
  <1>7. CASE Abort \/ GitContinue \/ GitAbandon \/ CommitAbsorbed \/ CommitOwn \/ \E b \in Branch : Checkout(b)
    <2>1. Still'
      BY <1>7 DEF Abort, GitContinue, GitAbandon, CommitAbsorbed, CommitOwn, Checkout, Still
    <2>2. QED
      BY <2>1, InGitStays
  <1>8. CASE MainMoves \/ \E b \in Branch : Land(b)
    <2>1. \E c : tip' = [tip EXCEPT !["main"] = c]
      BY <1>8, Zenon DEF MainMoves, Land
    <2>2. UNCHANGED <<branch, cp, mh>>
      BY <1>8 DEF MainMoves, Land
    <2>3. branch # "main"
      BY DEF Uniq, Unique, InGit
    <2>4. HEAD' = HEAD
      BY <1>1, <2>1, <2>2, <2>3 DEF HEAD, TypesIInv, Repository
    <2>5. QED
      BY <2>2, <2>4, InGitStays
  <1>9. CASE GoBack
    <2>1. Still'
      BY <1>9 DEF GoBack, Still, Uniq, Unique, InGit
    <2>2. QED
      BY <2>1, InGitStays
  <1>10. CASE PickConflicts \/ StepBlocked
    <2>1. pc \in {"pick", "merge"} /\ pc \in Stepping /\ UNCHANGED <<objs, tip, branch, mh>>
      BY <1>10 DEF PickConflicts, StepBlocked, Stepping
    <2>2. Still /\ HEAD = op.current.before /\ HEAD' = HEAD /\ NextStep.kind = pc
      BY <1>1, <2>1 DEF Settled, HEAD, TypesIInv, Standing
    <2>3. CASE cp' = cp
      BY <2>1, <2>2, <2>3, InGitStays
    <2>4. CASE pc = "pick" /\ cp' = op.current.commit
      <3>1. Lacks(objs, objs[HEAD].past, op.current.commit)
        BY <2>1, <2>2, <2>4, BeforeUnique
      <3>2. mh' = NoCommit
        BY <2>1, <2>2 DEF Still
      <3>3. QED
        BY <2>1, <2>2, <2>4, <3>1, <3>2 DEF InGitAt
    <2>5. QED
      BY <1>10, <2>3, <2>4 DEF PickConflicts, StepBlocked
  <1>11. CASE MergeApplies \/ MergeConflicts
    <2>1. pc = "merge" /\ pc \in Stepping /\ UNCHANGED <<objs, tip, branch, cp>> /\ mh' = op.current.joins
      BY <1>11 DEF MergeApplies, MergeConflicts, Stepping
    <2>2. Still /\ HEAD = op.current.before /\ HEAD' = HEAD /\ NextStep.kind = pc
      BY <1>1, <2>1 DEF Settled, HEAD, TypesIInv, Standing
    <2>3. Single(objs, objs[HEAD].past \cup objs[op.current.joins].past)
      BY <2>1, <2>2, BeforeUnique
    <2>4. cp' = NoCommit
      BY <2>1, <2>2 DEF Still
    <2>5. QED
      BY <2>1, <2>2, <2>3, <2>4 DEF InGitAt
  <1>12. QED
    BY <1>3, <1>4, <1>5, <1>6, <1>7, <1>8, <1>9, <1>10, <1>11, Zenon DEF Next, CommandStep, PersonStep

(* Whose commit HEAD is.                                                   *)
LEMMA BearsStays ==
    ASSUME NEW s, NEW z, Grows(s, z), NEW o, NEW p, p.queue = o.queue, p.next = o.next,
           o.queue[o.next].commit \in 1..Len(s), NEW h \in 1..Len(s), Bears(o, s, h)
    PROVE  Bears(p, z, h)
  BY AlikeStays DEF Bears, Grows

LEMMA StepOf ==
    ASSUME Uniq, [Next]_vars
    PROVE  /\ Awaits(journal.state) => journal.queue[journal.next].commit \in 1..Len(objs)
           /\ pc \in Stepping => op.queue[op.next].commit \in 1..Len(objs) /\ NextStep = op.queue[op.next]
  BY HonestGrounds DEF Planned, NextStep, Uniq, Topo

LEMMA StillBears ==
    ASSUME Uniq, [Next]_vars, UNCHANGED journal, undoing => undoing', Awaits(journal.state) /\ ~undoing => Home' = Home
    PROVE  Awaits(journal'.state) /\ ~undoing' => Bears(journal', objs', Home')
  <1>1. SUFFICES ASSUME Awaits(journal.state), ~undoing' PROVE Bears(journal, objs', Home)
    OBVIOUS
  <1>2. Bears(journal, objs, Home) /\ Grows(objs, objs') /\ Home \in 1..Len(objs)
    BY <1>1, HonestGrounds DEF Uniq, Unique, Borne, Topo
  <1>3. QED
    BY <1>1, <1>2, StepOf, BearsStays

(* The commit that is made for a pick stands for it.                       *)
LEMMA Stands ==
    ASSUME Uniq, [Next]_vars, pc \in Stepping, NextStep.kind = "pick",
           LET c == op.current.commit IN objs'[New].named => objs[c].named /\ objs'[New].of = objs[c].of,
           NEW p, p.queue = op.queue, p.next = op.next
    PROVE  Bears(p, objs', New)
  <1> DEFINE c == op.current.commit
  <1>1. c = op.queue[op.next].commit /\ c \in 1..Len(objs) /\ NextStep = op.queue[op.next]
    BY BeforeUnique
  <1>2. objs'[c] = objs[c]
    BY <1>1, TopoGrounds DEF Grows, Uniq
  <1>3. objs'[New].named => objs[c].named /\ objs'[New].of = objs[c].of
    OBVIOUS
  <1> HIDE DEF c
  <1>4. QED
    BY <1>1, <1>2, <1>3 DEF Bears, Alike

LEMMA BorneBeyond ==
    ASSUME pc' \notin Carries \cup {"record-join"}, ~Listens',
           Awaits(journal'.state) /\ ~undoing' => Bears(journal', objs', Home')
    PROVE  Borne'
  BY DEF Borne

LEMMA BornePhases ==
    ASSUME Uniq, [Next]_vars,
           \/ RemoveDraftFiles \/ ReduceToHead \/ ResetOnto \/ OmitStep \/ PositionStep \/ AnchorStep \/ Advance
           \/ QueueDone \/ Verified \/ MaterializeOverlay \/ RecordOverlay \/ Publish \/ ReleaseAnchors
           \/ AbortReset \/ AbortRestore \/ RecordApplication \/ RecordJoin
    PROVE  Borne'
  <1> USE DEF Works, Thinks, Journals, Write, Go, Keep, gitVars, headVars, treeVars, histVars
  <1>0. Hon /\ Ord /\ TypesIInv
    BY DEF Uniq, Topo, Hon, Ord
  <1>1. /\ pc \in Starting \cup Moving \cup Finishing \cup Undoing \cup {"record", "record-join"} /\ undoing' = undoing
        /\ pc' \in Starting \cup Moving \cup Finishing \cup Undoing \/ (pc' = "paused" /\ RecordApplication)
    BY DEF RemoveDraftFiles, ReduceToHead, ResetOnto, OmitStep, PositionStep, AnchorStep, Advance, QueueDone, Verified,
           MaterializeOverlay, RecordOverlay, Publish, ReleaseAnchors, AbortReset, AbortRestore, RecordApplication,
           RecordJoin, Starting, Moving, Finishing, Sharing, Undoing
  <1>2. /\ pc # "idle" /\ ~Listens' /\ ~Awaits("applying")
        /\ pc' \notin Carries \cup {"record-join"}
    <2>1. pc # "idle"
      BY <1>1 DEF Starting, Moving, Finishing, Sharing, Undoing
    <2>2. pc' = "paused" => op'.state = "blocked"
      BY <1>0, <1>1, <2>1, StepsTurn DEF Starting, Moving, Finishing, Sharing, Undoing
    <2>3. QED
      BY <1>1, <2>1, <2>2 DEF Starting, Moving, Finishing, Sharing, Undoing, Listens, Awaits, Carries
  <1>3. Awaits(journal'.state) /\ ~undoing' => Bears(journal', objs', Home')
    <2>1. CASE pc \in Undoing
      BY <1>0, <1>1, <2>1 DEF Ord
    <2>2. CASE pc \in Starting \cup Finishing
      <3>1. journal = op /\ op.state = "applying"
        BY <1>0, <1>2, <2>2, Runs DEF TypesIInv
      <3>2. CASE RecordOverlay
        <4>1. journal'.state = "applying"
          BY <1>0, <1>2, <3>1, <3>2, StepsTurn DEF RecordOverlay
        <4>2. QED
          BY <1>2, <4>1
      <3>3. CASE ~RecordOverlay
        <4>1. journal' = journal \/ Advance
          BY <3>3 DEF RemoveDraftFiles, ReduceToHead, ResetOnto, OmitStep, PositionStep, AnchorStep, QueueDone, Verified,
             MaterializeOverlay, Publish, ReleaseAnchors, AbortReset, AbortRestore, RecordApplication, RecordJoin
        <4>2. journal'.state = "applying"
          BY <3>1, <4>1 DEF Advance
        <4>3. QED
          BY <1>2, <4>2
      <3>4. QED
        BY <3>2, <3>3
    <2>3. CASE pc \in Moving \cup {"record", "record-join"}
      <3>1. AnchorStep \/ Advance \/ RecordApplication \/ RecordJoin
        BY <2>3 DEF RemoveDraftFiles, ReduceToHead, ResetOnto, OmitStep, PositionStep, QueueDone, Verified,
           MaterializeOverlay, RecordOverlay, Publish, ReleaseAnchors, AbortReset, AbortRestore, Moving
      <3>2. CASE AnchorStep \/ RecordApplication \/ RecordJoin
        BY <1>1, <3>2, StillBears DEF AnchorStep, RecordApplication, RecordJoin, Home
      <3>3. CASE Advance
        <4>1. journal'.state = "applying"
          BY <1>0, <1>2, <3>3, Runs DEF Advance, TypesIInv, Moving
        <4>2. QED
          BY <1>2, <4>1
      <3>4. QED
        BY <3>1, <3>2, <3>3
    <2>4. QED
      BY <1>1, <2>1, <2>2, <2>3
  <1>4. QED
    BY <1>2, <1>3, BorneBeyond

LEMMA BorneStops ==
    ASSUME Uniq, [Next]_vars,
           \/ Pause \/ Mismatch \/ OverlayMismatch \/ CommitFails \/ Crash \/ ClearJournal \/ AbortClear
           \/ Begins \/ Abort
    PROVE  Borne'
  <1> USE DEF Stop, Go, gitVars, headVars, treeVars, histVars
  <1>0. Hon /\ Ord /\ TypesIInv
    BY DEF Uniq, Topo, Hon, Ord
  <1>1. CASE Begins \/ Abort
    <2>1. pc' \in {"reset", "reduce", "undo"} /\ (journal'.state = "applying" \/ undoing')
      BY <1>0, <1>1, BeginsAnew DEF Abort
    <2>2. ~Awaits("applying") /\ ~Listens' /\ pc' \notin Carries \cup {"record-join"}
      BY <2>1 DEF Awaits, Listens, Carries
    <2>3. QED
      BY <2>1, <2>2, BorneBeyond
  <1>2. CASE Pause \/ Mismatch \/ OverlayMismatch \/ CommitFails \/ Crash \/ ClearJournal \/ AbortClear
    <2>1. pc # "idle" /\ pc' = "idle" /\ UNCHANGED <<branch, tip, index, objs>>
      BY <1>2 DEF Pause, Mismatch, OverlayMismatch, CommitFails, Crash, ClearJournal, AbortClear
    <2>2. ~Awaits("applying") /\ ~Awaits("blocked") /\ ~Listens' /\ pc' \notin Carries \cup {"record-join"}
      BY <2>1 DEF Awaits, Listens, Carries
    <2>3. CASE CommitFails \/ Crash
      <3>1. UNCHANGED <<journal, undoing>>
        BY <2>3 DEF CommitFails, Crash
      <3>2. Awaits(journal'.state) /\ ~undoing' => Bears(journal', objs', Home')
        BY <2>1, <3>1, StillBears DEF Home
      <3>3. QED
        BY <2>2, <3>2, BorneBeyond
    <2>4. CASE ClearJournal \/ AbortClear
      <3>1. journal'.state = "applying"
        BY <2>4 DEF ClearJournal, AbortClear, NoOperation
      <3>2. QED
        BY <2>2, <3>1, BorneBeyond
    <2>5. CASE Pause \/ Mismatch \/ OverlayMismatch
      <3>1. journal'.state = "blocked" \/ (journal' = op /\ pc = "paused")
        BY <1>0, <2>1, <2>5, StepsTurn
      <3>2. Home = HEAD /\ op.branch = journal.branch
        BY <1>0, <2>1, HonestGrounds
      <3>3. journal' = op => Home' = HEAD
        BY <2>1, <3>2 DEF Home
      <3>4. pc = "paused" /\ Awaits(op.state) => Bears(op, objs, HEAD)
        BY DEF Uniq, Unique, Borne, Listens
      <3>5. Awaits(journal'.state) /\ ~undoing' => Bears(journal', objs', Home')
        BY <2>1, <2>2, <3>1, <3>3, <3>4
      <3>6. QED
        BY <2>2, <3>5, BorneBeyond
    <2>6. QED
      BY <1>2, <2>3, <2>4, <2>5
  <1>3. QED
    BY <1>1, <1>2

LEMMA BorneContinues ==
    ASSUME Uniq, [Next]_vars, Continues, ~meddled'
    PROVE  Borne'
  <1> USE DEF Resumes, Go, gitVars, headVars, treeVars
  <1>0. Hon /\ Ord /\ TypesIInv
    BY DEF Uniq, Topo, Hon, Ord
  <1>1. /\ Continuable(journal) /\ ~undoing /\ undoing' = undoing /\ UNCHANGED <<tip, branch, objs>>
    BY DEF Continues, ContinueConflict, ContinueMessage, ContinueContent, ContinueAbsorption
  <1>2. /\ Turned(journal, op') /\ journal' = op'
        /\ \/ /\ pc' = "continue" /\ op'.state = "conflicted"
           \/ pc' \in {"reword", "edit", "absorb"} /\ Awaits(journal.state)
    BY <1>0, ContinuesTurn DEF Awaits
  <1>3. Home' = Home /\ HEAD' = Home /\ ~Listens' /\ pc' # "record-join"
    BY <1>1, <1>2, TurnedSame DEF Home, HEAD, Continuable, OnBranch, Same, Listens
  <1>4. CASE pc' = "continue"
    <2>1. ~Awaits(journal'.state) /\ pc' \notin Carries \cup {"record-join"}
      BY <1>2, <1>4 DEF Awaits, Carries
    <2>2. QED
      BY <1>3, <2>1, BorneBeyond
  <1>5. CASE Awaits(journal.state)
    <2>1. Bears(journal, objs, Home)
      BY <1>1, <1>5 DEF Uniq, Unique, Borne
    <2>2. Bears(op', objs', HEAD') /\ Bears(journal', objs', Home')
      BY <1>1, <1>2, <1>3, <2>1, TurnedSame DEF Bears, Same
    <2>3. QED
      BY <1>3, <2>2 DEF Borne
  <1>6. QED
    BY <1>2, <1>4, <1>5

LEMMA BorneInStep ==
    ASSUME Uniq, [Next]_vars,
           \/ BeginStep \/ PickApplies \/ PickConflicts \/ StepBlocked \/ MergeApplies \/ MergeConflicts
           \/ MergeJoinsNothing \/ ApplyForecast \/ ContinuePick \/ CommitJoin
           \/ BeginAbsorption \/ AbsorbApplies \/ AbsorbConflicts \/ AbsorbBlocked \/ AdvanceCursor \/ Meld
           \/ FinishStep \/ RewordStep \/ EditStep
    PROVE  Borne'
  <1> USE DEF Works, Thinks, Journals, Write, Go, gitVars, headVars, treeVars, histVars
  <1> DEFINE c == op.current.commit
  <1>0. Hon /\ Ord /\ TypesIInv /\ Settled /\ Borne
    BY DEF Uniq, Unique, Topo, Hon, Ord
  <1>1. pc \in {"queue"} \cup Stepping /\ UNCHANGED <<branch, undoing>>
    BY DEF BeginStep, PickApplies, PickConflicts, StepBlocked, MergeApplies, MergeConflicts,
           MergeJoinsNothing, ApplyForecast, ContinuePick, CommitJoin,
           BeginAbsorption, AbsorbApplies, AbsorbConflicts, AbsorbBlocked, AdvanceCursor, Meld,
           FinishStep, RewordStep, EditStep, Stepping
  <1>2. /\ pc # "idle" /\ Home = HEAD /\ branch = journal.branch
        /\ Repository /\ Grows(objs, objs') /\ HEAD \in 1..Len(objs)
    BY <1>0, <1>1, HonestGrounds DEF Stepping
  <1>3. pc \in Stepping => op.queue[op.next].commit \in 1..Len(objs) /\ NextStep = op.queue[op.next]
    BY StepOf
  <1>4. ~Awaits("applying") /\ ~Awaits("conflicted") /\ ~Awaits("blocked")
    BY DEF Awaits
  <1>5. /\ pc \in Written => journal = op
        /\ pc \in {"pick", "merge", "join", "absorb", "cursor", "finish"} => journal.state = "applying"
        /\ pc \in {"batch", "continue"} => journal.state = "conflicted"
    BY <1>0 DEF Settled, Written
  <1>6. CASE BeginStep
    <2>1. /\ pc = "queue" /\ pc' = NextStep.kind /\ NextStep.kind # "omit" /\ journal' = op' /\ MoreSteps
      BY <1>6 DEF BeginStep
    <2>2. op'.state = "applying"
      BY <1>0, <1>6, Runs DEF BeginStep, Sound, Shaped, TypesIInv
    <2>3. pc' \in {"pick", "merge"} /\ ~Listens' /\ pc' \notin Carries \cup {"record-join"}
      BY <1>0, <1>2, <2>1, OperationTrue DEF Listens, Carries
    <2>4. QED
      BY <1>4, <2>1, <2>2, <2>3, BorneBeyond
  <1>7. CASE PickConflicts \/ MergeConflicts \/ StepBlocked \/ MergeJoinsNothing \/ AbsorbBlocked
    <2>1. /\ pc \in {"pick", "merge", "absorb"} /\ pc' = "paused" /\ journal' = journal
      BY <1>7 DEF PickConflicts, MergeConflicts, StepBlocked, MergeJoinsNothing, AbsorbBlocked
    <2>2. op'.state \in {"conflicted", "blocked"}
      BY <1>0, <1>2, <1>7, StepsTurn
    <2>3. ~Listens' /\ ~Awaits(journal'.state) /\ pc' \notin Carries \cup {"record-join"}
      BY <1>4, <1>5, <2>1, <2>2 DEF Listens, Carries
    <2>4. QED
      BY <2>3, BorneBeyond
  <1>8. CASE MergeApplies \/ ApplyForecast
    <2>1. \/ pc = "merge" /\ pc' = "join" /\ journal' = journal
          \/ pc = "paused" /\ op.state = "conflicted" /\ pc' = "batch" /\ journal' = op
      BY <1>8 DEF MergeApplies, ApplyForecast
    <2>2. ~Listens' /\ ~Awaits(journal'.state) /\ pc' \notin Carries \cup {"record-join"}
      BY <1>4, <1>5, <2>1 DEF Listens, Carries
    <2>3. QED
      BY <2>2, BorneBeyond
  <1>9. CASE ContinuePick \/ PickApplies
    <2>1. /\ pc \in {"pick", "batch", "continue"} /\ pc \in Stepping /\ UNCHANGED <<op, journal>>
          /\ pc' \in {"record", "finish", "absorb"} /\ NextStep.kind = "pick"
      BY <1>0, <1>9 DEF ContinuePick, PickApplies, TypesIInv, Standing, Stepping
    <2>2. \/ AddCommit(<<HEAD>>, objs[c].of, objs[c].named, Delta(c))
          \/ AddCommit(<<HEAD>>, objs[c].of, objs[c].named /\ ~op.current.fork, index)
      BY <1>9 DEF ContinuePick, PickApplies
    <2>3. HEAD' = New /\ (objs'[New].named => objs[c].named /\ objs'[New].of = objs[c].of)
      <3> DEFINE named == objs[c].named /\ ~op.current.fork
                 of == objs[c].of
                 parents == <<HEAD>>
      <3>1. AddCommit(parents, of, objs[c].named, Delta(c)) \/ AddCommit(parents, of, named, index)
        BY <2>2
      <3>2. named => objs[c].named
        OBVIOUS
      <3> HIDE DEF named, of, parents, c
      <3>3. HEAD' = New /\ (objs'[New].named => objs[c].named) /\ objs'[New].of = of
        BY <1>1, <1>2, <3>1, <3>2, AddedCommit
      <3>4. QED
        BY <3>3 DEF of
    <2>4. Bears(op', objs', HEAD') /\ ~Listens' /\ ~Awaits(journal'.state) /\ pc' # "record-join"
      BY <1>4, <1>5, <2>1, <2>3, Stands DEF Listens
    <2>5. QED
      BY <2>4 DEF Borne
  <1>10. CASE CommitJoin
    <2>1. /\ pc \in {"join", "batch", "continue"} /\ pc' = "record-join" /\ UNCHANGED <<op, journal>>
          /\ AddCommit(<<HEAD, mh>>, None, FALSE, index)
      BY <1>10 DEF CommitJoin
    <2>2. objs'[New].named = FALSE /\ HEAD' = New
      BY <1>1, <1>2, <2>1, AddedCommit
    <2>3. ~Listens' /\ ~Awaits(journal'.state) /\ pc' \notin Carries
      BY <1>4, <1>5, <2>1 DEF Listens, Carries
    <2>4. QED
      BY <2>2, <2>3 DEF Borne
  <1>11. CASE \/ BeginAbsorption \/ AdvanceCursor \/ AbsorbApplies \/ AbsorbConflicts \/ FinishStep
    <2>1. /\ pc \in {"absorb", "cursor", "finish"} /\ pc' \in {"absorb", "cursor", "record", "paused"}
          /\ UNCHANGED <<tip, objs>> /\ (journal' = op' \/ journal' = journal) /\ (AdvanceCursor \/ BeginAbsorption \/ journal' = journal)
          /\ \/ BeginAbsorption \/ AdvanceCursor \/ op' = op
             \/ pc' = "paused" /\ (AbsorbConflicts \/ FinishStep)
      BY <1>11 DEF BeginAbsorption, AdvanceCursor, AbsorbApplies, AbsorbConflicts, FinishStep
    <2>2. /\ op' = op \/ Turned(op, op')
          /\ BeginAbsorption \/ AdvanceCursor => op'.state = op.state
      BY <1>0, <1>2, <2>1, StepsTurn
    <2>3. op'.queue = op.queue /\ op'.next = op.next /\ HEAD' = HEAD
      BY <1>1, <2>1, <2>2, TurnedSame DEF HEAD, Same
    <2>4. ~Awaits(journal'.state)
      <3>1. journal.state = "applying" /\ journal = op
        BY <1>5, <2>1 DEF Written
      <3>2. journal'.state = "applying"
        BY <2>1, <2>2, <3>1 DEF BeginAbsorption, AdvanceCursor
      <3>3. QED
        BY <1>4, <3>2
    <2>5. Bears(op, objs, HEAD)
      BY <1>0, <2>1 DEF Borne, Carries
    <2>6. Bears(op', objs', HEAD')
      BY <2>1, <2>3, <2>5 DEF Bears
    <2>7. QED
      BY <2>1, <2>4, <2>6 DEF Borne
  <1>12. CASE Meld \/ RewordStep \/ EditStep
    <2>1. /\ pc \in {"absorb", "reword", "edit"} /\ pc \in Stepping /\ journal' = journal /\ journal = op
          /\ pc' \in {"finish", "record"} \/ (RewordStep /\ pc' = "paused")
          /\ op' = op \/ EditStep \/ (RewordStep /\ pc' = "paused")
      BY <1>5, <1>12, Zenon DEF Meld, RewordStep, EditStep, Stepping, Written
    <2>2. Bears(op, objs, HEAD)
      BY <1>0, <2>1 DEF Borne, Carries
    <2>3. \E content : Amend(objs[c].of, objs[c].named, content) \/ Amend(objs[HEAD].of, objs[HEAD].named, content)
      BY <1>12, Zenon DEF Meld, RewordStep, EditStep
    <2>4. PICK content : Amend(objs[c].of, objs[c].named, content) \/ Amend(objs[HEAD].of, objs[HEAD].named, content)
      BY <2>3
    <2>5. NextStep.kind = "pick" /\ (objs[HEAD].named => objs[c].named /\ objs[HEAD].of = objs[c].of)
      <3>1. c = NextStep.commit /\ NextStep = op.queue[op.next]
        BY <2>1, BeforeUnique
      <3> HIDE DEF c
      <3>2. QED
        BY <2>2, <3>1 DEF Bears, Alike
    <2>6. HEAD' = New /\ (objs'[New].named => objs[c].named /\ objs'[New].of = objs[c].of)
      <3> HIDE DEF c
      <3>1. QED
        BY <1>1, <1>2, <2>4, <2>5, AmendedCommit
    <2>7. op'.queue = op.queue /\ op'.next = op.next /\ (pc' = "paused" => op'.state = "blocked")
      <3>1. EditStep \/ (RewordStep /\ pc' = "paused") => Turned(op, op')
        BY <1>0, <1>2, StepsTurn
      <3>2. RewordStep /\ pc' = "paused" => op'.state = "blocked"
        BY <1>0, <1>2, StepsTurn
      <3>3. QED
        BY <2>1, <3>1, <3>2, TurnedSame DEF Same
    <2>8. Bears(op', objs', HEAD') /\ Bears(op, objs', HEAD')
      BY <2>1, <2>5, <2>6, <2>7, Stands
    <2>9. Home' = HEAD'
      BY <1>1, <1>2, <2>1 DEF Home, HEAD
    <2>10. ~Listens' /\ pc' # "record-join"
      BY <1>4, <2>1, <2>7 DEF Listens
    <2>11. QED
      BY <2>1, <2>8, <2>9, <2>10 DEF Borne
  <1>13. QED
    BY <1>6, <1>7, <1>8, <1>9, <1>10, <1>11, <1>12

LEMMA BorneRests ==
    ASSUME Uniq, [Next]_vars, PersonStep \/ Forecasts \/ UNCHANGED vars, ~meddled'
    PROVE  Borne'
  <1> USE DEF Outside, Acts, ActsIf, AtRest, procVars, gitVars, headVars, treeVars, histVars
  <1>0. Hon /\ Ord /\ TypesIInv /\ Settled /\ Borne
    BY DEF Uniq, Unique, Topo, Hon, Ord
  <1>1. UNCHANGED <<journal, op, pc, undoing>> /\ (PersonStep \/ Forecasts => pc = "idle")
    BY RestsAlone
  <1>2. CASE UNCHANGED vars
    <2>1. UNCHANGED <<journal, op, pc, undoing, objs, branch, tip>>
      BY <1>2 DEF vars
    <2>2. /\ HEAD' = HEAD /\ Home' = Home
          /\ Listens' <=> Listens
      BY <2>1 DEF HEAD, Home, Listens
    <2>3. QED
      BY <1>0, <2>1, <2>2 DEF Borne
  <1>3. /\ tip \in [Branch -> Objects] /\ branch \in Branch /\ journal.branch \in Branch
        /\ Awaits(journal.state) => Pending /\ journal.branch # "main" /\ Still /\ (branch = journal.branch => Paused)
    <2>1. tip \in [Branch -> Objects] /\ branch \in Branch /\ journal.branch \in Branch /\ (Awaits(journal.state) => Pending)
      BY <1>0, HonestGrounds
    <2>2. QED
      BY <1>0, <2>1 DEF Settled, Paused, OnBranch, Awaits
  <1>4. CASE PersonStep \/ Forecasts
    <2>1. pc = "idle" /\ pc' = "idle" /\ ~Listens' /\ pc' \notin Carries \cup {"record-join"}
      BY <1>1, <1>4 DEF Listens, Carries
    <2>2. Awaits(journal.state) => Home' = Home
      <3>1. SUFFICES ASSUME Awaits(journal.state) PROVE tip'[journal.branch] = tip[journal.branch]
        BY <1>1 DEF Home
      <3>2. CASE Resolve \/ Edit \/ CaptureDraft \/ GoBack \/ Forecasts \/ GitAbandon \/ ThrowAway \/ CleanUp
        BY <3>2 DEF Resolve, Edit, CaptureDraft, GoBack, Forecasts, Forecast, GitAbandon, ThrowAway, CleanUp
      <3>3. CASE GitContinue \/ CommitAbsorbed
        BY <1>3, <3>1, <3>3 DEF GitContinue, CommitAbsorbed, Still
      <3>4. CASE CommitOwn
        <4>1. tip' = [tip EXCEPT ![branch] = New] /\ ~Paused
          BY <3>4 DEF CommitOwn, AddCommit
        <4>2. QED
          BY <1>3, <3>1, <4>1
      <3>5. CASE MainMoves \/ \E b \in Branch : Checkout(b) \/ Land(b)
        <4>1. tip' = tip \/ \E d : tip' = [tip EXCEPT !["main"] = d]
          BY <3>5, Zenon DEF MainMoves, Checkout, Land
        <4>2. QED
          BY <1>3, <3>1, <4>1
      <3>6. QED
        BY <1>4, <3>2, <3>3, <3>4, <3>5, Zenon DEF PersonStep
    <2>3. Awaits(journal'.state) /\ ~undoing' => Bears(journal', objs', Home')
      BY <1>1, <2>2, StillBears
    <2>4. QED
      BY <2>1, <2>3, BorneBeyond
  <1>5. QED
    BY <1>2, <1>4

LEMMA BorneStep ==
    ASSUME Uniq, [Next]_vars, ~meddled'
    PROVE  Borne'
  <1>1. CASE \/ RemoveDraftFiles \/ ReduceToHead \/ ResetOnto \/ OmitStep \/ PositionStep \/ AnchorStep \/ Advance
             \/ QueueDone \/ Verified \/ MaterializeOverlay \/ RecordOverlay \/ Publish \/ ReleaseAnchors
             \/ AbortReset \/ AbortRestore \/ RecordApplication \/ RecordJoin
    BY <1>1, BornePhases
  <1>2. CASE \/ Pause \/ Mismatch \/ OverlayMismatch \/ CommitFails \/ Crash \/ ClearJournal \/ AbortClear
             \/ Begins \/ Abort
    BY <1>2, BorneStops
  <1>3. CASE \/ BeginStep \/ PickApplies \/ PickConflicts \/ StepBlocked \/ MergeApplies \/ MergeConflicts
             \/ MergeJoinsNothing \/ ApplyForecast \/ ContinuePick \/ CommitJoin
             \/ BeginAbsorption \/ AbsorbApplies \/ AbsorbConflicts \/ AbsorbBlocked \/ AdvanceCursor \/ Meld
             \/ FinishStep \/ RewordStep \/ EditStep
    BY <1>3, BorneInStep
  <1>4. CASE Continues
    BY <1>4, BorneContinues
  <1>5. CASE PersonStep \/ Forecasts \/ UNCHANGED vars
    BY <1>5, BorneRests
  <1>6. QED
    BY <1>1, <1>2, <1>3, <1>4, <1>5, Zenon DEF Next, CommandStep

LEMMA UniqueStarts ==
    ASSUME NamesApart, Init
    PROVE  Unique
  <1>1. PICK case \in Cases : objs = Store(case.repo)
    BY Zenon DEF Init
  <1>2. Singles(objs)
    BY <1>1 DEF NamesApart, Singles, Single, Alike
  <1>3. journal = NoOperation /\ pc = "idle" /\ branch = "source" /\ cp = NoCommit /\ mh = NoCommit
    BY DEF Init
  <1>4. journal.state = "applying" /\ journal.queue = <<>> /\ journal.next = 1 /\ journal.id = 0 /\ ~Pending
    BY <1>3 DEF NoOperation, Pending
  <1>5. Tracing
    BY <1>3, <1>4 DEF Tracing, Fresh, Lineal, Moving
  <1>6. InGit
    BY <1>3, <1>4 DEF InGit
  <1>7. Borne
    BY <1>3, <1>4 DEF Borne, Awaits, Listens, Carries
  <1>8. QED
    BY <1>2, <1>5, <1>6, <1>7 DEF Unique

UniqueIInv == TopologyIInv /\ (~meddled => Unique)

LEMMA UniqueStep ==
    ASSUME UniqueIInv, [Next]_vars
    PROVE  ~meddled' => Unique'
  <1> SUFFICES ASSUME ~meddled' PROVE Unique'
    OBVIOUS
  <1>1. ~meddled
    BY MeddledStays DEF UniqueIInv, TopologyIInv, HonestIInv, WorkIInv, TypesIInv, Bounded
  <1>2. Hon /\ Honest /\ Topological /\ Unique
    BY <1>1 DEF UniqueIInv, TopologyIInv, HonestIInv, WorkIInv, LinesIInv, Hon, Ord
  <1>3. pc \notin {"idle"} \cup Undoing => Lined
    <2>1. ASSUME pc \notin {"idle"} \cup Undoing PROVE Pending /\ ~undoing
      BY <1>1, <1>2, <2>1, Runs DEF Hon, Ord, Settled, TypesIInv
    <2>2. QED
      BY <2>1 DEF UniqueIInv, TopologyIInv, HonestIInv, LinesIInv, Lined
  <1>4. Uniq
    BY <1>1, <1>2, <1>3 DEF Topo, Uniq
  <1>5. QED
    BY <1>4, SinglesStep, TracingStep, InGitStep, BorneStep DEF Unique

LEMMA UniqueInvariant ==
    ASSUME NamesApart
    PROVE  Spec => []UniqueIInv
  <1>1. Init => UniqueIInv
    <2>1. Init => TopologyIInv
      BY HonestStarts, WorkStarts, LinesStart, TopologicalStarts DEF TopologyIInv, HonestIInv
    <2>2. QED
      BY <2>1, UniqueStarts DEF UniqueIInv
  <1>2. UniqueIInv /\ [Next]_vars => UniqueIInv'
    <2>1. ASSUME UniqueIInv, [Next]_vars PROVE TopologyIInv'
      <3>1. HonestIInv'
        BY <2>1, WorkStep, LinesStep, HonestStep DEF UniqueIInv, TopologyIInv, HonestIInv, LinesIInv
      <3>2. QED
        BY <2>1, <3>1, TopologyStep DEF UniqueIInv, TopologyIInv
    <2>2. QED
      BY <2>1, UniqueStep DEF UniqueIInv
  <1>3. QED
    BY <1>1, <1>2, PTL DEF Spec

(* "squash and fixup leave exactly one trailer on the surviving commit",   *)
(* and no interruption makes a second: whatever was squashed, joined or    *)
(* continued, and wherever a command was killed, no branch holds two       *)
(* commits with one Change-Id while the person has not committed at a      *)
(* pause - if no history to start from has one already in the past of a    *)
(* commit, since a range that names a change twice is carried as it is.    *)
THEOREM NamesStayUnique ==
    ASSUME NamesApart
    PROVE  Spec => []OneIdentity
  <1>1. ASSUME UniqueIInv PROVE OneIdentity
    <2>1. SUFFICES ASSUME ~meddled, NEW b \in Branch, NEW c \in objs[tip[b]].past, NEW d \in objs[tip[b]].past,
                          SameName(c, d)
                   PROVE  c = d
      BY Zenon DEF OneIdentity
    <2>2. Singles(objs) /\ TypesIInv
      BY <1>1, <2>1 DEF UniqueIInv, TopologyIInv, HonestIInv, WorkIInv, LinesIInv, Unique
    <2>3. tip[b] \in 1..Len(objs)
      BY <2>2 DEF TypesIInv, RebaseIInv, Repository, Objects
    <2>4. QED
      BY <2>1, <2>2, <2>3, AlikeTrue DEF Singles, Single
  <1>2. QED
    BY <1>1, UniqueInvariant, PTL

=============================================================================
