------------------------------ MODULE Forecasts ------------------------------
(***************************************************************************)
(* `cst forecast`: what a queue of changes would do to a branch, simulated *)
(* without touching it.  One engine merges trees through a `git merge-tree *)
(* --stdin` session (module Sessions) and gives up at the first step that  *)
(* is not plainly clean; the other applies the steps in a temporary        *)
(* worktree, and is the one whose word counts.                             *)
(*                                                                         *)
(* src/src/forecasts.js; src/src/git.js (MergeTreeSession.merge, close).   *)
(* A tree is the set of changes whose content it has.                      *)
(***************************************************************************)
EXTENDS Sessions

CONSTANTS
    Change,      \* the changes of a source branch
    Nature,      \* what applying each of them to the target is like
    Programs,    \* the programs to simulate (sequences of Step)
    Targets,     \* the trees to start from
    MaxBroken    \* bound: cleaning steps that fail

Step == [of : Change, action : {"replay", "edit", "join"}]

(* "attributes" stands for a clean change of a .gitattributes file,        *)
(* "merge" for a merge commit, which a pick refuses.                       *)
ASSUME NatureAssumption == Nature \in [Change -> {"clean", "attributes", "resolved", "conflict", "merge"}]
ASSUME ProgramAssumption == Programs \subseteq Seq(Step) /\ Targets \subseteq SUBSET Change
ASSUME BrokenAssumption == MaxBroken \in Nat

VARIABLES
    program, target, engine,  \* what is simulated, onto what, and how
    fpc,                      \* where the forecast is
    sim,                      \* what the simulation found so far
    temp,                     \* the temporary worktree: known to Git, on disk, in a pick
    saved,                    \* the forecast that was stored
    touched,                  \* the worktree changed since the forecast began
    thrown, broken            \* an error is on its way; cleaning steps that failed

forecastVars == <<program, target, engine, fpc, sim, temp, saved, touched, thrown, broken>>

NoForecastYet == [engine |-> "none", steps |-> <<>>, tree |-> {}, status |-> "none"]
Fresh == [steps |-> <<>>, tree |-> target, status |-> "complete"]
NoTemp == [known |-> FALSE, disk |-> FALSE, picking |-> FALSE]

ForecastInit ==
    /\ kind = "merge" /\ oldGit \in BOOLEAN /\ SessionInit /\ refAt = Missing
    /\ program \in Programs /\ target \in Targets /\ engine \in {"merge-tree", "worktree"}
    /\ fpc = "start" /\ sim = Fresh /\ temp = NoTemp /\ saved = NoForecastYet
    /\ touched = FALSE /\ thrown = FALSE /\ broken = 0

ForecastTypeOK ==
    /\ fpc \in {"start", "merge", "worktree", "steps", "abort", "remove", "root", "prune", "conclude", "over"}
    /\ sim.tree \subseteq Change \cup {"other"} /\ Len(sim.steps) <= Len(program)
    /\ sim.status \in {"complete", "blocked", "pauses-for-content"}
    /\ temp.picking => temp.disk
    /\ broken \in 0..MaxBroken

-----------------------------------------------------------------------------
(* What a step does to a tree, in a worktree.                              *)
Effect(step, tree) ==
    LET c == step.of IN
    CASE step.action = "edit" -> "pauses-for-content"
      [] step.action # "edit" /\ (c \in tree \/ Nature[c] = "conflict") -> "blocked"
      [] step.action = "replay" /\ Nature[c] = "merge" -> "blocked"
      [] step.action # "edit" /\ c \notin tree /\ Nature[c] = "resolved" -> "exact-resolution"
      [] OTHER -> "clean"

Stepped(found, step) ==
    LET outcome == Effect(step, found.tree) IN
    [steps |-> Append(found.steps, <<step.of, outcome>>),
     tree |-> IF outcome \in {"clean", "exact-resolution"} THEN found.tree \cup {step.of} ELSE found.tree,
     status |-> IF outcome \in {"clean", "exact-resolution"} THEN "complete" ELSE outcome]

-----------------------------------------------------------------------------
(* simulatePlanWithMergeTree.                                              *)

(* Mutant: changes of attributes are not looked for.                       *)
Simulable_AnyAttributes(steps) ==
    \A i \in 1..Len(steps) : steps[i].action = "replay" /\ Nature[steps[i].of] # "merge"

(* Only picks, none of a merge commit; no change but the last may touch    *)
(* attributes, since the session reads those of the target.                *)
Simulable(steps) ==
    /\ \A i \in 1..Len(steps) : steps[i].action = "replay" /\ Nature[steps[i].of] # "merge"
    /\ \A i \in 1..(Len(steps) - 1) : Nature[steps[i].of] # "attributes"

(* A merge under attributes the session cannot see gives another tree.     *)
MergeStep(i) ==
    LET c == program[i].of
        Unseen == \E k \in 1..(i - 1) : Nature[program[k].of] = "attributes" IN
    <<sim.tree, IF Unseen THEN "other" ELSE c, Nature[c] \in {"clean", "attributes"}>>

SessionOnly == UNCHANGED <<kind, repoVars, cache, workerVars, oldGit, held, misled, countVars>>
OwnOnly == UNCHANGED sessionVars

BeginSimulation ==
    /\ fpc = "start"
    /\ fpc' = IF engine = "merge-tree" /\ Simulable(program) THEN "merge" ELSE "worktree"
    /\ OwnOnly /\ UNCHANGED <<program, target, engine, sim, temp, saved, touched, thrown, broken>>

Next1 == Len(sim.steps) + 1

PostMerge ==
    /\ fpc = "merge" /\ spc = "free" /\ Next1 <= Len(program)
    /\ call' = [NoCall EXCEPT !.op = "merge", !.ask = <<MergeStep(Next1)>>] /\ spc' = "ask"
    /\ SessionOnly /\ UNCHANGED <<state, result, forecastVars>>

Tree1 == (CHOOSE r \in result : TRUE)[2]

(* The session is closed whichever way the simulation ends.                *)
CloseSession ==
    /\ state' = (IF state = "open" THEN "closed" ELSE state)
    /\ spc' = IF state = "open" /\ worker # "none" THEN "shutting" ELSE "out"
    /\ call' = NoCall /\ result' = {} /\ SessionOnly

(* A conflict, or a step that adds nothing, is left to the worktree.       *)
CleanAnswer == Tree1 # Conflict /\ Tree1 # sim.tree

MergeAnswered ==
    /\ fpc = "merge" /\ spc = "got"
    /\ IF CleanAnswer
       THEN /\ sim' = [steps |-> Append(sim.steps, <<program[Next1].of, "clean">>),
                       tree |-> Tree1, status |-> "complete"]
            /\ spc' = "free" /\ call' = NoCall /\ result' = {} /\ SessionOnly /\ UNCHANGED <<state, fpc>>
       ELSE sim' = Fresh /\ fpc' = "worktree" /\ CloseSession
    /\ UNCHANGED <<program, target, engine, temp, saved, touched, thrown, broken>>

MergeUnavailable ==
    /\ fpc = "merge" /\ spc = "ordinary"
    /\ sim' = Fresh /\ fpc' = "worktree" /\ CloseSession
    /\ UNCHANGED <<program, target, engine, temp, saved, touched, thrown, broken>>

MergeComplete ==
    /\ fpc = "merge" /\ spc = "free" /\ Next1 > Len(program)
    /\ fpc' = "conclude" /\ CloseSession
    /\ UNCHANGED <<program, target, engine, sim, temp, saved, touched, thrown, broken>>

-----------------------------------------------------------------------------
(* simulatePlan in a temporary worktree.                                   *)

Settled == spc \in {"free", "out"}
Works == Settled /\ OwnOnly /\ UNCHANGED <<program, target, saved, touched>>

AddTemporary ==
    /\ fpc = "worktree" /\ Works /\ engine' = "worktree"
    /\ temp' = [NoTemp EXCEPT !.known = TRUE, !.disk = TRUE] /\ fpc' = "steps"
    /\ UNCHANGED <<sim, thrown, broken>>

AddFails ==
    /\ fpc = "worktree" /\ Settled /\ Fails /\ engine' = "worktree" /\ thrown' = TRUE /\ fpc' = "root"
    /\ UNCHANGED <<kind, repoVars, state, cache, workerVars, oldGit, callVars, held, misled, reads, moves>>
    /\ UNCHANGED <<program, target, saved, touched, sim, temp, broken>>

SimulateStep ==
    /\ fpc = "steps" /\ sim.status = "complete" /\ Next1 <= Len(program) /\ Works
    /\ sim' = Stepped(sim, program[Next1])
    /\ temp' = [temp EXCEPT !.picking = sim'.status = "blocked"]
    /\ UNCHANGED <<engine, fpc, thrown, broken>>

SimulationEnds ==
    /\ fpc = "steps" /\ (sim.status # "complete" \/ Next1 > Len(program)) /\ Works
    /\ fpc' = IF sim.status = "complete" THEN "remove" ELSE "abort"
    /\ UNCHANGED <<engine, sim, temp, thrown, broken>>

(* Any Git command of the simulation that fails unexpectedly.              *)
SimulationThrows ==
    /\ fpc = "steps" /\ Settled /\ Fails /\ thrown' = TRUE /\ fpc' = "abort"
    /\ \E picking \in BOOLEAN : temp' = [temp EXCEPT !.picking = picking]
    /\ UNCHANGED <<kind, repoVars, state, cache, workerVars, oldGit, callVars, held, misled, reads, moves>>
    /\ UNCHANGED <<program, target, engine, saved, touched, sim, broken>>

AbortPick ==
    /\ fpc = "abort" /\ Works /\ temp' = [temp EXCEPT !.picking = FALSE] /\ fpc' = "remove"
    /\ UNCHANGED <<engine, sim, thrown, broken>>

RemoveTemporary ==
    /\ fpc = "remove" /\ Works /\ temp' = NoTemp /\ fpc' = "root"
    /\ UNCHANGED <<engine, sim, thrown, broken>>

CleaningFails ==
    /\ Settled /\ broken < MaxBroken /\ broken' = broken + 1 /\ UNCHANGED sessionVars
    /\ UNCHANGED <<program, target, engine, saved, touched, sim, temp>>

RemoveFails == fpc = "remove" /\ CleaningFails /\ fpc' = "root" /\ UNCHANGED thrown

(* Mutant: a worktree Git could not remove is only deleted.                *)
AfterRoot_NoPrune == IF thrown THEN "over" ELSE "conclude"

AfterRoot == CASE temp.known -> "prune"
               [] ~temp.known /\ thrown -> "over"
               [] OTHER -> "conclude"

RemoveRoot ==
    /\ fpc = "root" /\ Works /\ temp' = [temp EXCEPT !.disk = FALSE, !.picking = FALSE]
    /\ fpc' = AfterRoot
    /\ UNCHANGED <<engine, sim, thrown, broken>>

RootFails == fpc = "root" /\ CleaningFails /\ fpc' = "over" /\ thrown' = TRUE

PruneTemporary ==
    /\ fpc = "prune" /\ Works /\ temp' = NoTemp
    /\ fpc' = (IF thrown THEN "over" ELSE "conclude")
    /\ UNCHANGED <<engine, sim, thrown, broken>>

PruneFails == fpc = "prune" /\ CleaningFails /\ fpc' = "over" /\ thrown' = TRUE

-----------------------------------------------------------------------------

(* The person works in the worktree meanwhile.                             *)
Touch ==
    /\ fpc \notin {"conclude", "over"} /\ ~touched /\ moves < MaxMoves /\ moves' = moves + 1 /\ touched' = TRUE
    /\ UNCHANGED <<kind, repoVars, state, cache, workerVars, oldGit, callVars, held, misled, reads, faults>>
    /\ UNCHANGED <<program, target, engine, fpc, sim, temp, saved, thrown, broken>>

(* forecastReconciliationInSession: head, tree and status as before, or    *)
(* there is no forecast.                                                   *)
Conclude ==
    /\ fpc = "conclude" /\ Settled /\ fpc' = "over"
    /\ saved' = IF touched THEN saved
                ELSE [engine |-> engine, steps |-> sim.steps, tree |-> sim.tree, status |-> sim.status]
    /\ thrown' = touched
    /\ OwnOnly /\ UNCHANGED <<program, target, engine, sim, temp, touched, broken>>

ForecastStep ==
    \/ BeginSimulation \/ PostMerge \/ MergeAnswered \/ MergeUnavailable \/ MergeComplete
    \/ AddTemporary \/ SimulateStep \/ SimulationEnds
    \/ AbortPick \/ RemoveTemporary \/ RemoveRoot \/ PruneTemporary \/ Conclude

MachineStep ==
    /\ \/ Ask \/ Receive \/ ReceiveFailure \/ TimesOut \/ ShutDown
       \/ WorkerStep \/ GitStep \/ Fault
    /\ UNCHANGED forecastVars

ForecastNext ==
    \/ ForecastStep \/ MachineStep
    \/ AddFails \/ SimulationThrows \/ RemoveFails \/ RootFails \/ PruneFails \/ Touch

ForecastFairness == SessionFairness /\ WF_<<sessionVars, forecastVars>>(ForecastStep)
ForecastSpec == ForecastInit /\ [][ForecastNext]_<<sessionVars, forecastVars>> /\ ForecastFairness

-----------------------------------------------------------------------------
(* What applying the whole program comes to.                               *)
Simulated ==
    LET After[n \in 0..Len(program)] ==
          IF n = 0 THEN Fresh
          ELSE IF After[n - 1].status = "complete" THEN Stepped(After[n - 1], program[n]) ELSE After[n - 1]
    IN After[Len(program)]

(* "falls back to the worktree simulator for any step it cannot            *)
(* reproduce": whichever engine answered, and whatever happened to its     *)
(* session, a stored forecast says what the worktree simulator would say.  *)
EnginesAgree ==
    saved # NoForecastYet =>
        [steps |-> saved.steps, tree |-> saved.tree, status |-> saved.status] = Simulated

(* A forecast leaves no temporary worktree behind: a stored one nothing at *)
(* all, one that failed nothing that a second failure did not keep it from *)
(* removing.                                                               *)
CleansUp ==
    kind = "merge" /\ fpc = "over" =>
        /\ saved # NoForecastYet => temp = NoTemp
        /\ temp.known => broken > 1
        /\ temp.disk => broken > 0
=============================================================================
