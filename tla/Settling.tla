------------------------------- MODULE Settling -------------------------------
(***************************************************************************)
(* How a person settles the conflicts of a pick, and what is recorded of   *)
(* it: src/src/resolutions.js, the pending merges of src/src/specs.js, the *)
(* part of src/src/operations.js that applies the choices of a forecast    *)
(* and captures decisions when an operation continues, and the part of     *)
(* src/src/forecasts.js that makes those choices.  Module Reconcile has    *)
(* the operation around it.                                                *)
(*                                                                         *)
(* The conflicts are in a specification ("doc"), in its manifest           *)
(* ("sidecar", whose contents is the document it describes) and in one     *)
(* other file ("code").  The signature of a conflict is that of its three  *)
(* inputs, here its path: the same conflict comes up again in the next     *)
(* operation.  One choice or none is a set of at most one.                 *)
(***************************************************************************)
EXTENDS SpecMerge

CONSTANTS
    Versions,     \* triples [base, ours, theirs] of a specification to compare
    Conflicting,  \* those of them a pick stops at
    Unmerged,     \* the sets of paths it can leave unmerged
    Drafts,       \* documents a person, or Git's own line merge, comes up with
    Code,         \* results for the other file
    MaxPicks,     \* bound: picks that stop
    MaxActs       \* bound: what persons and other worktrees do meanwhile

SpecPaths == {"doc", "sidecar"}
Paths == SpecPaths \cup {"code"}

ASSUME SettlingAssumption ==
    /\ Conflicting \subseteq Versions /\ Unmerged \subseteq (SUBSET Paths) \ {{}}
    /\ IsFiniteSet(Code) /\ Code # {} /\ IsFiniteSet(Drafts) /\ {MaxPicks, MaxActs} \subseteq Nat

VARIABLES
    versions,   \* the specification on the base, the branch and the change
    semantic,   \* what planSpecMerge makes of them, whenever it is asked
    catalog,    \* the published resolutions <<signature, result>>
    pins,       \* what a forecast approved, if one was made
    pick,       \* the journal's current step
    staged,     \* the index: for each path its result, {} while unmerged
    dpc, todo,  \* the command, and the choices it has yet to stage
    settled,    \* the applications published (history)
    picks, acts

settlingVars == <<versions, semantic, catalog, pins, pick, staged, dpc, todo, settled, picks, acts>>

Nothing == [p \in Paths |-> {}]
NoPick == [paths |-> {}, journaled |-> FALSE, offered |-> Nothing, selected |-> Nothing,
           rejected |-> {}, merges |-> {}, captured |-> {}]
NoPins == [made |-> FALSE, merge |-> {}, choices |-> Nothing]

Comparing(v) ==
    /\ versions = v /\ semantic = PlanSpecMerge(v)
    /\ catalog = {} /\ pins = NoPins /\ pick = NoPick
    /\ staged = Nothing /\ dpc = "idle" /\ todo = Nothing
    /\ settled = {} /\ picks = 0 /\ acts = 0

SettlingInit == \E v \in Versions : Comparing(v)

Acting == acts < MaxActs /\ acts' = acts + 1

(* What can be staged at a path; a deleted file is a result too.           *)
Results(p) == IF p = "code" THEN Code ELSE {<<>>, semantic.document, versions.ours.document} \cup Drafts

SettlingTypeOK ==
    /\ dpc \in {"idle", "stopped", "choosing", "paused", "applying", "merging", "continuing", "committed"}
    /\ catalog \subseteq UNION {{p} \X Results(p) : p \in Paths}
    /\ \A p \in Paths : staged[p] \subseteq Results(p) /\ Cardinality(staged[p]) <= 1
    /\ \A p \in pick.paths : pick.offered[p] \subseteq Results(p) /\ Cardinality(pick.selected[p]) <= 1
    /\ pick.rejected \subseteq pick.paths /\ (pick.merges # {} => pick.journaled)
    /\ picks \in 0..MaxPicks /\ acts \in 0..MaxActs

-----------------------------------------------------------------------------

(* listResolutionRecords: a ref for each signature and result names a      *)
(* commit that holds the record and its result.                            *)
Candidates(p) == {c[2] : c \in {d \in catalog : d[1] = p}}

(* A semantic merge takes both files.                                      *)
Exact(paths, merges) == IF merges = {} THEN paths ELSE paths \ SpecPaths

(* The simulation of the pick: a clean plan settles the specification, and *)
(* each other conflict needs exactly one known result.                     *)
ForecastPick(paths) ==
    LET merge == IF paths \cap SpecPaths # {} /\ semantic.clean THEN {semantic.document} ELSE {}
        exact == Exact(paths, merge) IN
    /\ dpc = "idle" /\ picks < MaxPicks /\ ~pins.made /\ versions \in Conflicting /\ Acting
    /\ \A p \in exact : Cardinality(Candidates(p)) = 1
    /\ pins' = [made |-> TRUE, merge |-> merge,
                choices |-> [p \in Paths |-> IF p \in exact THEN Candidates(p) ELSE {}]]
    /\ UNCHANGED <<versions, semantic, catalog, pick, staged, dpc, todo, settled, picks>>

(* The pick stops.  Git has merged the paths that do not conflict, by      *)
(* lines, and the journal knows of the pick but of no conflict yet.        *)
Stop(paths, merged) ==
    /\ dpc = "idle" /\ picks < MaxPicks /\ versions \in Conflicting /\ picks' = picks + 1
    /\ pick' = [NoPick EXCEPT !.paths = paths]
    /\ staged' = [p \in Paths |-> IF p \in paths THEN {}
                                  ELSE IF p \notin SpecPaths THEN {CHOOSE c \in Code : TRUE}
                                  ELSE IF paths \cap SpecPaths # {} THEN {merged}
                                  ELSE {versions.ours.document}]
    /\ dpc' = "stopped"
    /\ UNCHANGED <<versions, semantic, catalog, pins, todo, settled, acts>>

(* forecastResolutionChoices, forecastSpecMergeChoices: what was approved  *)
(* is for these conflicts, and its results are still on offer.             *)
Matches(offered) ==
    /\ pins.merge = (IF pick.paths \cap SpecPaths # {} /\ semantic.clean THEN {semantic.document} ELSE {})
    /\ \A p \in Paths :
          (pins.choices[p] # {} <=> p \in Exact(pick.paths, pins.merge)) /\ pins.choices[p] \subseteq offered[p]

(* What became of one conflict, by what is staged for it.                  *)
Decision(current, result) ==
    IF current.offered = {} THEN "created"
    ELSE IF current.rejected THEN "rejected"
    ELSE IF current.selected # {} THEN IF current.selected = result THEN "accepted" ELSE "modified"
    ELSE IF result \subseteq current.offered THEN "accepted" ELSE "rejected"

Outcome(current, p, result) ==
    [result |-> result, selected |-> current.selected[p], reused |-> result \cap current.offered[p],
     decision |-> Decision([offered |-> current.offered[p], selected |-> current.selected[p],
                            rejected |-> p \in current.rejected], result)]

SpecDecision(merges, index) ==
    IF merges = {} THEN "none"
    ELSE IF index["doc"] = merges /\ index["sidecar"] = merges THEN "accepted" ELSE "modified"

(* Mutant: what was captured for an earlier `--continue` is kept.          *)
Captured_Once(current, index) ==
    IF current.captured # {} THEN current.captured
    ELSE {[spec |-> SpecDecision(current.merges, index),
           outcomes |-> [p \in IF current.journaled THEN Exact(current.paths, current.merges) ELSE {} |->
                            Outcome(current, p, index[p])]]}

(* captureSpecMergeOutcomes and captureResolutionOutcomes, for the         *)
(* conflicts the journal knows of but those of a semantic merge.           *)
Captured(current, index) ==
    {[spec |-> SpecDecision(current.merges, index),
      outcomes |-> [p \in IF current.journaled THEN Exact(current.paths, current.merges) ELSE {} |->
                       Outcome(current, p, index[p])]]}

(* captureConflictDescriptors, each conflict with what is known for it.    *)
Described ==
    [pick EXCEPT !.journaled = TRUE,
                 !.offered = [p \in Paths |-> IF p \in pick.paths THEN Candidates(p) ELSE {}]]

(* Without a forecast, or with one that does not match, the conflicts are  *)
(* journaled and left to the person.                                       *)
CaptureConflicts ==
    /\ dpc = "stopped" /\ ~(pins.made /\ Matches(Described.offered))
    /\ pick' = Described /\ dpc' = "paused" /\ pins' = NoPins
    /\ UNCHANGED <<versions, semantic, catalog, staged, todo, settled, picks, acts>>

(* applyForecastResolutions: the merge and the choices are staged, and     *)
(* only then journaled together with the conflicts.                        *)
StageForecast ==
    /\ dpc = "stopped" /\ pins.made /\ Matches(Described.offered)
    /\ staged' = [p \in Paths |-> IF p \in SpecPaths /\ pins.merge # {} THEN pins.merge
                                  ELSE IF pins.choices[p] # {} THEN pins.choices[p] ELSE staged[p]]
    /\ dpc' = "choosing"
    /\ UNCHANGED <<versions, semantic, catalog, pins, pick, todo, settled, picks, acts>>

ForecastWritten ==
    /\ dpc = "choosing"
    /\ LET chosen == [Described EXCEPT !.merges = pins.merge, !.selected = pins.choices] IN
       pick' = [chosen EXCEPT !.captured = Captured(chosen, staged)]
    /\ dpc' = "continuing" /\ pins' = NoPins
    /\ UNCHANGED <<versions, semantic, catalog, staged, todo, settled, picks, acts>>

(* The person edits and stages a file, or deletes it.                      *)
StageByHand(p, result) ==
    /\ dpc = "paused" /\ Acting /\ staged' = [staged EXCEPT ![p] = {result}]
    /\ UNCHANGED <<versions, semantic, catalog, pins, pick, dpc, todo, settled, picks>>

(* `resolve apply`: for one path, a result that is named or the only one;  *)
(* for all of them, the only one.  All are staged, then the journal is     *)
(* written.                                                                *)
ApplyResolution(paths, choice) ==
    /\ dpc = "paused" /\ pick.journaled /\ Acting
    /\ \/ Cardinality(paths) = 1
       \/ paths = pick.paths /\ \A p \in paths : Cardinality(pick.offered[p]) = 1
    /\ \A p \in paths : choice[p] \in pick.offered[p]
    /\ todo' = [p \in Paths |-> IF p \in paths THEN {choice[p]} ELSE {}]
    /\ dpc' = "applying"
    /\ UNCHANGED <<versions, semantic, catalog, pins, pick, staged, settled, picks>>

(* materializeResolutionCandidate.                                         *)
Materialize(p) ==
    /\ dpc = "applying" /\ todo[p] # {} /\ staged[p] # todo[p]
    /\ staged' = [staged EXCEPT ![p] = todo[p]]
    /\ UNCHANGED <<versions, semantic, catalog, pins, pick, dpc, todo, settled, picks, acts>>

SelectionWritten ==
    /\ dpc = "applying" /\ \A p \in Paths : todo[p] # {} => staged[p] = todo[p]
    /\ pick' = [pick EXCEPT !.selected = [p \in Paths |-> IF todo[p] # {} THEN todo[p] ELSE @[p]],
                            !.rejected = {p \in @ : todo[p] = {}}]
    /\ dpc' = "paused" /\ todo' = Nothing
    /\ UNCHANGED <<versions, semantic, catalog, pins, staged, settled, picks, acts>>

(* `resolve reject`, of one known result or of all of a path.              *)
RejectResolution(p, named) ==
    /\ dpc = "paused" /\ pick.journaled /\ p \in pick.paths /\ pick.offered[p] # {} /\ Acting
    /\ named \subseteq pick.offered[p]
    /\ pick' = [pick EXCEPT !.rejected = @ \cup {p}, !.selected[p] = named]
    /\ UNCHANGED <<versions, semantic, catalog, pins, staged, dpc, todo, settled, picks>>

(* `spec resolve`: a clean plan is staged, both files in one `git add`,    *)
(* and then journaled.                                                     *)
ApplySpecMerge ==
    /\ dpc = "paused" /\ pick.journaled /\ pick.paths \cap SpecPaths # {} /\ semantic.clean /\ Acting
    /\ staged' = [p \in Paths |-> IF p \in SpecPaths THEN {semantic.document} ELSE staged[p]]
    /\ dpc' = "merging"
    /\ UNCHANGED <<versions, semantic, catalog, pins, pick, todo, settled, picks>>

MergeWritten ==
    /\ dpc = "merging" /\ pick' = [pick EXCEPT !.merges = {semantic.document}] /\ dpc' = "paused"
    /\ UNCHANGED <<versions, semantic, catalog, pins, staged, todo, settled, picks, acts>>

(* captureSpecMergeOutcomes: after a semantic merge the manifest has to    *)
(* describe the staged document.                                           *)
Consistent == pick.merges # {} => staged["doc"] = staged["sidecar"]

(* `--continue`; with files unmerged, or a stale manifest, it is refused.  *)
ContinuePick ==
    /\ dpc = "paused" /\ (\A p \in Paths : staged[p] # {}) /\ Consistent
    /\ pick' = [pick EXCEPT !.captured = Captured(pick, staged)] /\ dpc' = "continuing"
    /\ UNCHANGED <<versions, semantic, catalog, pins, staged, todo, settled, picks, acts>>

(* The commit is made and, once the queue is done, the application and its *)
(* resolutions are published; one record is kept for a result of a         *)
(* signature.                                                              *)
CommitSettled ==
    /\ dpc = "continuing" /\ dpc' = "committed"
    /\ UNCHANGED <<versions, semantic, catalog, pins, pick, staged, todo, settled, picks, acts>>

CommitRefused ==
    /\ dpc = "continuing" /\ Acting /\ dpc' = "paused"
    /\ UNCHANGED <<versions, semantic, catalog, pins, pick, staged, todo, settled, picks>>

PublishSettled ==
    /\ dpc = "committed" /\ dpc' = "idle" /\ pick' = NoPick /\ staged' = Nothing
    /\ \E record \in pick.captured :
         /\ settled' = settled \cup {[pick |-> pick, committed |-> staged, spec |-> record.spec,
                                      outcomes |-> record.outcomes]}
         /\ catalog' = catalog \cup UNION {{p} \X record.outcomes[p].result : p \in DOMAIN record.outcomes}
    /\ UNCHANGED <<versions, semantic, pins, todo, picks, acts>>

AbortSettling ==
    /\ dpc = "paused" /\ dpc' = "idle" /\ pick' = NoPick /\ staged' = Nothing
    /\ UNCHANGED <<versions, semantic, catalog, pins, todo, settled, picks, acts>>

(* Another worktree, or an import, publishes.                              *)
OthersResolve(p, result) ==
    /\ Acting /\ <<p, result>> \notin catalog /\ versions \in Conflicting /\ dpc \in {"idle", "paused"}
    /\ catalog' = catalog \cup {<<p, result>>}
    /\ UNCHANGED <<versions, semantic, pins, pick, staged, dpc, todo, settled, picks>>

(* The command is killed: what it staged stays, what it would have written *)
(* to the journal is lost.  A pick Git has committed can only be aborted.  *)
CrashSettling ==
    /\ dpc \notin {"idle", "paused"} /\ Acting
    /\ todo' = Nothing
    /\ IF dpc = "committed"
       THEN pick' = NoPick /\ staged' = Nothing /\ dpc' = "idle"
       ELSE dpc' = "paused" /\ UNCHANGED <<pick, staged>>
    /\ pins' = NoPins
    /\ UNCHANGED <<versions, semantic, catalog, settled, picks>>

SettlingNext ==
    \/ \E paths \in Unmerged : ForecastPick(paths)
    \/ \E paths \in Unmerged, merged \in Drafts : Stop(paths, merged)
    \/ CaptureConflicts \/ StageForecast \/ ForecastWritten \/ SelectionWritten
    \/ ApplySpecMerge \/ MergeWritten \/ ContinuePick
    \/ \E p \in Paths : \E result \in Results(p) : StageByHand(p, result) \/ OthersResolve(p, result)
    \/ \E paths \in SUBSET pick.paths : \E choice \in [paths -> UNION {pick.offered[p] : p \in paths}] :
          ApplyResolution(paths, choice)
    \/ \E p \in pick.paths : Materialize(p)
    \/ \E p \in pick.paths : \E named \in {{}} \cup {{r} : r \in pick.offered[p]} : RejectResolution(p, named)
    \/ CommitSettled \/ CommitRefused \/ PublishSettled \/ AbortSettling \/ CrashSettling

SettlingSpec == SettlingInit /\ [][SettlingNext]_settlingVars

-----------------------------------------------------------------------------

(* A clean plan for a specification keeps what either side changed, in the *)
(* order of the side that moved, reads back as the same blocks, and sides  *)
(* that did not touch the same are never blocked.                          *)
MergeKeepsBoth ==
    /\ semantic.clean => KeepsChanges(versions, semantic) /\ KeepsOrder(versions, semantic) /\ ReadsBack(versions, semantic)
    /\ Unrelated(versions) => semantic.clean

(* "The application receipt distinguishes created, accepted, modified, and *)
(* rejected outcomes", and it does so by what was committed: every path    *)
(* that conflicted is recorded once, by the semantic merge or with an      *)
(* outcome; accepted means the committed result had been offered, or is    *)
(* the plan's, with a manifest that describes it; a result that was on     *)
(* offer is named as reused - whoever staged it, killed or not.  (Not for  *)
(* a pick whose conflicts were never journaled.)                           *)
DecisionsTrue ==
    \A a \in settled : a.pick.journaled =>
        /\ DOMAIN a.outcomes = {p \in a.pick.paths : a.spec = "none" \/ p = "code"}
        /\ a.spec # "none" => a.committed["sidecar"] = a.committed["doc"]
        /\ a.spec = "accepted" <=> (a.spec # "none" /\ a.committed["doc"] = {semantic.document})
        /\ \A p \in DOMAIN a.outcomes :
              LET o == a.outcomes[p] IN
              /\ a.committed[p] = o.result /\ o.reused = a.pick.offered[p] \cap a.committed[p]
              /\ o.decision = "created" <=> a.pick.offered[p] = {}
              /\ o.decision = "accepted" => o.reused # {} /\ p \notin a.pick.rejected
              /\ o.decision = "modified" => o.selected # a.committed[p]
              /\ o.decision = "rejected" => p \in a.pick.rejected \/ o.reused = {}
              /\ ({p} \X a.committed[p]) \subseteq catalog
=============================================================================
