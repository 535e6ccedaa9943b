---------------------------- MODULE SettlingProofs ----------------------------
(***************************************************************************)
(* Proofs about Settling, for every set of versions, drafts and results,   *)
(* every set of paths a pick can leave unmerged, and every bound.          *)
(***************************************************************************)
EXTENDS Settling, FiniteSetTheorems, TLAPS

USE SettlingAssumption

(* One choice or none.                                                     *)
One(set) == set = {} \/ \E x \in set : set = {x}

Offers == Code \cup Drafts \cup {<<>>, semantic.document, versions.ours.document}
Selections == [Paths -> SUBSET Offers]
DecisionPlace == {"idle", "stopped", "choosing", "paused", "applying", "merging", "continuing", "committed"}

Singles == {f \in Selections : \A p \in Paths : One(f[p])}
Pins == [made : BOOLEAN, merge : {{}, {semantic.document}}, choices : Singles]

(* A journal with these fields.                                            *)
Journal(current) ==
    [paths |-> current.paths, journaled |-> current.journaled, offered |-> current.offered,
     selected |-> current.selected, rejected |-> current.rejected, merges |-> current.merges,
     captured |-> current.captured]

PickTrue ==
    /\ pick = Journal(pick) /\ pick.paths \subseteq Paths /\ pick.rejected \subseteq Paths
    /\ pick.offered \in Selections /\ pick.selected \in Selections /\ pick.merges \in {{}, {semantic.document}}
    /\ \A p \in Paths : pick.selected[p] \subseteq pick.offered[p]

ChoicesTrue ==
    /\ dpc \in DecisionPlace /\ catalog \subseteq Paths \X Offers
    /\ staged \in Selections /\ (\A p \in Paths : One(staged[p]))
    /\ todo \in Selections /\ (\A p \in Paths : One(todo[p]))
    /\ pins \in Pins
    /\ dpc = "applying" => \A p \in Paths : todo[p] \subseteq pick.offered[p]
    /\ dpc \in {"stopped", "choosing"} => pick.selected = Nothing

(* What a forecast approved is staged before it is journaled.              *)
ForecastTrue ==
    dpc = "choosing" =>
        /\ Matches(Described.offered)
        /\ pins.merge # {} => staged["doc"] = pins.merge /\ staged["sidecar"] = pins.merge
        /\ \A p \in Exact(pick.paths, pins.merge) : staged[p] = pins.choices[p] /\ staged[p] # {}

(* What is captured is of what is staged.                                  *)
CapturesTrue ==
    dpc \in {"continuing", "committed"} =>
        /\ pick.captured = Captured(pick, staged) /\ Consistent
        /\ \A p \in Exact(pick.paths, pick.merges) : staged[p] # {}

SettlingIInv == PickTrue /\ ChoicesTrue /\ ForecastTrue /\ CapturesTrue /\ DecisionsTrue

-----------------------------------------------------------------------------
(* One result of a finite set of them is a choice.                         *)
LEMMA OfferedOnce ==
    ASSUME ChoicesTrue, NEW p \in Paths
    PROVE  /\ Candidates(p) \subseteq Offers
           /\ Cardinality(Candidates(p)) = 1 => One(Candidates(p)) /\ Candidates(p) # {}
  <1>1. Candidates(p) \subseteq Offers
    BY DEF ChoicesTrue, Candidates
  <1>2. IsFiniteSet(Offers)
    <2>1. IsFiniteSet(Code \cup Drafts)
      BY FS_Union
    <2>2. IsFiniteSet(((Code \cup Drafts \cup {<<>>}) \cup {semantic.document}) \cup {versions.ours.document})
      <3>1. IsFiniteSet(Code \cup Drafts \cup {<<>>})
        BY <2>1, FS_AddElement
      <3>2. IsFiniteSet((Code \cup Drafts \cup {<<>>}) \cup {semantic.document})
        BY <3>1, FS_AddElement
      <3>3. QED
        BY <3>2, FS_AddElement
    <2>3. Offers = ((Code \cup Drafts \cup {<<>>}) \cup {semantic.document}) \cup {versions.ours.document}
      BY DEF Offers
    <2>4. QED
      BY <2>2, <2>3
  <1>3. IsFiniteSet(Candidates(p))
    BY <1>1, <1>2, FS_Subset
  <1>4. Cardinality(Candidates(p)) = 1 => \E x : Candidates(p) = {x}
    BY <1>3, FS_Singleton
  <1>5. QED
    BY <1>1, <1>4 DEF One

(* What is recorded of a pick by what is staged for it.                    *)
LEMMA RecordTrue ==
    ASSUME PickTrue, ChoicesTrue, Consistent, pick.journaled, NEW record \in Captured(pick, staged),
           \A p \in Exact(pick.paths, pick.merges) : staged[p] # {}
    PROVE  /\ DOMAIN record.outcomes = {p \in pick.paths : record.spec = "none" \/ p = "code"}
           /\ record.spec # "none" => staged["sidecar"] = staged["doc"]
           /\ record.spec = "accepted" <=> (record.spec # "none" /\ staged["doc"] = {semantic.document})
           /\ \A p \in DOMAIN record.outcomes :
                 LET o == record.outcomes[p] IN
                 /\ staged[p] = o.result /\ o.reused = pick.offered[p] \cap staged[p]
                 /\ o.decision = "created" <=> pick.offered[p] = {}
                 /\ o.decision = "accepted" => o.reused # {} /\ p \notin pick.rejected
                 /\ o.decision = "modified" => o.selected # staged[p]
                 /\ o.decision = "rejected" => p \in pick.rejected \/ o.reused = {}
  <1> DEFINE exact == Exact(pick.paths, pick.merges)
             F == [p \in exact |-> Outcome(pick, p, staged[p])]
  <1>1. record.spec = SpecDecision(pick.merges, staged) /\ record.outcomes = F
    BY DEF Captured
  <1>2. pick.paths \subseteq Paths /\ exact \subseteq pick.paths
    BY DEF PickTrue, Exact
  <1>3. record.spec = "none" <=> pick.merges = {}
    BY <1>1 DEF SpecDecision
  <1>4. exact = {p \in pick.paths : record.spec = "none" \/ p = "code"}
    BY <1>2, <1>3 DEF Exact, SpecPaths, Paths
  <1>5. record.spec # "none" => staged["sidecar"] = staged["doc"] /\ pick.merges = {semantic.document}
    BY <1>3 DEF Consistent, PickTrue
  <1>6. record.spec = "accepted" <=> (record.spec # "none" /\ staged["doc"] = {semantic.document})
    BY <1>1, <1>3, <1>5 DEF SpecDecision
  <1>7. ASSUME NEW p \in exact
        PROVE  LET o == F[p] IN
               /\ staged[p] = o.result /\ o.reused = pick.offered[p] \cap staged[p]
               /\ o.decision = "created" <=> pick.offered[p] = {}
               /\ o.decision = "accepted" => o.reused # {} /\ p \notin pick.rejected
               /\ o.decision = "modified" => o.selected # staged[p]
               /\ o.decision = "rejected" => p \in pick.rejected \/ o.reused = {}
    <2> DEFINE rejected == p \in pick.rejected
               current == [offered |-> pick.offered[p], selected |-> pick.selected[p], rejected |-> rejected]
    <2>1. /\ F[p].result = staged[p] /\ F[p].selected = pick.selected[p]
          /\ F[p].reused = staged[p] \cap pick.offered[p] /\ F[p].decision = Decision(current, staged[p])
      BY DEF Outcome
    <2>2. /\ current.offered = pick.offered[p] /\ current.selected = pick.selected[p]
          /\ current.rejected <=> p \in pick.rejected
      OBVIOUS
    <2>3. One(staged[p]) /\ staged[p] # {} /\ pick.selected[p] \subseteq pick.offered[p]
      BY <1>2 DEF ChoicesTrue, PickTrue
    <2> HIDE DEF current, rejected
    <2>4. /\ Decision(current, staged[p]) = "created" <=> pick.offered[p] = {}
          /\ Decision(current, staged[p]) = "accepted" =>
                /\ p \notin pick.rejected
                /\ staged[p] \subseteq pick.offered[p]
          /\ Decision(current, staged[p]) = "modified" => pick.selected[p] # staged[p]
          /\ Decision(current, staged[p]) = "rejected" =>
                p \in pick.rejected \/ ~(staged[p] \subseteq pick.offered[p])
      BY <2>2, <2>3 DEF Decision
    <2>5. ~(staged[p] \subseteq pick.offered[p]) => staged[p] \cap pick.offered[p] = {}
      BY <2>3 DEF One
    <2>6. QED
      BY <2>1, <2>3, <2>4, <2>5
  <1>8. DOMAIN F = exact
    OBVIOUS
  <1> HIDE DEF F, exact
  <1>9. QED
    BY <1>1, <1>4, <1>5, <1>6, <1>7, <1>8-----------------------------------------------------------------------------

LEMMA SettlingStart == SettlingInit => SettlingIInv
  <1> SUFFICES ASSUME NEW v \in Versions, Comparing(v) PROVE SettlingIInv
    BY DEF SettlingInit
  <1>1. /\ catalog = {} /\ pins = NoPins /\ pick = NoPick /\ staged = Nothing /\ dpc = "idle" /\ todo = Nothing
        /\ settled = {}
    BY DEF Comparing
  <1>2. Nothing \in Selections /\ (\A p \in Paths : Nothing[p] = {})
    BY DEF Nothing, Selections
  <1>3. NoPins \in Pins
    BY <1>2 DEF NoPins, Pins, Singles, One
  <1>4. PickTrue
    BY <1>1, <1>2 DEF PickTrue, NoPick, Journal
  <1>5. ChoicesTrue
    BY <1>1, <1>2, <1>3 DEF ChoicesTrue, DecisionPlace, One
  <1>6. ForecastTrue /\ CapturesTrue /\ DecisionsTrue
    BY <1>1 DEF ForecastTrue, CapturesTrue, DecisionsTrue
  <1>7. QED
    BY <1>4, <1>5, <1>6 DEF SettlingIInv

(* What was recorded stays true: the catalog only grows.                   *)
LEMMA DecisionsKept ==
    ASSUME DecisionsTrue, settled' = settled, semantic' = semantic, catalog \subseteq catalog'
    PROVE  DecisionsTrue'
  BY DEF DecisionsTrue

LEMMA OffersKept ==
    ASSUME UNCHANGED <<versions, semantic>>
    PROVE  Offers' = Offers /\ Selections' = Selections /\ Pins' = Pins
  BY DEF Offers, Selections, Pins, Singles

(* A pick that is left as it is, and so is what is staged for it.          *)
LEMMA PickKept ==
    ASSUME SettlingIInv, UNCHANGED <<versions, semantic, pick, staged, settled>>,
           catalog \subseteq catalog', catalog' \subseteq Paths \X Offers,
           todo' \in Selections, \A p \in Paths : One(todo'[p]), pins' \in Pins, dpc' \in DecisionPlace,
           dpc' = "applying" => \A p \in Paths : todo'[p] \subseteq pick.offered[p],
           dpc' # "choosing", dpc' = "stopped" => dpc = "stopped",
           dpc' \in {"continuing", "committed"} => dpc \in {"continuing", "committed"}
    PROVE  SettlingIInv'
  <1>1. Offers' = Offers /\ Selections' = Selections /\ Pins' = Pins
    BY OffersKept
  <1>2. PickTrue'
    BY <1>1 DEF SettlingIInv, PickTrue, Journal
  <1>3. ChoicesTrue'
    BY <1>1 DEF SettlingIInv, ChoicesTrue, One, DecisionPlace, Nothing
  <1>4. CapturesTrue'
    BY DEF SettlingIInv, CapturesTrue, Captured, SpecDecision, Outcome, Exact, Decision, Consistent
  <1>5. DecisionsTrue'
    BY DecisionsKept DEF SettlingIInv
  <1>6. QED
    BY <1>2, <1>3, <1>4, <1>5 DEF SettlingIInv, ForecastTrue

(* What is staged for a pick changes, and nobody relies on it yet.         *)
LEMMA StagingKept ==
    ASSUME SettlingIInv, UNCHANGED <<versions, semantic, pick, catalog, todo, settled>>, pins' = pins,
           staged' \in Selections, \A p \in Paths : One(staged'[p]), dpc' \in DecisionPlace,
           dpc' = "applying" => dpc = "applying", dpc' \notin {"stopped", "choosing", "continuing", "committed"}
    PROVE  SettlingIInv'
  <1>1. Offers' = Offers /\ Selections' = Selections /\ Pins' = Pins
    BY OffersKept
  <1>2. PickTrue'
    BY <1>1 DEF SettlingIInv, PickTrue, Journal
  <1>3. ChoicesTrue'
    BY <1>1 DEF SettlingIInv, ChoicesTrue, One, DecisionPlace, Nothing
  <1>4. DecisionsTrue'
    BY DecisionsKept DEF SettlingIInv
  <1>5. QED
    BY <1>2, <1>3, <1>4 DEF SettlingIInv, ForecastTrue, CapturesTrue

(* What the journal says of a pick changes, and nothing is captured yet.   *)
LEMMA JournalKept ==
    ASSUME SettlingIInv, UNCHANGED <<versions, semantic, staged, catalog, settled>>, PickTrue',
           todo' = todo \/ todo' = Nothing, pins' \in Pins, dpc' = "paused"
    PROVE  SettlingIInv'
  <1>1. Offers' = Offers /\ Selections' = Selections /\ Pins' = Pins
    BY OffersKept
  <1>2. Nothing \in Selections /\ (\A p \in Paths : Nothing[p] = {})
    BY DEF Nothing, Selections
  <1>3. ChoicesTrue'
    BY <1>1, <1>2 DEF SettlingIInv, ChoicesTrue, One, DecisionPlace
  <1>4. DecisionsTrue'
    BY DecisionsKept DEF SettlingIInv
  <1>5. QED
    BY <1>3, <1>4 DEF SettlingIInv, ForecastTrue, CapturesTrue
(* Between picks.                                                          *)
LEMMA Cleared ==
    ASSUME SettlingIInv, UNCHANGED <<versions, semantic>>, pick' = NoPick, staged' = Nothing, dpc' = "idle",
           catalog' \subseteq Paths \X Offers, todo' = todo \/ todo' = Nothing, pins' \in Pins, DecisionsTrue'
    PROVE  SettlingIInv'
  <1>1. Offers' = Offers /\ Selections' = Selections /\ Pins' = Pins
    BY OffersKept
  <1>2. Nothing \in Selections /\ (\A p \in Paths : Nothing[p] = {})
    BY DEF Nothing, Selections
  <1>3. PickTrue'
    BY <1>1, <1>2 DEF PickTrue, NoPick, Journal
  <1>4. ChoicesTrue'
    BY <1>1, <1>2 DEF SettlingIInv, ChoicesTrue, One, DecisionPlace
  <1>5. QED
    BY <1>3, <1>4 DEF SettlingIInv, ForecastTrue, CapturesTrue

LEMMA NothingPinned == NoPins \in Pins /\ Nothing \in Selections /\ (\A p \in Paths : One(Nothing[p]))
  <1>1. Nothing \in Selections /\ (\A p \in Paths : Nothing[p] = {})
    BY DEF Nothing, Selections
  <1>2. QED
    BY <1>1 DEF NoPins, Pins, Singles, One

LEMMA ForecastPickStep ==
    ASSUME SettlingIInv, NEW paths \in Unmerged, ForecastPick(paths)
    PROVE  SettlingIInv'
  <1> DEFINE merge == IF paths \cap SpecPaths # {} /\ semantic.clean THEN {semantic.document} ELSE {}
             exact == Exact(paths, merge)
             choices == [p \in Paths |-> IF p \in exact THEN Candidates(p) ELSE {}]
  <1>1. /\ UNCHANGED <<versions, semantic, catalog, pick, staged, dpc, todo, settled>> /\ dpc = "idle"
        /\ \A p \in exact : Cardinality(Candidates(p)) = 1
        /\ pins' = [made |-> TRUE, merge |-> merge, choices |-> choices]
    BY DEF ForecastPick
  <1>2. \A p \in Paths : choices[p] \subseteq Offers /\ One(choices[p])
    BY <1>1, OfferedOnce DEF SettlingIInv, One
  <1>3. choices \in Singles
    BY <1>2 DEF Singles, Selections
  <1> HIDE DEF choices
  <1>4. pins' \in Pins
    BY <1>1, <1>3 DEF Pins
  <1>5. QED
    BY <1>1, <1>4, PickKept DEF SettlingIInv, ChoicesTrue

LEMMA StopStep ==
    ASSUME SettlingIInv, NEW paths \in Unmerged, NEW merged \in Drafts, Stop(paths, merged)
    PROVE  SettlingIInv'
  <1>1. /\ UNCHANGED <<versions, semantic, catalog, pins, todo, settled>> /\ dpc' = "stopped"
        /\ pick' = [NoPick EXCEPT !.paths = paths]
        /\ staged' = [p \in Paths |-> IF p \in paths THEN {}
                                      ELSE IF p \notin SpecPaths THEN {CHOOSE c \in Code : TRUE}
                                      ELSE IF paths \cap SpecPaths # {} THEN {merged}
                                      ELSE {versions.ours.document}]
    BY DEF Stop
  <1>2. Offers' = Offers /\ Selections' = Selections /\ Pins' = Pins
    BY <1>1, OffersKept
  <1>3. Nothing \in Selections /\ (\A p \in Paths : Nothing[p] = {}) /\ paths \subseteq Paths
    BY DEF Nothing, Selections
  <1>4. pick' = [paths |-> paths, journaled |-> FALSE, offered |-> Nothing, selected |-> Nothing,
                 rejected |-> {}, merges |-> {}, captured |-> {}]
    BY <1>1 DEF NoPick
  <1>5. PickTrue'
    BY <1>2, <1>3, <1>4 DEF PickTrue, Journal
  <1>6. (CHOOSE c \in Code : TRUE) \in Offers /\ merged \in Offers /\ versions.ours.document \in Offers
    BY DEF Offers
  <1>7. staged' \in Selections /\ \A p \in Paths : One(staged'[p])
    BY <1>1, <1>6 DEF Selections, One
  <1>8. ChoicesTrue'
    <2>1. pick'.selected = Nothing /\ Nothing' = Nothing
      BY <1>4
    <2>2. /\ todo' \in Selections' /\ (\A p \in Paths : One(todo[p]')) /\ pins' \in Pins'
          /\ catalog' \subseteq Paths \X Offers'
      BY <1>1, <1>2 DEF SettlingIInv, ChoicesTrue
    <2>3. QED
      BY <1>1, <1>2, <1>7, <2>1, <2>2 DEF ChoicesTrue, DecisionPlace
  <1>9. DecisionsTrue'
    BY <1>1, DecisionsKept DEF SettlingIInv
  <1>10. QED
    BY <1>1, <1>5, <1>8, <1>9 DEF SettlingIInv, ForecastTrue, CapturesTrue

(* The conflicts as they are journaled first.                              *)
(* The updates of a journal.                                               *)
Describing(q, y) == [q EXCEPT !.journaled = TRUE, !.offered = y]
Selecting(q, x, y) == [q EXCEPT !.selected = x, !.rejected = y]
Choosing(q, x, y) == [q EXCEPT !.merges = x, !.selected = y]
Merging(q, x) == [q EXCEPT !.merges = x]
Capturing(q, x) == [q EXCEPT !.captured = x]

LEMMA JournalFields ==
    ASSUME NEW q, q = Journal(q), NEW x, NEW y
    PROVE  /\ Describing(q, y) =
                  [paths |-> q.paths, journaled |-> TRUE, offered |-> y, selected |-> q.selected,
                   rejected |-> q.rejected, merges |-> q.merges, captured |-> q.captured]
           /\ Selecting(q, x, y) =
                  [paths |-> q.paths, journaled |-> q.journaled, offered |-> q.offered, selected |-> x,
                   rejected |-> y, merges |-> q.merges, captured |-> q.captured]
           /\ Choosing(q, x, y) =
                  [paths |-> q.paths, journaled |-> q.journaled, offered |-> q.offered, selected |-> y,
                   rejected |-> q.rejected, merges |-> x, captured |-> q.captured]
           /\ Merging(q, x) =
                  [paths |-> q.paths, journaled |-> q.journaled, offered |-> q.offered, selected |-> q.selected,
                   rejected |-> q.rejected, merges |-> x, captured |-> q.captured]
           /\ Capturing(q, x) =
                  [paths |-> q.paths, journaled |-> q.journaled, offered |-> q.offered, selected |-> q.selected,
                   rejected |-> q.rejected, merges |-> q.merges, captured |-> x]
  <1> DEFINE P == q.paths
             J == q.journaled
             O == q.offered
             S == q.selected
             R == q.rejected
             M == q.merges
             C == q.captured
  <1>1. q = [paths |-> P, journaled |-> J, offered |-> O, selected |-> S,
             rejected |-> R, merges |-> M, captured |-> C]
    BY DEF Journal
  <1> HIDE DEF P, J, O, S, R, M, C
  <1>2. q \in [paths : {P}, journaled : {J}, offered : {O}, selected : {S},
               rejected : {R}, merges : {M}, captured : {C}]
    BY <1>1
  <1>3. Describing(q, y) =
            [paths |-> P, journaled |-> TRUE, offered |-> y, selected |-> S,
             rejected |-> R, merges |-> M, captured |-> C]
    <2>1. Describing(q, y) \in
             [paths : {P}, journaled : {TRUE}, offered : {y}, selected : {S},
              rejected : {R}, merges : {M}, captured : {C}]
      BY <1>2 DEF Describing
    <2>2. QED
      BY <2>1
  <1>4. Selecting(q, x, y) =
            [paths |-> P, journaled |-> J, offered |-> O, selected |-> x,
             rejected |-> y, merges |-> M, captured |-> C]
    <2>1. Selecting(q, x, y) \in
             [paths : {P}, journaled : {J}, offered : {O}, selected : {x},
              rejected : {y}, merges : {M}, captured : {C}]
      BY <1>2 DEF Selecting
    <2>2. QED
      BY <2>1
  <1>5. Choosing(q, x, y) =
            [paths |-> P, journaled |-> J, offered |-> O, selected |-> y,
             rejected |-> R, merges |-> x, captured |-> C]
    <2>1. Choosing(q, x, y) \in
             [paths : {P}, journaled : {J}, offered : {O}, selected : {y},
              rejected : {R}, merges : {x}, captured : {C}]
      BY <1>2 DEF Choosing
    <2>2. QED
      BY <2>1
  <1>6. Merging(q, x) =
            [paths |-> P, journaled |-> J, offered |-> O, selected |-> S,
             rejected |-> R, merges |-> x, captured |-> C]
    <2>1. Merging(q, x) \in
             [paths : {P}, journaled : {J}, offered : {O}, selected : {S},
              rejected : {R}, merges : {x}, captured : {C}]
      BY <1>2 DEF Merging
    <2>2. QED
      BY <2>1
  <1>7. Capturing(q, x) =
            [paths |-> P, journaled |-> J, offered |-> O, selected |-> S,
             rejected |-> R, merges |-> M, captured |-> x]
    <2>1. Capturing(q, x) \in
             [paths : {P}, journaled : {J}, offered : {O}, selected : {S},
              rejected : {R}, merges : {M}, captured : {x}]
      BY <1>2 DEF Capturing
    <2>2. QED
      BY <2>1
  <1>8. QED
    BY <1>3, <1>4, <1>5, <1>6, <1>7 DEF P, J, O, S, R, M, C

LEMMA DescribedTrue ==
    ASSUME SettlingIInv
    PROVE  /\ Described = [paths |-> pick.paths, journaled |-> TRUE,
                           offered |-> [p \in Paths |-> IF p \in pick.paths THEN Candidates(p) ELSE {}],
                           selected |-> pick.selected, rejected |-> pick.rejected, merges |-> pick.merges,
                           captured |-> pick.captured]
           /\ Described.offered \in Selections
  <1> DEFINE offered == [p \in Paths |-> IF p \in pick.paths THEN Candidates(p) ELSE {}]
  <1>1. pick = Journal(pick)
    BY DEF SettlingIInv, PickTrue
  <1>2. Described = [paths |-> pick.paths, journaled |-> TRUE, offered |-> offered, selected |-> pick.selected,
                     rejected |-> pick.rejected, merges |-> pick.merges, captured |-> pick.captured]
    <2>1. Described = Describing(pick, offered)
      BY DEF Described, Describing
    <2> HIDE DEF offered
    <2>2. QED
      BY <1>1, <2>1, JournalFields
  <1>3. offered \in Selections
    BY OfferedOnce DEF SettlingIInv, Selections
  <1>4. QED
    BY <1>2, <1>3
(* The pick as its command leaves it to the person.                        *)
LEMMA PausedSteps ==
    ASSUME SettlingIInv,
           \/ CaptureConflicts \/ SelectionWritten \/ MergeWritten
           \/ \E p \in pick.paths : \E named \in {{}} \cup {{r} : r \in pick.offered[p]} : RejectResolution(p, named)
    PROVE  SettlingIInv'
  <1> USE NothingPinned
  <1>0. /\ UNCHANGED <<versions, semantic, staged, catalog, settled>>
        /\ todo' = todo \/ todo' = Nothing
        /\ pins' = pins \/ pins' = NoPins
        /\ dpc' = "paused"
    BY DEF CaptureConflicts, SelectionWritten, MergeWritten, RejectResolution
  <1>1. /\ Offers' = Offers /\ Selections' = Selections /\ semantic' = semantic
        /\ pick = Journal(pick) /\ pick.paths \subseteq Paths /\ pick.rejected \subseteq Paths
        /\ pick.offered \in Selections /\ pick.selected \in Selections /\ pick.merges \in {{}, {semantic.document}}
        /\ \A p \in Paths : pick.selected[p] \subseteq pick.offered[p]
    BY <1>0, OffersKept DEF SettlingIInv, PickTrue
  <1>2. ASSUME CaptureConflicts PROVE PickTrue'
    <2>1. pick' = Described /\ pick.selected = Nothing
      BY <1>2 DEF CaptureConflicts, SettlingIInv, ChoicesTrue
    <2>2. /\ pick' = [paths |-> pick.paths, journaled |-> TRUE,
                      offered |-> Described.offered, selected |-> pick.selected,
                      rejected |-> pick.rejected, merges |-> pick.merges, captured |-> pick.captured]
          /\ Described.offered \in Selections
      BY <2>1, DescribedTrue
    <2>3. \A p \in Paths : pick.selected[p] = {}
      BY <2>1 DEF Nothing
    <2>4. QED
      BY <1>1, <2>2, <2>3 DEF PickTrue, Journal
  <1>3. ASSUME SelectionWritten PROVE PickTrue'
    <2> DEFINE selected == [p \in Paths |-> IF todo[p] # {} THEN todo[p] ELSE pick.selected[p]]
               rejected == {p \in pick.rejected : todo[p] = {}}
    <2>1. pick' = [pick EXCEPT !.selected = selected, !.rejected = rejected] /\ dpc = "applying"
      BY <1>3 DEF SelectionWritten
    <2>2. \A p \in Paths : todo[p] \subseteq pick.offered[p]
      BY <2>1 DEF SettlingIInv, ChoicesTrue
    <2>3. selected \in Selections /\ rejected \subseteq Paths /\ \A p \in Paths : selected[p] \subseteq pick.offered[p]
      BY <1>1, <2>2 DEF Selections
    <2> HIDE DEF selected, rejected
    <2>4. pick' = [paths |-> pick.paths, journaled |-> pick.journaled, offered |-> pick.offered,
                   selected |-> selected, rejected |-> rejected, merges |-> pick.merges, captured |-> pick.captured]
      <3>1. pick' = Selecting(pick, selected, rejected)
        BY <2>1 DEF Selecting
      <3>2. QED
        BY <1>1, <3>1, JournalFields
    <2>5. QED
      BY <1>1, <2>3, <2>4 DEF PickTrue, Journal
  <1>4. ASSUME MergeWritten PROVE PickTrue'
    <2>1. pick' = [pick EXCEPT !.merges = {semantic.document}]
      BY <1>4 DEF MergeWritten
    <2>2. pick' = [paths |-> pick.paths, journaled |-> pick.journaled, offered |-> pick.offered,
                   selected |-> pick.selected, rejected |-> pick.rejected, merges |-> {semantic.document},
                   captured |-> pick.captured]
      <3>1. pick' = Merging(pick, {semantic.document})
        BY <2>1 DEF Merging
      <3>2. QED
        BY <1>1, <3>1, JournalFields
    <2>3. QED
      BY <1>1, <2>2 DEF PickTrue, Journal
  <1>5. ASSUME NEW p \in pick.paths, NEW named \in {{}} \cup {{r} : r \in pick.offered[p]}, RejectResolution(p, named)
        PROVE  PickTrue'
    <2> DEFINE selected == [pick.selected EXCEPT ![p] = named]
               rejected == pick.rejected \cup {p}
    <2>1. pick' = [pick EXCEPT !.selected = selected, !.rejected = rejected] /\ named \subseteq pick.offered[p]
      <3>1. pick' = [pick EXCEPT !.rejected = @ \cup {p}, !.selected[p] = named] /\ named \subseteq pick.offered[p]
        BY <1>5 DEF RejectResolution
      <3>2. QED
        BY <3>1
    <2>2. selected \in Selections /\ rejected \subseteq Paths /\ \A q \in Paths : selected[q] \subseteq pick.offered[q]
      BY <1>1, <2>1 DEF Selections
    <2> HIDE DEF selected, rejected
    <2>3. pick' = [paths |-> pick.paths, journaled |-> pick.journaled, offered |-> pick.offered,
                   selected |-> selected, rejected |-> rejected, merges |-> pick.merges, captured |-> pick.captured]
      <3>1. pick' = Selecting(pick, selected, rejected)
        BY <2>1 DEF Selecting
      <3>2. QED
        BY <1>1, <3>1, JournalFields
    <2>4. QED
      BY <1>1, <2>2, <2>3 DEF PickTrue, Journal
  <1>6. PickTrue'
    BY <1>2, <1>3, <1>4, <1>5
  <1>7. pins' \in Pins
    BY <1>0 DEF SettlingIInv, ChoicesTrue
  <1>8. QED
    BY <1>0, <1>6, <1>7, JournalKept

(* What is staged, by the person or for one of the commands.               *)
LEMMA StagingSteps ==
    ASSUME SettlingIInv,
           \/ \E p \in Paths : \E result \in Results(p) : StageByHand(p, result)
           \/ \E p \in pick.paths : Materialize(p)
           \/ ApplySpecMerge
    PROVE  SettlingIInv'
  <1>0. pick.paths \subseteq Paths /\ staged \in Selections /\ todo \in Selections
        /\ (\A p \in Paths : One(staged[p]) /\ One(todo[p]))
    BY DEF SettlingIInv, PickTrue, ChoicesTrue
  <1>1. ASSUME NEW p \in Paths, NEW result \in Results(p), StageByHand(p, result)
        PROVE  SettlingIInv'
    <2>1. /\ UNCHANGED <<versions, semantic, pick, catalog, todo, settled, pins, dpc>> /\ dpc = "paused"
          /\ staged' = [staged EXCEPT ![p] = {result}]
      BY <1>1 DEF StageByHand
    <2>2. result \in Offers
      BY DEF Results, Offers
    <2>3. staged' \in Selections /\ \A q \in Paths : One(staged'[q])
      BY <1>0, <2>1, <2>2 DEF Selections, One
    <2>4. QED
      BY <2>1, <2>3, StagingKept DEF DecisionPlace
  <1>2. ASSUME NEW p \in pick.paths, Materialize(p)
        PROVE  SettlingIInv'
    <2>1. /\ UNCHANGED <<versions, semantic, pick, catalog, todo, settled, pins, dpc>> /\ dpc = "applying"
          /\ staged' = [staged EXCEPT ![p] = todo[p]]
      BY <1>2 DEF Materialize
    <2>2. staged' \in Selections /\ \A q \in Paths : One(staged'[q])
      BY <1>0, <2>1 DEF Selections
    <2>3. QED
      BY <2>1, <2>2, StagingKept DEF DecisionPlace
  <1>3. CASE ApplySpecMerge
    <2>1. /\ UNCHANGED <<versions, semantic, pick, catalog, todo, settled, pins>> /\ dpc' = "merging"
          /\ staged' = [p \in Paths |-> IF p \in SpecPaths THEN {semantic.document} ELSE staged[p]]
      BY <1>3 DEF ApplySpecMerge
    <2>2. semantic.document \in Offers
      BY DEF Offers
    <2>3. staged' \in Selections /\ \A q \in Paths : One(staged'[q])
      BY <1>0, <2>1, <2>2 DEF Selections, One
    <2>4. QED
      BY <2>1, <2>3, StagingKept DEF DecisionPlace
  <1>4. QED
    BY <1>1, <1>2, <1>3

(* The pick itself is left as it is.                                       *)
LEMMA KeepingSteps ==
    ASSUME SettlingIInv,
           \/ \E paths \in SUBSET pick.paths : \E choice \in [paths -> UNION {pick.offered[p] : p \in paths}] :
                 ApplyResolution(paths, choice)
           \/ CommitSettled \/ CommitRefused
           \/ \E p \in Paths : \E result \in Results(p) : OthersResolve(p, result)
           \/ UNCHANGED settlingVars
    PROVE  SettlingIInv'
  <1>0. /\ todo \in Selections /\ (\A p \in Paths : One(todo[p])) /\ pins \in Pins /\ dpc \in DecisionPlace
        /\ catalog \subseteq Paths \X Offers /\ pick.paths \subseteq Paths /\ pick.offered \in Selections
    BY DEF SettlingIInv, PickTrue, ChoicesTrue
  <1>1. ASSUME NEW paths \in SUBSET pick.paths, NEW choice \in [paths -> UNION {pick.offered[p] : p \in paths}],
               ApplyResolution(paths, choice)
        PROVE  SettlingIInv'
    <2>1. /\ UNCHANGED <<versions, semantic, pick, catalog, staged, settled, pins>> /\ dpc' = "applying"
          /\ todo' = [p \in Paths |-> IF p \in paths THEN {choice[p]} ELSE {}]
          /\ \A p \in paths : choice[p] \in pick.offered[p]
      BY <1>1 DEF ApplyResolution
    <2>2. todo' \in Selections /\ \A p \in Paths : One(todo'[p]) /\ todo'[p] \subseteq pick.offered[p]
      BY <1>0, <2>1 DEF Selections, One
    <2>3. QED
      BY <1>0, <2>1, <2>2, PickKept DEF DecisionPlace
  <1>2. CASE CommitSettled \/ CommitRefused
    BY <1>0, <1>2, PickKept DEF CommitSettled, CommitRefused, DecisionPlace
  <1>3. ASSUME NEW p \in Paths, NEW result \in Results(p), OthersResolve(p, result)
        PROVE  SettlingIInv'
    <2>1. /\ UNCHANGED <<versions, semantic, pick, staged, todo, settled, pins, dpc>> /\ dpc \in {"idle", "paused"}
          /\ catalog' = catalog \cup {<<p, result>>}
      BY <1>3 DEF OthersResolve
    <2>2. result \in Offers
      BY DEF Results, Offers
    <2>3. catalog \subseteq catalog' /\ catalog' \subseteq Paths \X Offers
      BY <1>0, <2>1, <2>2
    <2>4. QED
      BY <1>0, <2>1, <2>3, PickKept
  <1>4. CASE UNCHANGED settlingVars
    <2>1. SettlingIInv' <=> SettlingIInv
      BY <1>4 DEF settlingVars, SettlingIInv, PickTrue, ChoicesTrue, ForecastTrue, CapturesTrue, DecisionsTrue,
            Selections, Offers, Pins, Singles, Journal, Matches, Described, Candidates, Exact, Captured, Outcome,
            SpecDecision, Decision, Consistent
    <2>2. QED
      BY <2>1
  <1>5. QED
    BY <1>1, <1>2, <1>3, <1>4
(* The results a forecast approved are staged in one go.                   *)
LEMMA StageForecastStep ==
    ASSUME SettlingIInv, StageForecast
    PROVE  SettlingIInv'
  <1>1. /\ UNCHANGED <<versions, semantic, catalog, pins, pick, todo, settled>>
        /\ dpc' = "choosing" /\ dpc = "stopped"
        /\ Matches(Described.offered)
        /\ staged' = [p \in Paths |-> IF p \in SpecPaths /\ pins.merge # {} THEN pins.merge
                                      ELSE IF pins.choices[p] # {} THEN pins.choices[p] ELSE staged[p]]
    BY DEF StageForecast
  <1>2. Offers' = Offers /\ Selections' = Selections /\ Pins' = Pins
    BY <1>1, OffersKept
  <1>3. /\ pins.merge \in {{}, {semantic.document}} /\ pins.choices \in Selections /\ staged \in Selections
        /\ \A p \in Paths : One(staged[p]) /\ One(pins.choices[p])
    BY DEF SettlingIInv, ChoicesTrue, Pins, Singles
  <1>4. semantic.document \in Offers
    BY DEF Offers
  <1>5. staged' \in Selections /\ \A p \in Paths : One(staged'[p])
    BY <1>1, <1>3, <1>4 DEF Selections, One
  <1>6. \A p \in Exact(pick.paths, pins.merge) :
           p \in Paths /\ pins.choices[p] # {} /\ (pins.merge # {} => p \notin SpecPaths)
    BY <1>1 DEF Matches, Exact, SettlingIInv, PickTrue
  <1>7. ForecastTrue'
    <2>1. (Matches(Described.offered))' <=> Matches(Described.offered)
      BY <1>1 DEF Matches, Described, Candidates, Exact
    <2>2. pins.merge # {} => staged'["doc"] = pins.merge /\ staged'["sidecar"] = pins.merge
      BY <1>1 DEF Paths, SpecPaths
    <2>3. \A p \in Exact(pick.paths, pins.merge) : staged'[p] = pins.choices[p] /\ staged'[p] # {}
      BY <1>1, <1>6
    <2>4. QED
      BY <1>1, <2>1, <2>2, <2>3 DEF ForecastTrue, Exact
  <1>8. PickTrue'
    BY <1>1, <1>2 DEF SettlingIInv, PickTrue, Journal
  <1>9. ChoicesTrue'
    BY <1>1, <1>2, <1>5 DEF SettlingIInv, ChoicesTrue, One, DecisionPlace
  <1>10. DecisionsTrue'
    BY <1>1, DecisionsKept DEF SettlingIInv
  <1>11. QED
    BY <1>1, <1>7, <1>8, <1>9, <1>10 DEF SettlingIInv, CapturesTrue

(* What is captured of a pick does not depend on what was before.          *)
LEMMA CapturedSame ==
    ASSUME NEW q, NEW r, NEW index, q.paths = r.paths, q.journaled = r.journaled, q.offered = r.offered,
           q.selected = r.selected, q.rejected = r.rejected, q.merges = r.merges
    PROVE  Captured(q, index) = Captured(r, index)
  BY DEF Captured, Outcome

LEMMA CaptureSteps ==
    ASSUME SettlingIInv, ForecastWritten \/ ContinuePick
    PROVE  SettlingIInv'
  <1> DEFINE q == IF dpc = "choosing"
                  THEN [Described EXCEPT !.merges = pins.merge, !.selected = pins.choices]
                  ELSE pick
  <1>1. /\ UNCHANGED <<versions, semantic, catalog, staged, todo, settled>> /\ dpc' = "continuing"
        /\ pick' = [q EXCEPT !.captured = Captured(q, staged)]
        /\ pins' = pins \/ pins' = NoPins
    BY DEF ForecastWritten, ContinuePick
  <1>2. /\ Offers' = Offers /\ Selections' = Selections /\ Pins' = Pins /\ semantic' = semantic
        /\ pins' \in Pins
    BY <1>1, OffersKept, NothingPinned DEF SettlingIInv, ChoicesTrue
  <1>3. /\ q = Journal(q) /\ q.paths \subseteq Paths /\ q.rejected \subseteq Paths
        /\ q.offered \in Selections /\ q.selected \in Selections /\ q.merges \in {{}, {semantic.document}}
        /\ \A p \in Paths : q.selected[p] \subseteq q.offered[p]
        /\ q.merges # {} => staged["doc"] = staged["sidecar"]
        /\ \A p \in Exact(q.paths, q.merges) : staged[p] # {}
    <2>1. CASE ContinuePick
      <3>1. q = pick
        BY <2>1 DEF ContinuePick
      <3> HIDE DEF q
      <3>2. Consistent /\ \A p \in Paths : staged[p] # {}
        BY <2>1 DEF ContinuePick
      <3>3. \A p \in Exact(pick.paths, pick.merges) : p \in Paths
        BY DEF Exact, SettlingIInv, PickTrue
      <3>4. QED
        BY <3>1, <3>2, <3>3 DEF Consistent, SettlingIInv, PickTrue
    <2>2. CASE ForecastWritten
      <3> DEFINE d == Described
      <3>1. q = [d EXCEPT !.merges = pins.merge, !.selected = pins.choices] /\ dpc = "choosing"
        BY <2>2 DEF ForecastWritten
      <3>2. /\ d = Journal(d) /\ d.paths = pick.paths /\ d.rejected = pick.rejected /\ d.offered \in Selections
        BY DescribedTrue DEF Journal
      <3>3. Matches(d.offered) /\ ForecastTrue /\ pick.paths \subseteq Paths /\ pick.rejected \subseteq Paths
        BY <3>1 DEF SettlingIInv, ForecastTrue, PickTrue
      <3> HIDE DEF q, d
      <3>4. q = [paths |-> d.paths, journaled |-> d.journaled, offered |-> d.offered, selected |-> pins.choices,
                 rejected |-> d.rejected, merges |-> pins.merge, captured |-> d.captured]
        <4>1. q = Choosing(d, pins.merge, pins.choices)
          BY <3>1 DEF Choosing
        <4>2. QED
          BY <3>2, <4>1, JournalFields
      <3>5. pins.choices \in Selections /\ pins.merge \in {{}, {semantic.document}}
        BY DEF SettlingIInv, ChoicesTrue, Pins, Singles
      <3>6. \A p \in Paths : pins.choices[p] \subseteq d.offered[p]
        BY <3>3 DEF Matches
      <3>7. QED
        BY <3>1, <3>2, <3>3, <3>4, <3>5, <3>6 DEF ForecastTrue, Journal
    <2>3. QED
      BY <2>1, <2>2
  <1> HIDE DEF q
  <1>4. pick' = [paths |-> q.paths, journaled |-> q.journaled, offered |-> q.offered, selected |-> q.selected,
                 rejected |-> q.rejected, merges |-> q.merges, captured |-> Captured(q, staged)]
    <2>1. pick' = Capturing(q, Captured(q, staged))
      BY <1>1 DEF Capturing
    <2>2. QED
      BY <1>3, <2>1, JournalFields
  <1>5. PickTrue'
    BY <1>2, <1>3, <1>4 DEF PickTrue, Journal
  <1>6. pick'.captured = Captured(pick', staged)
    <2>1. /\ pick'.paths = q.paths /\ pick'.journaled = q.journaled /\ pick'.offered = q.offered
          /\ pick'.selected = q.selected /\ pick'.rejected = q.rejected /\ pick'.merges = q.merges
          /\ pick'.captured = Captured(q, staged)
      BY <1>4
    <2>2. QED
      BY <2>1, CapturedSame
  <1>7. CapturesTrue'
    <2>1. Captured(pick', staged) = (Captured(pick, staged))'
      BY <1>1 DEF Captured, Outcome, SpecDecision, Exact, Decision
    <2>2. Consistent' /\ \A p \in Exact(pick'.paths, pick'.merges) : staged'[p] # {}
      BY <1>1, <1>3, <1>4 DEF Consistent
    <2>3. QED
      BY <1>6, <2>1, <2>2 DEF CapturesTrue, Exact
  <1>8. ChoicesTrue'
    BY <1>1, <1>2 DEF SettlingIInv, ChoicesTrue, One, DecisionPlace
  <1>9. DecisionsTrue'
    BY <1>1, DecisionsKept DEF SettlingIInv
  <1>10. QED
    BY <1>1, <1>5, <1>7, <1>8, <1>9 DEF SettlingIInv, ForecastTrue

(* What was captured becomes the record, and its results are published.    *)
LEMMA PublishSettledStep ==
    ASSUME SettlingIInv, PublishSettled
    PROVE  SettlingIInv'
  <1>1. PICK record \in pick.captured :
           /\ settled' = settled \cup {[pick |-> pick, committed |-> staged, spec |-> record.spec,
                                        outcomes |-> record.outcomes]}
           /\ catalog' = catalog \cup UNION {{p} \X record.outcomes[p].result : p \in DOMAIN record.outcomes}
    BY DEF PublishSettled
  <1>2. /\ dpc = "committed" /\ dpc' = "idle" /\ pick' = NoPick /\ staged' = Nothing
        /\ UNCHANGED <<versions, semantic, pins, todo>>
    BY DEF PublishSettled
  <1>3. record \in Captured(pick, staged) /\ Consistent /\ \A p \in Exact(pick.paths, pick.merges) : staged[p] # {}
    BY <1>1, <1>2 DEF SettlingIInv, CapturesTrue
  <1>4. \A p \in DOMAIN record.outcomes : p \in Paths /\ record.outcomes[p].result = staged[p]
    <2> DEFINE D == IF pick.journaled THEN Exact(pick.paths, pick.merges) ELSE {}
    <2>1. record.outcomes = [p \in D |-> Outcome(pick, p, staged[p])]
      BY <1>3 DEF Captured
    <2>2. D \subseteq Paths
      BY DEF Exact, SettlingIInv, PickTrue
    <2> HIDE DEF D
    <2>3. QED
      BY <2>1, <2>2 DEF Outcome
  <1>5. catalog' \subseteq Paths \X Offers /\ catalog \subseteq catalog'
    BY <1>1, <1>4 DEF SettlingIInv, ChoicesTrue, Selections
  <1>6. DecisionsTrue'
    <2> DEFINE new == [pick |-> pick, committed |-> staged, spec |-> record.spec, outcomes |-> record.outcomes]
               True(a, semantic0, catalog0) ==
                  /\ DOMAIN a.outcomes = {p \in a.pick.paths : a.spec = "none" \/ p = "code"}
                  /\ a.spec # "none" => a.committed["sidecar"] = a.committed["doc"]
                  /\ a.spec = "accepted" <=> (a.spec # "none" /\ a.committed["doc"] = {semantic0.document})
                  /\ \A p \in DOMAIN a.outcomes :
                        LET o == a.outcomes[p] IN
                        /\ a.committed[p] = o.result /\ o.reused = a.pick.offered[p] \cap a.committed[p]
                        /\ o.decision = "created" <=> a.pick.offered[p] = {}
                        /\ o.decision = "accepted" => o.reused # {} /\ p \notin a.pick.rejected
                        /\ o.decision = "modified" => o.selected # a.committed[p]
                        /\ o.decision = "rejected" => p \in a.pick.rejected \/ o.reused = {}
                        /\ ({p} \X a.committed[p]) \subseteq catalog0
    <2>1. \A a \in settled : a.pick.journaled => True(a, semantic, catalog')
      BY <1>5 DEF SettlingIInv, DecisionsTrue
    <2>2. pick.journaled => True(new, semantic, catalog')
      <3> SUFFICES ASSUME pick.journaled PROVE True(new, semantic, catalog')
        OBVIOUS
      <3>1. \A p \in DOMAIN record.outcomes : ({p} \X staged[p]) \subseteq catalog'
        BY <1>1, <1>4
      <3>2. new.pick = pick /\ new.committed = staged /\ new.spec = record.spec /\ new.outcomes = record.outcomes
        OBVIOUS
      <3> HIDE DEF new
      <3>3. QED
        BY <1>3, <3>1, <3>2, RecordTrue DEF SettlingIInv
    <2>3. new.pick = pick
      OBVIOUS
    <2> HIDE DEF new, True
    <2>4. \A a \in settled' : a.pick.journaled => True(a, semantic', catalog')
      BY <1>1, <1>2, <2>1, <2>2, <2>3 DEF new
    <2>5. QED
      BY <2>4 DEF DecisionsTrue, True
  <1>7. QED
    BY <1>2, <1>5, <1>6, Cleared DEF SettlingIInv, ChoicesTrue

LEMMA EndingSteps ==
    ASSUME SettlingIInv, AbortSettling \/ CrashSettling
    PROVE  SettlingIInv'
  <1>1. /\ UNCHANGED <<versions, semantic, catalog, settled>>
        /\ todo' = todo \/ todo' = Nothing
        /\ pins' \in Pins /\ catalog \subseteq Paths \X Offers
    BY NothingPinned DEF AbortSettling, CrashSettling, SettlingIInv, ChoicesTrue
  <1>2. CASE pick' = NoPick /\ staged' = Nothing /\ dpc' = "idle"
    <2>1. DecisionsTrue'
      BY <1>1, DecisionsKept DEF SettlingIInv
    <2>2. UNCHANGED <<versions, semantic>> /\ catalog' \subseteq Paths \X Offers
      BY <1>1
    <2>3. QED
      BY <1>1, <1>2, <2>1, <2>2, Cleared
  <1>3. CASE UNCHANGED <<pick, staged>> /\ dpc' = "paused" /\ todo' = Nothing
    <2>1. todo' \in Selections /\ \A p \in Paths : One(todo'[p])
      BY <1>3, NothingPinned
    <2>2. catalog \subseteq catalog' /\ catalog' \subseteq Paths \X Offers
      BY <1>1
    <2>3. QED
      BY <1>1, <1>3, <2>1, <2>2, PickKept DEF DecisionPlace
  <1>4. QED
    BY <1>2, <1>3 DEF AbortSettling, CrashSettling

LEMMA SettlingStep == SettlingIInv /\ [SettlingNext]_settlingVars => SettlingIInv'
  <1> SUFFICES ASSUME SettlingIInv, [SettlingNext]_settlingVars PROVE SettlingIInv'
    OBVIOUS
  <1>1. CASE \E paths \in Unmerged : ForecastPick(paths)
    BY <1>1, ForecastPickStep
  <1>2. CASE \E paths \in Unmerged, merged \in Drafts : Stop(paths, merged)
    BY <1>2, StopStep
  <1>3. CASE UNCHANGED settlingVars
    BY <1>3, KeepingSteps
  <1>4. CASE \E p \in Paths : \E result \in Results(p) : StageByHand(p, result) \/ OthersResolve(p, result)
    BY <1>4, StagingSteps, KeepingSteps
  <1>5. CASE \E paths \in SUBSET pick.paths : \E choice \in [paths -> UNION {pick.offered[p] : p \in paths}] :
                ApplyResolution(paths, choice)
    BY <1>5, KeepingSteps
  <1>6. CASE \E p \in pick.paths : Materialize(p)
    BY <1>6, StagingSteps
  <1>7. CASE \E p \in pick.paths : \E named \in {{}} \cup {{r} : r \in pick.offered[p]} : RejectResolution(p, named)
    BY <1>7, PausedSteps
  <1>8. QED
    BY <1>1, <1>2, <1>3, <1>4, <1>5, <1>6, <1>7, PausedSteps, StagingSteps, KeepingSteps, StageForecastStep,
       CaptureSteps, PublishSettledStep, EndingSteps
    DEF SettlingNext

(* What is recorded of a conflict is what was committed of it: every path  *)
(* once, accepted only what had been offered, and every result published - *)
(* whoever staged it, and wherever a command was killed.                   *)
THEOREM DecisionsAreTrue == SettlingSpec => []DecisionsTrue
  <1>1. SettlingIInv => DecisionsTrue
    BY DEF SettlingIInv
  <1>2. QED
    BY <1>1, SettlingStart, SettlingStep, PTL DEF SettlingSpec
=============================================================================
