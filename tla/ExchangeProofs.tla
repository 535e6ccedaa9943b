--------------------------- MODULE ExchangeProofs ---------------------------
(***************************************************************************)
(* Proofs about Exchange, for every set of clones and facts and every      *)
(* bound: an import drops nothing and doubles nothing, and a decision is   *)
(* not asked for twice.                                                    *)
(***************************************************************************)
EXTENDS Exchange, TLAPS

USE FactAssumption

(* No two facts of one envelope, or of one quarantine, have one id.        *)
SingleIds(facts) == \A f, g \in facts : f.id = g.id => f = g

(* No two resolutions have one ref.                                        *)
SingleRefs(facts) == \A f, g \in Resolutions(facts) : f.ref = g.ref => f = g

PlanKind == [stage : {"none", "staged"}, envelope : SUBSET Fact, park : SUBSET Fact,
         disposed : SUBSET Fact, refused : SUBSET Fact, existed : SUBSET Ids(Fact)]
DecisionKind == [stage : {"none", "clear", "file"}, parked : SUBSET Fact, copy : SUBSET Fact,
             outcome : {"none", "keep", "replace"}]

(* The kinds of the variables, and what holds of the sets they carry.      *)
ExchangeKinds ==
    /\ notes \in [Clone -> SUBSET Fact] /\ refs \in [Clone -> SUBSET Resolutions(Fact)]
    /\ parked \in [Clone -> SUBSET Fact] /\ rejected \in [Clone -> SUBSET Fact]
    /\ sent \in SUBSET SUBSET Fact
    /\ plan \in [Clone -> PlanKind] /\ decision \in [Clone -> DecisionKind]
    /\ dropped \in [Clone -> SUBSET Fact] /\ raced \in [Clone -> SUBSET Ids(Fact)]
    /\ records \in 0..MaxRecords /\ exports \in 0..MaxExports
    /\ imports \in 0..MaxImports /\ disposals \in 0..MaxDisposals

(* What is exported, staged and parked is single; a plan is of its         *)
(* envelope; a decision is about one id.                                   *)
ExchangeShapes ==
    /\ \A e \in sent : SingleIds(e) /\ SingleRefs(e)
    /\ \A c \in Clone :
         /\ SingleRefs(refs[c]) /\ SingleIds(parked[c])
         /\ SingleIds(plan[c].envelope) /\ SingleRefs(plan[c].envelope)
         /\ plan[c].stage = "none" => plan[c].envelope = {}
         /\ plan[c].park \cup plan[c].disposed \cup plan[c].refused \subseteq plan[c].envelope
         /\ \A f \in decision[c].parked, g \in decision[c].copy : f.id = g.id /\ decision[c].copy = {g}
                                                                 /\ decision[c].parked = {f}
         /\ decision[c].stage # "none" => decision[c].parked # {} /\ decision[c].copy # {}

(* What a plan means to add is, id by id, new to the clone, there already, *)
(* or bound to collide with what is there: unless the id has been raced.   *)
PlansSafe ==
    \A c \in Clone : \A f \in plan[c].envelope \ (plan[c].park \cup plan[c].disposed) :
        f.id \notin raced[c] => \A g \in notes[c] : g.id = f.id => g = f \/ g.at = f.at

(* The copy a disposition is about to replace is still the only one.       *)
CopiesSafe ==
    \A c \in Clone : decision[c].stage = "clear" =>
        /\ \A f \in decision[c].copy : f.id \notin raced[c] => SameId(notes[c], f) = {f}
        /\ decision[c].outcome = "replace" =>
              \A f \in decision[c].parked, g \in decision[c].copy : f.at = g.at

(* Between the clearing of a dispute and its filing, the id is parked      *)
(* again only behind the decision's back.                                  *)
ClearedSafe ==
    \A c \in Clone : decision[c].stage = "file" =>
        \A f \in decision[c].parked : f.id \in Ids(parked[c]) => f.id \in raced[c]

(* A plan parks no rejected fact, but for a ref that points elsewhere.     *)
ParksSafe ==
    \A c \in Clone : \A f \in plan[c].park \cap rejected[c] : f.id \in raced[c] \/ Refused(c, f)

ExchangeIInv ==
    /\ ExchangeKinds /\ ExchangeShapes /\ PlansSafe /\ CopiesSafe /\ ClearedSafe /\ ParksSafe
    /\ OneFact /\ NothingDropped /\ DecidedStays

-----------------------------------------------------------------------------
(* The operators.                                                          *)

(* What is in service has distinct ids, and distinct refs if the clone's   *)
(* refs have.                                                              *)
LEMMA AcceptedSingle ==
    ASSUME ExchangeKinds, ExchangeShapes, NEW c \in Clone
    PROVE  Accepted(c) \in SUBSET Fact /\ SingleIds(Accepted(c)) /\ SingleRefs(Accepted(c))
  BY DEF Accepted, ExchangeKinds, ExchangeShapes, SingleIds, SingleRefs, SameId, Resolutions

(* What a preview decides.                                                 *)
LEMMA PlannedShape ==
    ASSUME ExchangeKinds, ExchangeShapes, NEW c \in Clone, NEW e \in sent
    PROVE  LET p == Planned(c, e) IN
           /\ p \in PlanKind /\ p.envelope = e /\ p.stage = "staged"
           /\ p.park \cup p.disposed \cup p.refused \subseteq e
           /\ \A f \in e \ (p.park \cup p.disposed) : f \in notes[c] \/ SameId(notes[c], f) = {}
           /\ \A f \in p.park : Refused(c, f) \/ f \notin rejected[c]
  BY DEF Planned, PlanKind, ExchangeKinds, Conflicts, Decided, Local, SameId, Ids

(* A ref that points at a resolution goes on pointing there.               *)
LEMMA RefusedStays ==
    ASSUME ExchangeKinds, NEW c \in Clone, NEW f \in Fact, Refused(c, f),
           refs[c] \subseteq refs'[c]
    PROVE  Refused(c, f)'
  BY DEF Refused, RefTarget

-----------------------------------------------------------------------------
(* The invariant holds at the start, and every step preserves it.          *)

LEMMA ExchangeStarts == ExchangeInit => ExchangeIInv
  BY DEF ExchangeInit, ExchangeIInv, ExchangeKinds, ExchangeShapes, PlansSafe, CopiesSafe, ClearedSafe, ParksSafe,
         OneFact, NothingDropped, DecidedStays, NoPlan, NoDecision, PlanKind, DecisionKind,
         SingleIds, SingleRefs, Resolutions, Ids

LEMMA RecordKeeps ==
    ASSUME ExchangeIInv, NEW c \in Clone, NEW f \in Fact, Record(c, f)
    PROVE  ExchangeIInv'
  <1> USE DEF ExchangeIInv, Record
  <1>1. ExchangeKinds'
    BY DEF ExchangeKinds, Behind, Resolutions, Ids
  <1>2. ExchangeShapes'
    BY DEF ExchangeKinds, ExchangeShapes, SingleIds, SingleRefs, Resolutions, RefTarget
  <1>3. refs[c] \subseteq refs'[c] /\ \A d \in Clone : refs[d] \subseteq refs'[d]
    BY DEF ExchangeKinds
  <1>4. PlansSafe' /\ CopiesSafe'
    BY DEF ExchangeKinds, ExchangeShapes, PlansSafe, CopiesSafe, Behind, Ids, SameId, PlanKind
  <1>5. ClearedSafe' /\ NothingDropped'
    BY DEF ExchangeKinds, ClearedSafe, NothingDropped, Behind, Ids
  <1>6. ParksSafe' /\ DecidedStays'
    BY <1>3, RefusedStays DEF ExchangeKinds, ParksSafe, DecidedStays, Behind, Ids, PlanKind
  <1>7. OneFact'
    BY DEF ExchangeKinds, OneFact, Behind, Ids, SameId
  <1>8. QED
    BY <1>1, <1>2, <1>4, <1>5, <1>6, <1>7

LEMMA ExportKeeps ==
    ASSUME ExchangeIInv, NEW c \in Clone, Export(c)
    PROVE  ExchangeIInv'
  <1> USE DEF ExchangeIInv, Export
  <1>1. ExchangeKinds' /\ ExchangeShapes'
    BY AcceptedSingle DEF ExchangeKinds, ExchangeShapes
  <1>2. PlansSafe' /\ CopiesSafe' /\ ClearedSafe' /\ ParksSafe' /\ OneFact' /\ NothingDropped' /\ DecidedStays'
    BY DEF PlansSafe, CopiesSafe, ClearedSafe, ParksSafe, OneFact, NothingDropped, DecidedStays,
           SameId, Ids, Refused, RefTarget
  <1>3. QED
    BY <1>1, <1>2

LEMMA PreviewKeeps ==
    ASSUME ExchangeIInv, NEW c \in Clone, NEW e \in sent, Preview(c, e)
    PROVE  ExchangeIInv'
  <1> USE DEF ExchangeIInv, Preview
  <1>1. plan' = [plan EXCEPT ![c] = NoPlan] \/ plan' = [plan EXCEPT ![c] = Planned(c, e)]
    OBVIOUS
  <1>2. NoPlan \in PlanKind /\ NoPlan.envelope = {} /\ NoPlan.park = {} /\ NoPlan.disposed = {} /\ NoPlan.refused = {}
    BY DEF NoPlan, PlanKind, Ids
  <1>3. ExchangeKinds'
    BY <1>1, <1>2, PlannedShape DEF ExchangeKinds
  <1>4. \A d \in Clone : \/ plan'[d] = plan[d]
                         \/ plan'[d] = NoPlan
                         \/ d = c /\ plan'[d] = Planned(c, e)
    BY <1>1 DEF ExchangeKinds
  <1>5. ExchangeShapes'
    BY <1>2, <1>4, PlannedShape DEF ExchangeShapes, SingleIds, SingleRefs, Resolutions
  <1>6. PlansSafe'
    BY <1>2, <1>4, PlannedShape DEF PlansSafe, OneFact, SameId
  <1>7. ParksSafe'
    BY <1>2, <1>4, PlannedShape DEF ParksSafe, Refused, RefTarget
  <1>8. CopiesSafe' /\ ClearedSafe' /\ OneFact' /\ NothingDropped' /\ DecidedStays'
    BY DEF CopiesSafe, ClearedSafe, OneFact, NothingDropped, DecidedStays, SameId, Ids, Refused, RefTarget
  <1>9. QED
    BY <1>3, <1>5, <1>6, <1>7, <1>8

LEMMA AbandonKeeps ==
    ASSUME ExchangeIInv, NEW c \in Clone, Abandon(c)
    PROVE  ExchangeIInv'
  <1> USE DEF ExchangeIInv, Abandon
  <1>1. NoPlan \in PlanKind /\ NoPlan.envelope = {} /\ NoPlan.park = {} /\ NoPlan.disposed = {} /\ NoPlan.refused = {}
    BY DEF NoPlan, PlanKind, Ids
  <1>2. \A d \in Clone : plan'[d] = plan[d] \/ plan'[d] = NoPlan
    BY DEF ExchangeKinds
  <1>3. ExchangeKinds' /\ ExchangeShapes'
    BY <1>1, <1>2 DEF ExchangeKinds, ExchangeShapes, SingleIds, SingleRefs, Resolutions
  <1>4. PlansSafe' /\ ParksSafe'
    BY <1>1, <1>2 DEF PlansSafe, ParksSafe, Refused, RefTarget
  <1>5. CopiesSafe' /\ ClearedSafe' /\ OneFact' /\ NothingDropped' /\ DecidedStays'
    BY DEF CopiesSafe, ClearedSafe, OneFact, NothingDropped, DecidedStays, SameId, Ids, Refused, RefTarget
  <1>6. QED
    BY <1>3, <1>4, <1>5

LEMMA DisposeKeeps ==
    ASSUME ExchangeIInv, NEW c \in Clone, NEW f \in parked[c], NEW g \in notes[c],
           NEW outcome \in {"keep", "replace"}, Dispose(c, f, g, outcome)
    PROVE  ExchangeIInv'
  <1> USE DEF ExchangeIInv, Dispose
  <1> DEFINE d == [stage |-> "clear", parked |-> {f}, copy |-> {g}, outcome |-> outcome]
  <1>1. d \in DecisionKind /\ f.id = g.id
    BY DEF ExchangeKinds, DecisionKind, SameId
  <1>2. \A o \in Clone : decision'[o] = IF o = c THEN d ELSE decision[o]
    BY DEF ExchangeKinds
  <1>3. ExchangeKinds'
    BY <1>1 DEF ExchangeKinds
  <1>4. ExchangeShapes'
    BY <1>1, <1>2 DEF ExchangeShapes, SingleIds, SingleRefs, Resolutions
  <1>5. CopiesSafe'
    BY <1>1, <1>2 DEF CopiesSafe, SameId
  <1>6. ClearedSafe'
    BY <1>2 DEF ClearedSafe, Ids
  <1>7. PlansSafe' /\ ParksSafe' /\ OneFact' /\ NothingDropped' /\ DecidedStays'
    BY DEF PlansSafe, ParksSafe, OneFact, NothingDropped, DecidedStays, SameId, Refused, RefTarget
  <1>8. QED
    BY <1>3, <1>4, <1>5, <1>6, <1>7

LEMMA GivesUpKeeps ==
    ASSUME ExchangeIInv, NEW c \in Clone, GivesUp(c)
    PROVE  ExchangeIInv'
  <1> USE DEF ExchangeIInv, GivesUp
  <1>1. NoDecision \in DecisionKind /\ NoDecision.stage = "none" /\ NoDecision.parked = {} /\ NoDecision.copy = {}
    BY DEF NoDecision, DecisionKind
  <1>2. \A o \in Clone : decision'[o] = decision[o] \/ decision'[o] = NoDecision
    BY DEF ExchangeKinds
  <1>3. ExchangeKinds' /\ ExchangeShapes'
    BY <1>1, <1>2 DEF ExchangeKinds, ExchangeShapes, SingleIds, SingleRefs, Resolutions
  <1>4. CopiesSafe' /\ ClearedSafe'
    BY <1>1, <1>2 DEF CopiesSafe, ClearedSafe, SameId, Ids
  <1>5. PlansSafe' /\ ParksSafe' /\ OneFact' /\ NothingDropped' /\ DecidedStays'
    BY DEF PlansSafe, ParksSafe, OneFact, NothingDropped, DecidedStays, SameId, Refused, RefTarget
  <1>6. QED
    BY <1>3, <1>4, <1>5

LEMMA ClearKeeps ==
    ASSUME ExchangeIInv, NEW c \in Clone, Clear(c)
    PROVE  ExchangeIInv'
  <1> USE DEF ExchangeIInv, Clear
  <1> PICK f \in decision[c].parked, g \in decision[c].copy : TRUE
    BY DEF ExchangeShapes
  <1>1. /\ decision[c].parked = {f} /\ decision[c].copy = {g} /\ f.id = g.id
        /\ f \in Fact /\ g \in Fact
    BY DEF ExchangeKinds, ExchangeShapes, DecisionKind
  <1>2. /\ decision' = [decision EXCEPT ![c] = [decision[c] EXCEPT !.stage = "file"]]
        /\ [decision[c] EXCEPT !.stage = "file"] \in DecisionKind
    BY DEF ExchangeKinds, DecisionKind
  <1>3. \/ notes' = notes
        \/ notes' = [notes EXCEPT ![c] = (@ \ {g}) \cup {f}] /\ f.at = g.at
    BY <1>1 DEF CopiesSafe
  <1>4. parked' = [parked EXCEPT ![c] = @ \ {f}] /\ f \in parked[c]
    BY <1>1
  <1>5. ExchangeKinds'
    BY <1>1, <1>2, <1>3, <1>4 DEF ExchangeKinds
  <1>6. \A o \in Clone : /\ decision'[o].parked = decision[o].parked
                         /\ decision'[o].copy = decision[o].copy
                         /\ decision'[o].stage = IF o = c THEN "file" ELSE decision[o].stage
                         /\ decision'[o].outcome = decision[o].outcome
    BY <1>2 DEF ExchangeKinds, DecisionKind
  <1>7. ExchangeShapes'
    BY <1>4, <1>6 DEF ExchangeKinds, ExchangeShapes, SingleIds, SingleRefs, Resolutions
  <1>8. g.id \notin raced[c] => SameId(notes[c], g) = {g}
    BY <1>1 DEF CopiesSafe
  <1>9. OneFact'
    BY <1>1, <1>3, <1>8 DEF ExchangeKinds, OneFact, SameId
  <1>10. PlansSafe'
    BY <1>1, <1>3, <1>8 DEF ExchangeKinds, PlansSafe, SameId
  <1>11. CopiesSafe'
    <2>1. \A o \in Clone \ {c} : notes'[o] = notes[o]
      BY <1>3 DEF ExchangeKinds
    <2>2. QED
      BY <1>6, <2>1 DEF CopiesSafe, SameId
  <1>12. ClearedSafe'
    <2>1. f.id \notin Ids(parked'[c])
      BY <1>4 DEF ExchangeKinds, ExchangeShapes, SingleIds, Ids
    <2>2. \A o \in Clone \ {c} : parked'[o] = parked[o]
      BY <1>4 DEF ExchangeKinds
    <2>3. QED
      BY <1>1, <1>6, <2>1, <2>2 DEF ClearedSafe, Ids
  <1>13. ParksSafe' /\ NothingDropped' /\ DecidedStays'
    BY <1>4 DEF ExchangeKinds, ParksSafe, NothingDropped, DecidedStays, Refused, RefTarget
  <1>14. QED
    BY <1>5, <1>7, <1>9, <1>10, <1>11, <1>12, <1>13

LEMMA FileKeeps ==
    ASSUME ExchangeIInv, NEW c \in Clone, File(c)
    PROVE  ExchangeIInv'
  <1> USE DEF ExchangeIInv, File
  <1> PICK f \in decision[c].parked, g \in decision[c].copy : TRUE
    BY DEF ExchangeShapes
  <1>1. /\ decision[c].parked = {f} /\ decision[c].copy = {g} /\ f.id = g.id
        /\ f \in Fact /\ g \in Fact
    BY DEF ExchangeKinds, ExchangeShapes, DecisionKind
  <1>2. NoDecision \in DecisionKind /\ NoDecision.stage = "none" /\ NoDecision.parked = {} /\ NoDecision.copy = {}
    BY DEF NoDecision, DecisionKind
  <1>3. PICK h \in {f, g} : rejected' = [rejected EXCEPT ![c] = @ \cup {h}]
    BY <1>1
  <1>4. raced' = [raced EXCEPT ![c] = @ \cup (IF plan[c].stage = "none" THEN {} ELSE {f.id})]
    <2>1. Ids(decision[c].parked) = {f.id}
      BY <1>1 DEF Ids
    <2>2. QED
      BY <2>1 DEF Behind
  <1>5. \A o \in Clone : decision'[o] = IF o = c THEN NoDecision ELSE decision[o]
    BY DEF ExchangeKinds
  <1>6. ExchangeKinds' /\ \A o \in Clone : raced[o] \subseteq raced'[o]
    BY <1>1, <1>2, <1>3, <1>4 DEF ExchangeKinds, Ids
  <1>7. ExchangeShapes'
    BY <1>2, <1>5 DEF ExchangeShapes, SingleIds, SingleRefs, Resolutions
  <1>8. PlansSafe' /\ OneFact' /\ NothingDropped'
    BY <1>6 DEF PlansSafe, OneFact, NothingDropped, SameId
  <1>9. CopiesSafe' /\ ClearedSafe'
    BY <1>2, <1>5, <1>6 DEF CopiesSafe, ClearedSafe, SameId
  <1>10. ParksSafe'
    <2>1. plan[c].park # {} => f.id \in raced'[c]
      BY <1>4 DEF ExchangeKinds, ExchangeShapes
    <2>2. \A o \in Clone : rejected'[o] = IF o = c THEN rejected[c] \cup {h} ELSE rejected[o]
      BY <1>3 DEF ExchangeKinds
    <2>3. UNCHANGED <<plan, refs>> /\ h.id = f.id
      BY <1>1
    <2>4. QED
      BY <1>6, <2>1, <2>2, <2>3 DEF ParksSafe, Refused, RefTarget
  <1>11. DecidedStays'
    <2>1. h \in parked[c] => h.id \in raced[c]
      BY <1>1 DEF ClearedSafe, Ids
    <2>2. QED
      BY <1>3, <1>6, <2>1 DEF ExchangeKinds, DecidedStays, Refused, RefTarget
  <1>12. QED
    BY <1>6, <1>7, <1>8, <1>9, <1>10, <1>11

(* What an applied import writes.                                          *)
AppliedFacts(c) ==
    IF notes[c] = {} /\ plan[c].park = {} THEN plan[c].envelope
    ELSE Combined(c, plan[c].envelope \ (plan[c].park \cup plan[c].disposed))
AppliedParks(c) == plan[c].park \cup {f \in parked[c] : f.id \notin Ids(plan[c].park)}

(* Applied to a clone that has notes, every fact to be added finds its     *)
(* place free, or is there already.                                        *)
LEMMA CombinedWhole ==
    ASSUME ExchangeKinds, NEW c \in Clone, ~Outdated(c), notes[c] # {}
    PROVE  LET facts == plan[c].envelope \ (plan[c].park \cup plan[c].disposed)
           IN /\ Combined(c, facts) = notes[c] \cup facts
              /\ \A f \in facts, g \in notes[c] : f.id = g.id /\ f.at = g.at => f = g
  BY DEF Outdated, Collides, Combined

(* The facts of a clone after an import: what it had, and facts of the     *)
(* plan whose ids it did not have, where nothing was raced.                *)
LEMMA AppliedWhole ==
    ASSUME ExchangeIInv, NEW c \in Clone, Apply(c)
    PROVE  /\ AppliedFacts(c) \in SUBSET Fact /\ AppliedParks(c) \in SUBSET Fact
           /\ plan[c].envelope \ (AppliedFacts(c) \cup AppliedParks(c) \cup plan[c].disposed) = {}
           /\ notes[c] \subseteq AppliedFacts(c)
           /\ \A f \in AppliedFacts(c) \ notes[c] :
                 /\ f \in plan[c].envelope
                 /\ f.id \notin raced[c] => f.id \notin Ids(notes[c])
           /\ SingleIds(AppliedParks(c))
  <1> DEFINE p == plan[c]
             facts == p.envelope \ (p.park \cup p.disposed)
  <1> USE DEF ExchangeIInv
  <1>1. /\ p \in PlanKind /\ ~Outdated(c) /\ notes[c] \in SUBSET Fact /\ parked[c] \in SUBSET Fact
        /\ p.park \subseteq p.envelope /\ SingleIds(p.envelope) /\ SingleIds(parked[c])
    BY DEF Apply, ExchangeKinds, ExchangeShapes
  <1>2. SingleIds(AppliedParks(c)) /\ AppliedParks(c) \in SUBSET Fact /\ p.park \subseteq AppliedParks(c)
    BY <1>1 DEF AppliedParks, SingleIds, Ids, PlanKind
  <1>3. \A f \in facts : f.id \notin raced[c] => \A g \in notes[c] : g.id = f.id => g = f \/ g.at = f.at
    BY DEF PlansSafe
  <1>4. CASE notes[c] = {}
    <2>1. AppliedFacts(c) = p.envelope \/ AppliedFacts(c) = facts
      BY <1>4 DEF AppliedFacts, Combined
    <2>2. QED
      BY <1>1, <1>2, <1>4, <2>1 DEF PlanKind, Ids
  <1>5. CASE notes[c] # {}
    <2>1. /\ AppliedFacts(c) = notes[c] \cup facts
          /\ \A f \in facts, g \in notes[c] : f.id = g.id /\ f.at = g.at => f = g
      BY <1>1, <1>5, CombinedWhole DEF AppliedFacts
    <2>2. \A f \in facts \ notes[c] : f.id \notin raced[c] => f.id \notin Ids(notes[c])
      BY <1>3, <2>1 DEF Ids
    <2>3. QED
      BY <1>1, <1>2, <2>1, <2>2 DEF PlanKind
  <1>6. QED
    BY <1>4, <1>5

LEMMA ApplyKeeps ==
    ASSUME ExchangeIInv, NEW c \in Clone, Apply(c)
    PROVE  ExchangeIInv'
  <1> DEFINE p == plan[c]
             D == IF decision[c].stage = "file" THEN Ids(decision[c].parked) ELSE {}
  <1> USE DEF ExchangeIInv
  <1>1. /\ notes' = [notes EXCEPT ![c] = AppliedFacts(c)]
        /\ parked' = [parked EXCEPT ![c] = AppliedParks(c)]
        /\ refs' = [refs EXCEPT ![c] = @ \cup {f \in Resolutions(p.envelope) : RefTarget(c, f) = {}}]
        /\ dropped' = [dropped EXCEPT ![c] =
              @ \cup (p.envelope \ (AppliedFacts(c) \cup AppliedParks(c) \cup p.disposed))]
        /\ raced' = [raced EXCEPT ![c] = @ \cup D]
        /\ plan' = [plan EXCEPT ![c] = NoPlan]
        /\ UNCHANGED <<rejected, sent, decision, records, exports, imports, disposals>>
    BY DEF Apply, AppliedFacts, AppliedParks
  <1>2. NoPlan \in PlanKind /\ NoPlan.envelope = {} /\ NoPlan.park = {} /\ NoPlan.disposed = {} /\ NoPlan.refused = {}
    BY DEF NoPlan, PlanKind, Ids
  <1>3. D \in SUBSET Ids(Fact) /\ p \in PlanKind
    BY DEF ExchangeKinds, DecisionKind, Ids
  <1>4. ExchangeKinds'
    <2>1. /\ notes' \in [Clone -> SUBSET Fact] /\ parked' \in [Clone -> SUBSET Fact]
          /\ plan' \in [Clone -> PlanKind]
      BY <1>1, <1>2, AppliedWhole DEF ExchangeKinds
    <2>2. refs' \in [Clone -> SUBSET Resolutions(Fact)]
      BY <1>1, <1>3 DEF ExchangeKinds, PlanKind, Resolutions
    <2>3. dropped' \in [Clone -> SUBSET Fact] /\ raced' \in [Clone -> SUBSET Ids(Fact)]
      BY <1>1, <1>3 DEF ExchangeKinds, PlanKind
    <2>4. QED
      BY <1>1, <2>1, <2>2, <2>3 DEF ExchangeKinds
  <1>5. \A o \in Clone : /\ notes'[o] = IF o = c THEN AppliedFacts(c) ELSE notes[o]
                         /\ parked'[o] = IF o = c THEN AppliedParks(c) ELSE parked[o]
                         /\ plan'[o] = IF o = c THEN NoPlan ELSE plan[o]
                         /\ raced[o] \subseteq raced'[o] /\ refs[o] \subseteq refs'[o]
                         /\ o # c => refs'[o] = refs[o]
    BY <1>1 DEF ExchangeKinds
  <1>6. ExchangeShapes'
    <2>1. SingleRefs(refs'[c])
      <3>1. refs'[c] = refs[c] \cup {f \in Resolutions(p.envelope) : RefTarget(c, f) = {}}
        BY <1>1 DEF ExchangeKinds
      <3>2. SingleRefs(p.envelope) /\ SingleRefs(refs[c])
        BY DEF ExchangeShapes
      <3>3. QED
        BY <3>1, <3>2 DEF SingleRefs, Resolutions, RefTarget
    <2>2. SingleIds(NoPlan.envelope) /\ SingleRefs(NoPlan.envelope)
      BY <1>2 DEF SingleIds, SingleRefs, Resolutions
    <2>3. SingleIds(parked'[c])
      BY <1>5, AppliedWhole
    <2>4. \A o \in Clone : SingleRefs(refs'[o]) /\ SingleIds(parked'[o])
      BY <1>5, <2>1, <2>3 DEF ExchangeShapes
    <2>5. \A o \in Clone :
             /\ SingleIds(plan'[o].envelope) /\ SingleRefs(plan'[o].envelope)
             /\ plan'[o].stage = "none" => plan'[o].envelope = {}
             /\ plan'[o].park \cup plan'[o].disposed \cup plan'[o].refused \subseteq plan'[o].envelope
      BY <1>2, <1>5, <2>2 DEF ExchangeShapes
    <2>6. sent' = sent /\ decision' = decision
      BY <1>1
    <2>7. QED
      BY <2>4, <2>5, <2>6 DEF ExchangeShapes
  <1>7. PlansSafe' /\ ParksSafe'
    <2>1. \A o \in Clone, f \in Fact : Refused(o, f) => Refused(o, f)'
      BY <1>5, RefusedStays
    <2>2. \A o \in Clone : plan[o].park \subseteq Fact
      BY DEF ExchangeKinds, PlanKind
    <2>3. PlansSafe'
      BY <1>2, <1>5 DEF PlansSafe
    <2>4. ParksSafe'
      BY <1>1, <1>2, <1>5, <2>1, <2>2 DEF ParksSafe
    <2>5. QED
      BY <2>3, <2>4
  <1>8. OneFact'
    <2>1. \A f \in AppliedFacts(c) : f.id \notin raced'[c] => SameId(AppliedFacts(c), f) = {f}
      <3>1. \A f, g \in plan[c].envelope : f.id = g.id => f = g
        BY DEF ExchangeShapes, SingleIds
      <3>2. \A f \in notes[c] : f.id \notin raced[c] => SameId(notes[c], f) = {f}
        BY DEF OneFact
      <3>3. QED
        BY <1>5, <3>1, <3>2, AppliedWhole DEF SameId, Ids
    <2>2. QED
      BY <1>5, <2>1 DEF OneFact, SameId
  <1>9. CopiesSafe'
    <2>1. ASSUME decision[c].stage = "clear", NEW g \in decision[c].copy, g.id \notin raced[c]
          PROVE  SameId(AppliedFacts(c), g) = {g}
      BY <2>1, AppliedWhole DEF CopiesSafe, SameId, Ids
    <2>2. QED
      BY <1>1, <1>5, <2>1 DEF CopiesSafe, SameId
  <1>10. ClearedSafe'
    <2>1. decision[c].stage = "file" => \A f \in decision[c].parked : f.id \in raced'[c]
      BY <1>1 DEF ExchangeKinds, Ids
    <2>2. QED
      BY <1>1, <1>5, <2>1 DEF ClearedSafe, Ids
  <1>11. NothingDropped'
    BY <1>1, AppliedWhole DEF ExchangeKinds, NothingDropped
  <1>12. DecidedStays'
    <2>1. \A o \in Clone, f \in Fact : Refused(o, f) => Refused(o, f)'
      BY <1>5, RefusedStays
    <2>2. \A f \in AppliedParks(c) \cap rejected[c] : f.id \in raced[c] \/ Refused(c, f)
      BY DEF AppliedParks, ParksSafe, DecidedStays
    <2>3. QED
      BY <1>1, <1>5, <2>1, <2>2, AppliedWhole DEF ExchangeKinds, DecidedStays
  <1>13. QED
    BY <1>4, <1>6, <1>7, <1>8, <1>9, <1>10, <1>11, <1>12

LEMMA ExchangeStep == ExchangeIInv /\ [ExchangeNext]_exchangeVars => ExchangeIInv'
  <1> SUFFICES ASSUME ExchangeIInv, [ExchangeNext]_exchangeVars PROVE ExchangeIInv'
    OBVIOUS
  <1>1. CASE UNCHANGED exchangeVars
    BY <1>1 DEF exchangeVars, ExchangeIInv, ExchangeKinds, ExchangeShapes, PlansSafe, CopiesSafe,
                ClearedSafe, ParksSafe, OneFact, NothingDropped, DecidedStays, SameId, Ids, Refused, RefTarget
  <1>2. CASE ExchangeNext
    BY <1>2, RecordKeeps, ExportKeeps, PreviewKeeps, ApplyKeeps, AbandonKeeps, DisposeKeeps,
       ClearKeeps, FileKeeps, GivesUpKeeps DEF ExchangeNext
  <1>3. QED
    BY <1>1, <1>2

-----------------------------------------------------------------------------
(* The theorems.                                                           *)

LEMMA ExchangeInvariant == ExchangeSpec => []ExchangeIInv
  <1>1. QED
    BY ExchangeStarts, ExchangeStep, PTL DEF ExchangeSpec

(* The type invariant, and what it says of the sets the clones hold.       *)
THEOREM ExchangeTypes == ExchangeSpec => []ExchangeTypeOK
  <1>1. ExchangeIInv => ExchangeTypeOK
    BY DEF ExchangeIInv, ExchangeKinds, ExchangeShapes, ExchangeTypeOK, SingleIds,
           SingleRefs, SameId, Resolutions, PlanKind, DecisionKind
  <1>2. QED
    BY <1>1, ExchangeInvariant, PTL

(* However imports, publications and dispositions interleave, an import    *)
(* installs no second fact under an id, unless one was recorded behind it. *)
THEOREM NoSecondFact == ExchangeSpec => []OneFact
  <1>1. ExchangeIInv => OneFact
    BY DEF ExchangeIInv
  <1>2. QED
    BY <1>1, ExchangeInvariant, PTL

(* Nothing of an envelope reported as applied is lost, though it is        *)
(* planned before the lock and applied under it.                           *)
THEOREM ImportsWhole == ExchangeSpec => []NothingDropped
  <1>1. ExchangeIInv => NothingDropped
    BY DEF ExchangeIInv
  <1>2. QED
    BY <1>1, ExchangeInvariant, PTL

(* A rejected fact is not parked again, in any order of imports and        *)
(* decisions, but for the cases DecidedStays names.                        *)
THEOREM DecisionsStay == ExchangeSpec => []DecidedStays
  <1>1. ExchangeIInv => DecidedStays
    BY DEF ExchangeIInv
  <1>2. QED
    BY <1>1, ExchangeInvariant, PTL
=============================================================================
