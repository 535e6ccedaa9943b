------------------------------- MODULE Exchange -------------------------------
(***************************************************************************)
(* Clones exchange the facts of their notes as envelopes, park what        *)
(* disagrees, and persons dispose of what is parked.                       *)
(*                                                                         *)
(* src/src/metadata-transfer.js (export, import), quarantine.js (parked    *)
(* records, dispositions), dispositions.js and the acceptance rules of     *)
(* metadata.js.  An import is planned from a preview made without a lock   *)
(* and applied as one transaction under the notes lock (NotesLock), while  *)
(* dispositions and publications of the same clone go on.  A fact is a     *)
(* record with its attachment; equal facts have equal digests.  The clones *)
(* share a root commit, hence a lineage.  Without --park-conflicts an      *)
(* import with conflicts refuses its envelope: as if it were never run.    *)
(***************************************************************************)
EXTENDS Integers, FiniteSets

CONSTANTS
    Clone,
    Fact,          \* records [id, at, ref, text]; ref is Plain but for a resolution
    MaxRecords, MaxExports, MaxImports, MaxDisposals   \* bounds

Plain == "plain"

ASSUME FactAssumption ==
    /\ \A f \in Fact : DOMAIN f = {"id", "at", "ref", "text"}
    /\ {MaxRecords, MaxExports, MaxImports, MaxDisposals} \subseteq Nat

VARIABLES
    notes, refs,       \* each clone's facts; the resolutions its refs point to
    parked, rejected,  \* its quarantine refs, its dispositions.json
    sent,              \* every envelope exported
    plan, decision,    \* its import and its disposition in progress
    dropped,           \* facts a finished import lost track of (history)
    raced,             \* ids recorded, or decided on, behind a plan (history)
    records, exports, imports, disposals

exchangeVars == <<notes, refs, parked, rejected, sent, plan, decision, dropped, raced,
                  records, exports, imports, disposals>>

NoPlan == [stage |-> "none", envelope |-> {}, park |-> {}, disposed |-> {}, refused |-> {}, existed |-> {}]
NoDecision == [stage |-> "none", parked |-> {}, copy |-> {}, outcome |-> "none"]

-----------------------------------------------------------------------------
Ids(facts) == {f.id : f \in facts}
SameId(facts, f) == {g \in facts : g.id = f.id}

(* validatePortableNotes: neither copy of a disputed id is in service, and *)
(* a resolution only while its ref points at its own result.               *)
Accepted(c) ==
    {f \in notes[c] : /\ SameId(notes[c], f) = {f} /\ f.id \notin Ids(parked[c])
                      /\ f.ref = Plain \/ f \in refs[c]}

(* Mutant: a ref is taken as another when its target is another.           *)
RefTarget_Own(c, f) == {g \in refs[c] : g = f}

(* What the ref of this resolution points at.                              *)
RefTarget(c, f) == {g \in refs[c] : g.ref = f.ref}

Resolutions(facts) == {f \in facts : f.ref # Plain}

ExchangeTypeOK ==
    /\ \A c \in Clone :
         /\ notes[c] \cup rejected[c] \subseteq Fact /\ refs[c] \subseteq Resolutions(Fact)
         /\ \A f, g \in refs[c] : f.ref = g.ref => f = g
         /\ \A f \in parked[c] : SameId(parked[c], f) = {f}
         /\ plan[c].stage \in {"none", "staged"} /\ decision[c].stage \in {"none", "clear", "file"}
         /\ plan[c].park \cup plan[c].disposed \cup plan[c].refused \subseteq plan[c].envelope
    /\ \A e \in sent : \A f \in e : SameId(e, f) = {f}
    /\ records \in 0..MaxRecords /\ exports \in 0..MaxExports
    /\ imports \in 0..MaxImports /\ disposals \in 0..MaxDisposals

ExchangeInit ==
    /\ notes = [c \in Clone |-> {}] /\ refs = [c \in Clone |-> {}]
    /\ parked = [c \in Clone |-> {}] /\ rejected = [c \in Clone |-> {}] /\ sent = {}
    /\ plan = [c \in Clone |-> NoPlan] /\ decision = [c \in Clone |-> NoDecision]
    /\ dropped = [c \in Clone |-> {}] /\ raced = [c \in Clone |-> {}]
    /\ records = 0 /\ exports = 0 /\ imports = 0 /\ disposals = 0

Behind(c, ids) == IF plan[c].stage = "none" THEN {} ELSE ids

-----------------------------------------------------------------------------
(* A publication: a fact of a fresh id; a resolution comes with its ref.   *)
Record(c, f) ==
    /\ records < MaxRecords /\ records' = records + 1
    /\ f.id \notin Ids(notes[c])
    /\ f.ref # Plain => RefTarget(c, f) = {}
    /\ notes' = [notes EXCEPT ![c] = @ \cup {f}]
    /\ refs' = [refs EXCEPT ![c] = @ \cup Resolutions({f})]
    /\ raced' = [raced EXCEPT ![c] = @ \cup Behind(c, {f.id})]
    /\ UNCHANGED <<parked, rejected, sent, plan, decision, dropped, exports, imports, disposals>>

(* exportMetadata: what is in service here travels, with its refs.         *)
Export(c) ==
    /\ exports < MaxExports /\ exports' = exports + 1
    /\ Accepted(c) # {} /\ sent' = sent \cup {Accepted(c)}
    /\ UNCHANGED <<notes, refs, parked, rejected, plan, decision, dropped, raced,
                   records, imports, disposals>>

-----------------------------------------------------------------------------
(* Mutant: a quarantined record does not occupy its id.                    *)
Local_Accepted(c, f) == SameId(Accepted(c), f)

(* The local records with this id, accepted or not.                        *)
Local(c, f) == SameId(notes[c], f)

(* Mutant: what a person rejected is reported again.                       *)
Decided_Not(c, f) == FALSE

(* rejectedDigests: a person has rejected exactly this fact.               *)
Decided(c, f) == f \in rejected[c]

(* The local ref of this resolution points somewhere else.                 *)
Refused(c, f) == f.ref # Plain /\ RefTarget(c, f) \notin {{}, {f}}

(* conflictAction.                                                         *)
Conflicts(c, f) == Local(c, f) # {} /\ f \notin Local(c, f)

(* importPreview, with what stageParkedRecords reads besides: whether the  *)
(* quarantine ref is there already.                                        *)
Planned(c, e) ==
    LET refused == {f \in e : Refused(c, f)}
        disputed == {f \in e : Conflicts(c, f)} \ refused
        disposed == {f \in disputed : Decided(c, f)}
        park == refused \cup (disputed \ disposed)
    IN [stage |-> "staged", envelope |-> e, park |-> park, disposed |-> disposed,
        refused |-> refused, existed |-> Ids(park) \cap Ids(parked[c])]

(* Nothing to add, to create or to park.                                   *)
Settles(c, e) ==
    LET p == Planned(c, e)
    IN /\ p.park = {} /\ e \ p.disposed \subseteq notes[c]
       /\ Resolutions(e) \subseteq refs[c]

Preview(c, e) ==
    /\ plan[c].stage = "none" /\ imports < MaxImports /\ imports' = imports + 1
    /\ plan' = [plan EXCEPT ![c] = IF Settles(c, e) THEN NoPlan ELSE Planned(c, e)]
    /\ UNCHANGED <<notes, refs, parked, rejected, sent, decision, dropped, raced,
                   records, exports, disposals>>

(* Mutant: two facts of one id on one commit go unnoticed.                 *)
Collides_Never(c, facts) == FALSE

(* combineNoteEntries: the note on the commit has the id for another fact. *)
Collides(c, facts) ==
    \E f \in facts, g \in notes[c] : f.id = g.id /\ f.at = g.at /\ f # g

(* Why the transaction fails: the notes, a quarantine ref or a resolution  *)
(* ref changed since the preview.                                          *)
Outdated(c) ==
    LET p == plan[c]
    IN \/ notes[c] # {} /\ Collides(c, p.envelope \ (p.park \cup p.disposed))
       \/ (Ids(p.park) \cap Ids(parked[c])) \ p.existed # {}
       \/ \E f \in Resolutions(p.envelope) \ p.refused : Refused(c, f)

(* The notes of the envelope merged into those there are: of two facts in  *)
(* one place the one that was there.  An empty notes ref takes over the    *)
(* envelope's.                                                             *)
Combined(c, facts) ==
    notes[c] \cup {f \in facts : \A g \in notes[c] : f.id # g.id \/ f.at # g.at}

(* applyImport: all of it, in one transaction under the notes lock.        *)
Apply(c) ==
    LET p == plan[c]
        facts == IF notes[c] = {} /\ p.park = {} THEN p.envelope
                 ELSE Combined(c, p.envelope \ (p.park \cup p.disposed))
        parks == p.park \cup {f \in parked[c] : f.id \notin Ids(p.park)}
    IN /\ p.stage = "staged" /\ ~Outdated(c)
       /\ notes' = [notes EXCEPT ![c] = facts]
       /\ parked' = [parked EXCEPT ![c] = parks]
       /\ refs' = [refs EXCEPT ![c] =
            @ \cup {f \in Resolutions(p.envelope) : RefTarget(c, f) = {}}]
       /\ dropped' = [dropped EXCEPT ![c] = @ \cup (p.envelope \ (facts \cup parks \cup p.disposed))]
       /\ raced' = [raced EXCEPT ![c] = @ \cup
            IF decision[c].stage = "file" THEN Ids(decision[c].parked) ELSE {}]
       /\ plan' = [plan EXCEPT ![c] = NoPlan]
       /\ UNCHANGED <<rejected, sent, decision, records, exports, imports, disposals>>

(* The transaction fails, or the process is killed before it: its staging  *)
(* refs and blobs are all that may be left.                                *)
Abandon(c) ==
    /\ plan[c].stage = "staged" /\ plan' = [plan EXCEPT ![c] = NoPlan]
    /\ UNCHANGED <<notes, refs, parked, rejected, sent, decision, dropped, raced,
                   records, exports, imports, disposals>>

-----------------------------------------------------------------------------
(* disposeConflict reads the parked copy and the one local copy.           *)
Dispose(c, f, g, outcome) ==
    /\ decision[c].stage = "none" /\ disposals < MaxDisposals /\ disposals' = disposals + 1
    /\ f \in parked[c] /\ SameId(notes[c], f) = {g}
    /\ outcome = "replace" => f.at = g.at
    /\ decision' = [decision EXCEPT ![c] =
         [stage |-> "clear", parked |-> {f}, copy |-> {g}, outcome |-> outcome]]
    /\ UNCHANGED <<notes, refs, parked, rejected, sent, plan, dropped, raced,
                   records, exports, imports>>

(* The dispute is cleared; replace-local rewrites the note in the same     *)
(* transaction.                                                            *)
Clear(c) ==
    LET d == decision[c]
    IN /\ d.stage = "clear" /\ d.parked \subseteq parked[c]
       /\ parked' = [parked EXCEPT ![c] = @ \ d.parked]
       /\ notes' = IF d.outcome = "replace"
                   THEN [notes EXCEPT ![c] = (@ \ d.copy) \cup d.parked] ELSE notes
       /\ decision' = [decision EXCEPT ![c].stage = "file"]
       /\ UNCHANGED <<refs, rejected, sent, plan, dropped, raced, records, exports, imports, disposals>>

(* appendDisposition.                                                      *)
File(c) ==
    LET d == decision[c]
    IN /\ d.stage = "file" /\ decision' = [decision EXCEPT ![c] = NoDecision]
       /\ rejected' = [rejected EXCEPT ![c] = @ \cup IF d.outcome = "keep" THEN d.parked ELSE d.copy]
       /\ raced' = [raced EXCEPT ![c] = @ \cup Behind(c, Ids(d.parked))]
       /\ UNCHANGED <<notes, refs, parked, sent, plan, dropped, records, exports, imports, disposals>>

(* The parked copy changed meanwhile, or the person's command is killed.   *)
GivesUp(c) ==
    /\ decision[c].stage # "none" /\ decision' = [decision EXCEPT ![c] = NoDecision]
    /\ UNCHANGED <<notes, refs, parked, rejected, sent, plan, dropped, raced,
                   records, exports, imports, disposals>>

-----------------------------------------------------------------------------
ExchangeNext ==
    \E c \in Clone :
      \/ \E f \in Fact : Record(c, f)
      \/ Export(c)
      \/ \E e \in sent : Preview(c, e)
      \/ Apply(c)
      \/ Abandon(c)
      \/ \E f \in parked[c], g \in notes[c], outcome \in {"keep", "replace"} :
           Dispose(c, f, g, outcome)
      \/ Clear(c)
      \/ File(c)
      \/ GivesUp(c)

ExchangeSpec == ExchangeInit /\ [][ExchangeNext]_exchangeVars

-----------------------------------------------------------------------------
(* Properties.                                                             *)

(* An import never installs a second fact under an id this clone has,      *)
(* parked disputes, re-imports and rejected copies included (importPreview *)
(* "importing over a parked dispute would silently install the peer's      *)
(* version"), but where the id was recorded behind the import's plan.      *)
OneFact ==
    \A c \in Clone : \A f \in notes[c] : f.id \in raced[c] \/ SameId(notes[c], f) = {f}

(* Every fact of an envelope reported as applied is in the notes, parked,  *)
(* or one a person had rejected, whatever happened between its plan and    *)
(* its transaction (stageParkedRecord "either the whole exchange lands or  *)
(* none of it does").                                                      *)
NothingDropped == \A c \in Clone : dropped[c] = {}

(* A fact a person rejected is not parked again, however often envelopes   *)
(* carry it (conflictAction "the same disagreement is reported once"),     *)
(* unless the decision was filed behind an import's plan, or it is a       *)
(* resolution whose ref points elsewhere here: that one is parked whatever *)
(* was decided (importPreview looks at refused refs first).                *)
DecidedStays ==
    \A c \in Clone : \A f \in rejected[c] \cap parked[c] : f.id \in raced[c] \/ Refused(c, f)
=============================================================================
