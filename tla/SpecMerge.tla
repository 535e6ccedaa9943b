------------------------------ MODULE SpecMerge ------------------------------
(***************************************************************************)
(* The deterministic three-way merge of a specification, src/src/specs.js: *)
(* parseBlocks, contentDecision, mergeOrder, planSpecMerge and the         *)
(* rendering of its result.  No state: module Settling uses it where a     *)
(* pick has stopped.                                                       *)
(*                                                                         *)
(* A document is a sequence of sections [title, text], a text a sequence   *)
(* of paragraphs; a document that does not exist has no section (one that  *)
(* exists always has one, an empty one an empty preamble).  What stands    *)
(* before the first heading is a section titled Preamble.  A block of a    *)
(* section has an id, its title and how often the title came up so far:    *)
(* without overrides left by a migration the manifest names it by a hash   *)
(* of just that.                                                           *)
(***************************************************************************)
EXTENDS Integers, Sequences, FiniteSets, SequencesExt, FiniteSetsExt

Preamble == "preamble"
Start == <<"start", 0>>   \* the anchor of what no surviving block precedes

(* A committed version: the document, the artifact its manifest names, and *)
(* how the manifest stands to it ("current", "stale", "missing", or        *)
(* "former": of the earlier parser, which saw other blocks).               *)
Stage(document, artifact, manifest) ==
    [document |-> document, artifact |-> artifact, manifest |-> manifest]

Present(stage) == stage.document # <<>>

(* parseBlocks.                                                            *)
Blocks(document) ==
    [i \in DOMAIN document |->
        [id |-> <<document[i].title, Cardinality({j \in 1..i : document[j].title = document[i].title})>>,
         text |-> document[i].text]]

BlockIds(blocks) == [i \in DOMAIN blocks |-> blocks[i].id]

(* The text a version has for a block, if it has the block.                *)
TextIn(blocks, id) == {b.text : b \in {c \in ToSet(blocks) : c.id = id}}

(* contentDecision: the side that changed the block decides, two changes   *)
(* have to agree.                                                          *)
Disputed(b, o, t) == o # b /\ t # b /\ o # t
TextChosen(b, o, t) == IF o = b THEN t ELSE o

-----------------------------------------------------------------------------
(* mergeOrder, for the ids of the three versions and the set of the chosen *)
(* ones.                                                                   *)

Only(ids, set) == SelectSeq(ids, LAMBDA id : id \in set)
Surviving(base, chosen) == ToSet(base) \cap chosen

(* The base blocks were moved on both sides, and differently.              *)
MovedApart(b, o, t) == o # t /\ o # b /\ t # b

(* Mutant: the order is the target's, whoever moved a block.               *)
Skeleton_Target(b, o, t) == o

(* The order of the side that moved a base block.                          *)
Skeleton(b, o, t) == IF o = b THEN t ELSE o

(* orderAdded: the surviving block an added one comes after.               *)
AnchorOf(ids, id, surviving) ==
    LET before == {j \in 1..Len(ids) : ids[j] \in surviving /\ j < CHOOSE i \in 1..Len(ids) : ids[i] = id} IN
    IF before = {} THEN Start ELSE ids[Max(before)]

AddedAt(ids, anchor, surviving) ==
    SelectSeq(ids, LAMBDA id : id \notin surviving /\ AnchorOf(ids, id, surviving) = anchor)

(* The same block added at two places, or blocks added in two orders.      *)
PlacedApart(o, t, chosen, surviving) ==
    LET both == (ToSet(o) \cap ToSet(t)) \ surviving IN
    \/ \E id \in both \cap chosen : AnchorOf(o, id, surviving) # AnchorOf(t, id, surviving)
    \/ \E anchor \in surviving \cup {Start} :
         Only(AddedAt(o, anchor, surviving), both) # Only(AddedAt(t, anchor, surviving), both)

(* What was added at an anchor: the target's, then what only the source    *)
(* added.                                                                  *)
AppendGroup(o, t, anchor, chosen, surviving) ==
    LET ours == AddedAt(o, anchor, surviving)
        theirs == SelectSeq(AddedAt(t, anchor, surviving), LAMBDA id : id \notin ToSet(ours)) IN
    Only(ours \o theirs, chosen)

MergeOrder(o, t, skeleton, chosen, surviving) ==
    AppendGroup(o, t, Start, chosen, surviving) \o
    FlattenSeq([i \in DOMAIN skeleton |->
        <<skeleton[i]>> \o AppendGroup(o, t, skeleton[i], chosen, surviving)])

-----------------------------------------------------------------------------
(* The document the blocks are rendered to: joined by blank lines, so that *)
(* a preamble which does not come first ends up in the section before it.  *)
(* No block at all renders to an empty document.                           *)
Rendered(blocks) ==
    IF blocks = <<>> THEN <<[title |-> Preamble, text |-> <<>>]>>
    ELSE FoldLeft(LAMBDA out, b :
             IF b.id[1] = Preamble /\ out # <<>>
             THEN [out EXCEPT ![Len(out)].text = @ \o b.text]
             ELSE Append(out, [title |-> b.id[1], text |-> b.text]), <<>>, blocks)

(* planSpecMerge: clean, with the blocks in their order and the document,  *)
(* or blocked.  No result is rendered for a document deleted on one side   *)
(* of which nothing is left.                                               *)
Blocked == [clean |-> FALSE, blocks |-> <<>>, document |-> <<>>]

Comparable(stages) ==
    /\ \A s \in stages : Present(s) => s.manifest = "current"
    /\ Cardinality({s.artifact : s \in {u \in stages : Present(u)}}) = 1

PlanSpecMerge(v) ==
    LET base == Blocks(v.base.document)
        ours == Blocks(v.ours.document)
        theirs == Blocks(v.theirs.document)
        ids == ToSet(BlockIds(base)) \cup ToSet(BlockIds(ours)) \cup ToSet(BlockIds(theirs))
        Text(id) == TextChosen(TextIn(base, id), TextIn(ours, id), TextIn(theirs, id))
        disputed == {id \in ids : Disputed(TextIn(base, id), TextIn(ours, id), TextIn(theirs, id))}
        chosen == {id \in ids \ disputed : Text(id) # {}}
        surviving == Surviving(BlockIds(base), chosen)
        b == Only(BlockIds(base), surviving)
        o == Only(BlockIds(ours), surviving)
        t == Only(BlockIds(theirs), surviving)
        order == MergeOrder(BlockIds(ours), BlockIds(theirs), Skeleton(b, o, t), chosen, surviving)
        blocks == [i \in DOMAIN order |-> [id |-> order[i], text |-> CHOOSE x \in Text(order[i]) : TRUE]] IN
    IF \/ ~Comparable({v.base, v.ours, v.theirs})
       \/ disputed # {}
       \/ MovedApart(b, o, t)
       \/ PlacedApart(BlockIds(ours), BlockIds(theirs), chosen, surviving)
    THEN Blocked
    ELSE [clean |-> TRUE, blocks |-> blocks,
          document |-> IF blocks = <<>> /\ ~(Present(v.ours) /\ Present(v.theirs))
                       THEN <<>> ELSE Rendered(blocks)]

-----------------------------------------------------------------------------
(* What the documentation says of a merge, for any three versions.         *)

Comes(ids, x, y) == \E i, j \in DOMAIN ids : i < j /\ ids[i] = x /\ ids[j] = y

(* "One-sided edit/add/delete/move: select changed side; identical         *)
(* concurrent result: select it": a clean plan has what both sides have    *)
(* and what either changed, no block twice.                                *)
KeepsChanges(v, plan) ==
    LET B == ToSet(Blocks(v.base.document))
        O == ToSet(Blocks(v.ours.document))
        T == ToSet(Blocks(v.theirs.document)) IN
    /\ ToSet(plan.blocks) = (O \cap T) \cup (O \ B) \cup (T \ B)
    /\ IsInjective(BlockIds(plan.blocks))

(* Two blocks that were in the base stand in the order they have on a side *)
(* that changed it, and else in the one they had.  "Added blocks are       *)
(* anchored after a surviving base block or at the start".                 *)
KeepsOrder(v, plan) ==
    LET base == BlockIds(Blocks(v.base.document))
        ours == BlockIds(Blocks(v.ours.document))
        theirs == BlockIds(Blocks(v.theirs.document))
        merged == BlockIds(plan.blocks)
        old == ToSet(merged) \cap ToSet(base) IN
    /\ \A x, y \in old :
          Comes(merged, x, y) <=>
              IF Comes(ours, x, y) = Comes(base, x, y) THEN Comes(theirs, x, y) ELSE Comes(ours, x, y)
    /\ \A x \in ToSet(merged) \ old :
          AnchorOf(merged, x, old) = AnchorOf(IF x \in ToSet(ours) THEN ours ELSE theirs, x, old)

(* "Edits to different blocks combine; a block move on one side combines   *)
(* with a content edit on the other": versions of one artifact are blocked *)
(* only if the sides touched the same block, moved both or both added.     *)
Unrelated(v) ==
    LET Of(side) == ToSet(Blocks(side.document))
        Touched(side) == {x.id : x \in (Of(side) \ Of(v.base)) \cup (Of(v.base) \ Of(side))}
        kept == {x.id : x \in Of(v.ours)} \cap {x.id : x \in Of(v.theirs)} \cap {x.id : x \in Of(v.base)}
        OrderOf(side) == Only(BlockIds(Blocks(side.document)), kept) IN
    /\ Comparable({v.base, v.ours, v.theirs})
    /\ Touched(v.ours) \cap Touched(v.theirs) = {}
    /\ OrderOf(v.base) \in {OrderOf(v.ours), OrderOf(v.theirs)}

(* "The sparse sidecar is regenerated with the same IDs": read again, the  *)
(* rendered document has the blocks of the plan - unless a title occurs    *)
(* twice, or one side added the preamble and the other a section before    *)
(* the first.                                                              *)
ReadsBack(v, plan) ==
    LET titles == [i \in DOMAIN plan.blocks |-> plan.blocks[i].id[1]] IN
    plan.blocks # <<>> /\ IsInjective(titles) /\ (\A i \in 2..Len(titles) : titles[i] # Preamble)
        /\ (\A i \in DOMAIN plan.blocks : plan.blocks[i].id[2] = 1) =>
        Blocks(plan.document) = plan.blocks
=============================================================================
