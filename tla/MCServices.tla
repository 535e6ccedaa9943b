------------------------------ MODULE MCServices ------------------------------
EXTENDS Services

(* A notes tree that is read whole, one of too many trees, one of too many *)
(* bytes; a read asks for the notes ref and a tree that may not be there.  *)
MCTree == {"t1", "t2", "s1", "s2"}
MCRoots == {"t1", "t2", "s2"}
MCParts == [t \in MCTree |-> CASE t = "t1" -> {"s1"} [] t = "t2" -> {"s1", "s2"} [] OTHER -> {}]
Noted(commit) == <<commit, "note">>
MCAttached == [t \in MCTree |-> CASE t = "t1" -> {Noted("c0")} [] t = "s1" -> {Noted("c1")} [] t = "s2" -> {Noted("c2")} [] OTHER -> {}]
MCSize == [t \in MCTree |-> IF t = "s2" THEN 4 ELSE 1]
MCAsks == {<<"ref", "s2">>}

(* A clean change, one that sets attributes, one an earlier resolution     *)
(* covers, one that conflicts, and a merge.                                *)
MCNature == [a |-> "attributes", b |-> "clean", r |-> "resolved", x |-> "conflict", m |-> "merge"]
MCChange == DOMAIN MCNature
Stepping(change, action) == [of |-> change, action |-> action]
Replay(change) == Stepping(change, "replay")
MCPrograms ==
    { <<Replay("b"), Replay("a")>>, <<Replay("a"), Replay("b")>>, <<Replay("b"), Replay("r")>>,
      <<Replay("b"), Replay("x")>>, <<Replay("m")>>, <<Stepping("m", "join"), Stepping("b", "edit")>>, <<>> }
MCTargets == {{}, {"a"}}

(* No workspace at the start, or one.                                      *)
MCRegistries == {<<>>, <<EntryOf("w1", "p1")>>}

(* Three facts of one id, on two commits, and three resolutions of one     *)
(* conflict, two of them of one id.                                        *)
Told(id, at, text) == [id |-> id, at |-> at, ref |-> Plain, text |-> text]
Solved(id, text) == [id |-> id, at |-> "c1", ref |-> "conflict", text |-> text]
MCFact == {Told("i", "c1", "x"), Told("i", "c2", "x"), Told("i", "c1", "y"),
           Solved("r", "x"), Solved("r", "y"), Solved("s", "y")}

(* Every way two sides can edit, delete, move and add up to three sections *)
(* of a document of none to three, and some with a preamble, a repeated    *)
(* title, another artifact, a stale manifest.                              *)
Written(title, paragraph) == [title |-> title, text |-> <<paragraph>>]
MCSequences(sections, n) ==
    {s \in UNION {[1..k -> sections] : k \in 0..n} : IsInjective([i \in DOMAIN s |-> s[i].title])}
Titled(titles, paragraph) == {Written(t, paragraph) : t \in titles}
MCVersion(base, ours, theirs) ==
    [base |-> Stage(base, "spec", "current"), ours |-> Stage(ours, "spec", "current"),
     theirs |-> Stage(theirs, "spec", "current")]
OneSection == <<Written("a", "1")>>
TwoSections == OneSection \o <<Written("b", "1")>>
ThreeSections == TwoSections \o <<Written("c", "1")>>
EditsOf(base, sections) == {MCVersion(base, o, t) : o \in MCSequences(sections, 3), t \in MCSequences(sections, 3)}
Fronted(document) == <<Written(Preamble, "1")>> \o document
MCDocuments == {OneSection, Fronted(OneSection), OneSection \o OneSection, Fronted(<<>>),
                <<Written("x", "1")>> \o OneSection, OneSection \o <<Written("x", "2")>> \o OneSection}
MCEdited == MCVersion(TwoSections, <<Written("b", "1"), Written("a", "1")>>, <<Written("a", "2"), Written("b", "1")>>)
MCOpposed == MCVersion(OneSection, <<Written("a", "2")>>, <<Written("a", "3")>>)
MCVersions ==
    EditsOf(<<>>, Titled({"a"}, "1") \cup Titled({"a", "x", "y"}, "2"))
    \cup EditsOf(OneSection, Titled({"a"}, "1") \cup Titled({"a", "x", "y"}, "2"))
    \cup EditsOf(TwoSections, Titled({"a", "b", "x"}, "1") \cup Titled({"a", "x"}, "2"))
    \cup EditsOf(ThreeSections, Titled({"a", "b", "c", "x"}, "1") \cup Titled({"a"}, "2"))
    \cup {MCVersion(b, o, t) : b \in MCDocuments, o \in MCDocuments, t \in MCDocuments}
    \cup {[MCEdited EXCEPT !.theirs.artifact = "other"], [MCEdited EXCEPT !.ours.manifest = "stale"], MCOpposed}
MCConflicting == {MCEdited, MCOpposed}
MCDrafts == {<<Written("a", "9")>>}
MCCode == {<<Written("code", "1")>>, <<Written("code", "2")>>}
MCUnmerged == {{"sidecar"}, {"doc", "sidecar"}, {"code"}, {"code", "sidecar"}}
=============================================================================
