--------------------------- MODULE NoteContainers ---------------------------
(***************************************************************************)
(* The data of the causal notes: what a commit's note container may hold   *)
(* and how causet reads and rewrites one.  Shared by the abstract store    *)
(* (NotesStore) and by the protocol that implements it (NotesLock).        *)
(*                                                                         *)
(* A record is a name.  Its content, its JSON form and the bytes of the    *)
(* container are abstracted; what is kept is who published it, which copy  *)
(* of a disputed record it is, and whether causet can read the container.  *)
(***************************************************************************)
EXTENDS Integers, FiniteSets

CONSTANTS
    Commits,    \* the commits a note can be attached to
    Writers,    \* the causet processes, each publishing at most one record
    Sigs,       \* conflict signatures, each naming one resolution ref
    Parked,     \* records whose peer copy an import parked as a conflict
    HomeOf,     \* the commit that carries the local copy of a parked record
    MaxRecords  \* the noteContainerRecords bound

ASSUME HomeOfAssumption == HomeOf \in [Parked -> Commits]
ASSUME MaxRecordsAssumption == MaxRecords \in Nat

(* The record a writer publishes: its identifier is fresh (newId), so it   *)
(* is named after the writer.                                              *)
Own(w) == <<"own", w>>

(* The two copies of a disputed record: the one this repository holds and  *)
(* the one a person may put in its place.                                  *)
Local(p) == <<"local", p>>
Replacement(p) == <<"replacement", p>>

(* A record some other tool published, and the opaque record that stands   *)
(* for a note that was not JSON.                                           *)
Peer == <<"peer", "peer">>
Legacy == <<"legacy", "legacy">>

Record == {Own(w) : w \in Writers}
            \cup {Local(p) : p \in Parked} \cup {Replacement(p) : p \in Parked}
            \cup {Peer, Legacy}

(* A container is a causet.note/v1 document, text that is not JSON, or     *)
(* JSON of another shape.  A commit without a note has the empty document. *)
Container == [form : {"note", "legacy", "foreign"}, records : SUBSET Record]

Note(R) == [form |-> "note", records |-> R]
Empty == Note({})
LegacyText == [form |-> "legacy", records |-> {Legacy}]
ForeignJson == [form |-> "foreign", records |-> {}]

(* The dispositions a rewrite accepts: neither foreign nor oversize.       *)
Readable(n) == n.form # "foreign" /\ Cardinality(n.records) <= MaxRecords

(* What a reader gets out of a container: legacy text becomes one opaque   *)
(* record, a foreign or oversize container yields nothing.                 *)
RecordsOf(n) == IF Readable(n) THEN n.records ELSE {}

(* The rewritten container: always a causet.note/v1 document.              *)
WithRecord(n, r) == Note(RecordsOf(n) \cup {r})
WithReplacement(n, p) == Note((RecordsOf(n) \ {Local(p)}) \cup {Replacement(p)})

Fits(n) == Cardinality(n.records) <= MaxRecords

(* The portable records a metadata snapshot accepts: an opaque record has  *)
(* no schema, and neither copy of a disputed record is used.               *)
AllRecords(tree) == UNION {RecordsOf(tree[c]) : c \in Commits}
Copies(P) == {Local(p) : p \in P} \cup {Replacement(p) : p \in P}
Accepted(tree, disputed) == AllRecords(tree) \ ({Legacy} \cup Copies(disputed))

=============================================================================
