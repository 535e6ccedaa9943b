----------------------------- MODULE NotesStore -----------------------------
(***************************************************************************)
(* What causet promises of the causal notes, with no lock, no process and  *)
(* no Git transaction in sight: a publication adds one record to one       *)
(* container in one indivisible step, together with the retention of the   *)
(* record's objects and with the ref that goes with it; a container causet *)
(* cannot read is never rewritten.                                         *)
(***************************************************************************)
EXTENDS NoteContainers

VARIABLES
    notes,     \* the container attached to each commit
    retained,  \* the records whose objects the retention ref keeps alive
    resRefs,   \* the resolution refs: signature -> the writer that made it
    parked     \* the quarantine refs still standing

storeVars == <<notes, retained, resRefs, parked>>

Init ==
    /\ notes = [c \in Commits |-> Note({Local(p) : p \in {q \in Parked : HomeOf[q] = c}})]
    /\ retained = {}
    /\ resRefs = [s \in Sigs |-> {}]
    /\ parked = Parked

(* appendNote: a receipt, an application, a provenance record.             *)
Append(c, w) ==
    /\ Readable(notes[c]) /\ Fits(WithRecord(notes[c], Own(w)))
    /\ notes' = [notes EXCEPT ![c] = WithRecord(@, Own(w))]
    /\ retained' = retained \cup {Own(w)}
    /\ UNCHANGED <<resRefs, parked>>

(* publishResolution: the record and its ref appear together, and a        *)
(* signature that already has a ref keeps it.                              *)
Resolve(c, w, s) ==
    /\ Readable(notes[c]) /\ Fits(WithRecord(notes[c], Own(w)))
    /\ resRefs[s] = {}
    /\ notes' = [notes EXCEPT ![c] = WithRecord(@, Own(w))]
    /\ retained' = retained \cup {Own(w)}
    /\ resRefs' = [resRefs EXCEPT ![s] = {w}]
    /\ UNCHANGED parked

(* replaceNoteRecord: the peer's copy takes the place of the local one and *)
(* the quarantine ref goes in the same step.                               *)
Replace(p) ==
    /\ p \in parked
    /\ Readable(notes[HomeOf[p]]) /\ Local(p) \in notes[HomeOf[p]].records
    /\ notes' = [notes EXCEPT ![HomeOf[p]] = WithReplacement(@, p)]
    /\ retained' = retained \cup {Replacement(p)}
    /\ parked' = parked \ {p}
    /\ UNCHANGED resRefs

(* dispose --keep-local: only the quarantine ref goes.                     *)
KeepLocal(p) ==
    /\ p \in parked
    /\ parked' = parked \ {p}
    /\ UNCHANGED <<notes, retained, resRefs>>

(* metadata retain --apply: every accepted record of the notes becomes     *)
(* retained; a dispute that was seen may have been settled meanwhile.      *)
Retain(disputed) ==
    /\ parked \subseteq disputed
    /\ retained' = retained \cup Accepted(notes, disputed)
    /\ UNCHANGED <<notes, resRefs, parked>>

(* A tool that is not causet: it may add a record, or attach a note of its *)
(* own to a commit that has none.                                          *)
ForeignNote(c) ==
    /\ \/ notes[c].form = "note" /\ notes' = [notes EXCEPT ![c] = Note(@.records \cup {Peer})]
       \/ notes[c] = Empty /\ \E n \in {LegacyText, ForeignJson} : notes' = [notes EXCEPT ![c] = n]
    /\ UNCHANGED <<retained, resRefs, parked>>

Next ==
    \/ \E c \in Commits, w \in Writers :
          Append(c, w) \/ (\E s \in Sigs : Resolve(c, w, s))
    \/ \E p \in Parked : Replace(p) \/ KeepLocal(p)
    \/ \E disputed \in SUBSET Parked : Retain(disputed)
    \/ \E c \in Commits : ForeignNote(c)

Spec == Init /\ [][Next]_storeVars

=============================================================================
