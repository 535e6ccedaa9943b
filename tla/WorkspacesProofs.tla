-------------------------- MODULE WorkspacesProofs --------------------------
(***************************************************************************)
(* Proofs about Workspaces, for every set of processes, workspaces and     *)
(* paths, every registry to start with, and every bound.                   *)
(***************************************************************************)
EXTENDS Workspaces, SequenceTheorems, FiniteSetTheorems, WellFoundedInduction, TLAPS

USE WorkspaceAssumption, RegistriesAssumption

EntryKind == [id : Workspace, path : Path, lifecycle : {"active", "archived"}]
LockedCommand == {command \in Commands : command.op # "checkpoint"}
Identity == Workspace \cup {Main}
CheckpointJob == [op : {"checkpoint"}, of : Identity \cup {Nobody}, to : Path \cup {Main}]

WorkspaceKinds ==
    /\ lock \in Process \cup {Nobody} /\ registry \in Seq(EntryKind)
    /\ admin \in [Workspace -> Path \cup {Nobody}] /\ disk \in [Path -> Workspace \cup {Nobody, Debris}]
    /\ branches \subseteq Workspace /\ journals \subseteq Workspace
    /\ tip \in [Identity -> 0..MaxJobs] /\ past \in [Identity -> SUBSET (0..MaxJobs)]
    /\ taken \in [Identity -> SUBSET (1..MaxJobs)]
    /\ wpc \in [Process -> {"idle", "claiming", "reading", "acting", "saving", "releasing",
                            "capturing", "keeping", "pointing"}]
    /\ DOMAIN job = Process /\ DOMAIN seen = Process /\ DOMAIN written = Workspace
    /\ late \subseteq Workspace /\ lost \subseteq Workspace
    /\ jobs \in 0..MaxJobs /\ mishaps \in 0..MaxMishaps

(* What each process runs, by where it is.                                 *)
JobsFit ==
    \A p \in Process :
        /\ wpc[p] = "idle" <=> job[p] = Idle
        /\ wpc[p] \in {"claiming", "reading", "acting", "saving", "releasing"} => job[p] \in LockedCommand
        /\ wpc[p] \in {"capturing", "keeping", "pointing"} => job[p] \in CheckpointJob
        /\ wpc[p] = "capturing" => seen[p][1] \in 1..MaxJobs
        /\ wpc[p] \in {"keeping", "pointing"} => job[p].of \in Identity /\ seen[p][2] \in 1..MaxJobs
        /\ wpc[p] = "keeping" => seen[p][1] \in 0..MaxJobs

(* The claim excludes: its holder is the only process past it, and what it *)
(* read is the registry still.                                             *)
Excluded ==
    \A p \in Process :
        /\ wpc[p] \in {"reading", "acting", "saving", "releasing"} => lock = p
        /\ wpc[p] \in {"acting", "saving"} => seen[p] = registry
        /\ wpc[p] \in {"acting", "saving"} /\ job[p].op = "create" => Places(job[p].of) = {}
        /\ wpc[p] = "acting" /\ job[p].op \in {"move", "archive"} => Places(job[p].of) # {}

UniqueIds == \A i, j \in DOMAIN registry : registry[i].id = registry[j].id => i = j

(* A worktree on disk is one Git knows, at one place, on a branch; so are  *)
(* those with a journal.                                                   *)
DiskTrue ==
    /\ \A q, r \in Path : disk[q] = disk[r] /\ disk[q] \in Workspace => q = r
    /\ \A q \in Path : disk[q] \in Workspace => admin[disk[q]] # Nobody
    /\ \A b \in Workspace : admin[b] # Nobody => b \in branches
    /\ \A b \in journals : admin[b] # Nobody

(* A command that has checked and not acted yet will cost no journal but   *)
(* one begun, or moved to where it acts, behind its back.                  *)
ChecksHold ==
    \A p \in Process : wpc[p] = "acting" =>
        /\ job[p].op = "archive" => {disk[Recorded(p).path]} \cap journals \subseteq late
        /\ job[p].op = "prune" => journals \subseteq late

(* Who is replacing a checkpoint has seen the one there is, and kept it    *)
(* before it points away, as long as nobody else is at it.                 *)
CheckpointsSeen ==
    /\ \A p, q \in Process : p # q /\ {wpc[p], wpc[q]} \subseteq {"keeping", "pointing"}
                                /\ job[p].of = job[q].of => job[p].of \in overlapped
    /\ \A p \in Process : job[p].of \in Identity \ overlapped =>
          /\ wpc[p] = "keeping" => seen[p][1] = tip[job[p].of]
          /\ wpc[p] = "pointing" => tip[job[p].of] \in past[job[p].of] \cup {0}

WorkspaceIInv ==
    /\ WorkspaceKinds /\ JobsFit /\ Excluded /\ UniqueIds /\ DiskTrue /\ ChecksHold /\ CheckpointsSeen
    /\ NoUpdateLost /\ JournalsKept /\ CheckpointsNamed

-----------------------------------------------------------------------------
(* The operators.                                                          *)

(* A function on an initial interval is a sequence.                        *)
LEMMA SequenceOfFunction ==
    ASSUME NEW S, NEW n \in Nat, NEW s \in [1..n -> S]
    PROVE  s \in Seq(S) /\ Len(s) = n /\ DOMAIN s = 1..n
  <1>1. s \in Seq(S)
    BY SeqDef
  <1>2. QED
    BY <1>1, LenProperties

(* A set of natural numbers that has a member has a least one.             *)
LEMMA LeastMember ==
    ASSUME NEW T \in SUBSET Nat, T # {}
    PROVE  \E k \in T : \A j \in T : k <= j
  <1>1. PICK k \in T : \A j \in T : ~ (<<j, k>> \in OpToRel(<, Nat))
    BY NatLessThanWellFounded, WFMin, Zenon
  <1>2. \A j \in T : ~ (j < k)
    BY <1>1 DEF OpToRel
  <1>3. QED
    BY <1>2

LEMMA RegistryDomain ==
    ASSUME NEW entries \in Seq(EntryKind)
    PROVE  /\ DOMAIN entries = 1..Len(entries) /\ Len(entries) \in Nat
           /\ \A i \in DOMAIN entries :
                 /\ entries[i] \in EntryKind /\ entries[i].id \in Workspace
                 /\ entries[i].path \in Path
                 /\ [entries[i] EXCEPT !.lifecycle = "archived"] \in EntryKind
                 /\ [entries[i] EXCEPT !.lifecycle = "archived"].id = entries[i].id
  <1>1. DOMAIN entries = 1..Len(entries) /\ Len(entries) \in Nat
    BY LenProperties
  <1>2. \A i \in DOMAIN entries : entries[i] \in EntryKind
    BY <1>1, ElementOfSeq
  <1>3. \A e \in EntryKind : /\ e.id \in Workspace /\ e.path \in Path
                            /\ [e EXCEPT !.lifecycle = "archived"] \in EntryKind
                            /\ [e EXCEPT !.lifecycle = "archived"].id = e.id
    BY DEF EntryKind
  <1>4. QED
    BY <1>1, <1>2, <1>3

LEMMA EntryIsUnique ==
    ASSUME WorkspaceKinds, UniqueIds, NEW i \in DOMAIN registry
    PROVE  /\ Places(registry[i].id) = {i} /\ Entry(registry[i].id) = registry[i]
           /\ registry[i] \in EntryKind
  BY RegistryDomain DEF WorkspaceKinds, UniqueIds, Places, Entry

RecordedIn(entries, w) == LET i == CHOOSE i \in DOMAIN entries : entries[i].id = w IN entries[i]

(* What a command read of its workspace is the entry there is.             *)
LEMMA RecordedIsEntry ==
    ASSUME WorkspaceKinds, UniqueIds, NEW p \in Process, seen[p] = registry,
           Places(job[p].of) # {}
    PROVE  Recorded(p) = Entry(job[p].of) /\ Recorded(p) \in EntryKind
  <1>1. PICK i \in DOMAIN registry : Places(job[p].of) = {i}
    BY DEF UniqueIds, Places
  <1>2. Recorded(p) = registry[i] /\ Entry(job[p].of) = registry[i]
    BY <1>1 DEF Recorded, Entry, Places
  <1>3. QED
    BY <1>2, RegistryDomain DEF WorkspaceKinds

(* A command rewrites the entry of its own workspace, or archives stale    *)
(* ones; ids stay as they are.                                             *)
LEMMA UpdatedKeepsIds ==
    ASSUME NEW entries \in Seq(EntryKind), NEW command \in LockedCommand
    PROVE  LET after == Updated(entries, command)
           IN /\ after \in Seq(EntryKind)
              /\ command.op = "create" => after = Append(entries, EntryOf(command.of, command.to))
              /\ command.op # "create" => /\ DOMAIN after = DOMAIN entries
                                         /\ \A i \in DOMAIN entries : after[i].id = entries[i].id
  <1>1. command.op \in {"create", "move", "restore", "repair", "archive", "prune"}
    BY DEF LockedCommand, Commands
  <1>2. CASE command.op = "create"
    BY <1>2 DEF Updated, LockedCommand, Commands, EntryOf, EntryKind
  <1>3. CASE command.op \in {"move", "restore", "repair"}
    <2>1. command.to \in Path
      BY <1>3 DEF LockedCommand, Commands
    <2>2. Updated(entries, command) = [i \in DOMAIN entries |->
             IF entries[i].id = command.of THEN EntryOf(entries[i].id, command.to) ELSE entries[i]]
      BY <1>3 DEF Updated
    <2>3. QED
      <3>1. \A w \in Workspace : EntryOf(w, command.to) \in EntryKind /\ EntryOf(w, command.to).id = w
        BY <2>1 DEF EntryOf, EntryKind
      <3>2. \A i \in DOMAIN entries :
              /\ Updated(entries, command)[i] \in EntryKind
              /\ Updated(entries, command)[i].id = entries[i].id
        <4> TAKE i \in DOMAIN entries
        <4>1. entries[i] \in EntryKind /\ entries[i].id \in Workspace
          BY RegistryDomain
        <4>2. Updated(entries, command)[i] =
                IF entries[i].id = command.of THEN EntryOf(entries[i].id, command.to) ELSE entries[i]
          BY <2>2
        <4>3. QED
          BY <3>1, <4>1, <4>2
      <3>3. Updated(entries, command) \in [1..Len(entries) -> EntryKind]
        BY <2>2, <3>2, RegistryDomain
      <3>4. QED
        BY <1>3, <3>2, <3>3, RegistryDomain, SequenceOfFunction
  <1>4. CASE command.op = "archive"
    <2>1. Updated(entries, command) = [i \in DOMAIN entries |->
             IF entries[i].id = command.of THEN [entries[i] EXCEPT !.lifecycle = "archived"] ELSE entries[i]]
      BY <1>4 DEF Updated
    <2>2. QED
      BY <1>4, <2>1, RegistryDomain, SequenceOfFunction
  <1>5. CASE command.op = "prune"
    <2>1. Updated(entries, command) = [i \in DOMAIN entries |->
             IF i \in Stale(entries) THEN [entries[i] EXCEPT !.lifecycle = "archived"] ELSE entries[i]]
      BY <1>5 DEF Updated
    <2>2. QED
      BY <1>5, <2>1, RegistryDomain, SequenceOfFunction
  <1>6. QED
    BY <1>1, <1>2, <1>3, <1>4, <1>5
-----------------------------------------------------------------------------
(* The steps.                                                              *)

(* What a step that leaves registry, worktrees and checkpoints keeps.      *)
LEMMA UntouchedStays ==
    ASSUME WorkspaceIInv, UNCHANGED <<registry, gitVars, checkpointVars, historyVars>>
    PROVE  UniqueIds' /\ DiskTrue' /\ NoUpdateLost' /\ JournalsKept' /\ CheckpointsNamed'
  BY DEF WorkspaceIInv, gitVars, checkpointVars, historyVars, UniqueIds, DiskTrue, NoUpdateLost,
         Places, JournalsKept, CheckpointsNamed

(* A command ends: it succeeded, gave up, was refused or was killed.       *)
LEMMA EndsKeeps ==
    ASSUME WorkspaceIInv, NEW p \in Process, Ends(p),
           lock' = lock \/ (lock = p /\ lock' = Nobody),
           mishaps' \in 0..MaxMishaps, jobs' = jobs,
           UNCHANGED <<registry, gitVars, checkpointVars, historyVars>>
    PROVE  WorkspaceIInv'
  <1> USE DEF Ends, To, WorkspaceIInv
  <1>1. WorkspaceKinds'
    BY DEF WorkspaceKinds, gitVars, checkpointVars, historyVars
  <1>2. JobsFit'
    BY DEF WorkspaceKinds, JobsFit
  <1>3. Excluded'
    BY DEF WorkspaceKinds, Excluded, Places
  <1>4. ChecksHold'
    BY DEF WorkspaceKinds, ChecksHold, Recorded, gitVars, historyVars
  <1>5. CheckpointsSeen'
    BY DEF WorkspaceKinds, CheckpointsSeen, checkpointVars
  <1>6. QED
    BY UntouchedStays, <1>1, <1>2, <1>3, <1>4, <1>5

LEMMA RequestKeeps ==
    ASSUME WorkspaceIInv, NEW p \in Process, NEW command \in Commands, Request(p, command)
    PROVE  WorkspaceIInv'
  <1> USE DEF Request, To, WorkspaceIInv
  <1>0. /\ command.op # "checkpoint" => command \in LockedCommand
        /\ command.op = "checkpoint" => command \in CheckpointJob
        /\ command # Idle
    BY DEF LockedCommand, Commands, CheckpointJob, Idle
  <1>1. WorkspaceKinds'
    BY DEF WorkspaceKinds, gitVars, checkpointVars, historyVars
  <1>2. JobsFit'
    <2>1. jobs' \in 1..MaxJobs
      BY DEF WorkspaceKinds
    <2>2. \A q \in Process \ {p} : wpc'[q] = wpc[q] /\ job'[q] = job[q] /\ seen'[q] = seen[q]
      BY DEF WorkspaceKinds
    <2>3. CASE command.op = "checkpoint"
      <3>1. wpc'[p] = "capturing" /\ job'[p] = command /\ seen'[p] = <<jobs'>>
        BY <2>3 DEF WorkspaceKinds
      <3>2. QED
        BY <1>0, <2>1, <2>2, <2>3, <3>1 DEF JobsFit
    <2>4. CASE command.op # "checkpoint"
      <3>1. wpc'[p] = "claiming" /\ job'[p] = command
        BY <2>4 DEF WorkspaceKinds
      <3>2. QED
        BY <1>0, <2>2, <2>4, <3>1 DEF JobsFit
    <2>5. QED
      BY <2>3, <2>4
  <1>3. Excluded'
    BY DEF WorkspaceKinds, Excluded, Places
  <1>4. ChecksHold'
    BY DEF WorkspaceKinds, ChecksHold, Recorded, gitVars, historyVars
  <1>5. CheckpointsSeen'
    BY DEF WorkspaceKinds, CheckpointsSeen, checkpointVars
  <1>6. QED
    BY UntouchedStays, <1>1, <1>2, <1>3, <1>4, <1>5

LEMMA ClaimKeeps ==
    ASSUME WorkspaceIInv, NEW p \in Process, Claim(p)
    PROVE  WorkspaceIInv'
  <1> USE DEF Claim, To, WorkspaceIInv
  <1>1. WorkspaceKinds'
    BY DEF WorkspaceKinds, gitVars, checkpointVars, historyVars
  <1>2. JobsFit'
    BY DEF WorkspaceKinds, JobsFit
  <1>3. Excluded'
    BY DEF WorkspaceKinds, Excluded, Claimable
  <1>4. ChecksHold'
    BY DEF WorkspaceKinds, ChecksHold, Recorded, gitVars, historyVars
  <1>5. CheckpointsSeen'
    BY DEF WorkspaceKinds, CheckpointsSeen, checkpointVars
  <1>6. QED
    BY UntouchedStays, <1>1, <1>2, <1>3, <1>4, <1>5

LEMMA DecideKeeps ==
    ASSUME WorkspaceIInv, NEW p \in Process, Decide(p)
    PROVE  WorkspaceIInv'
  <1> USE DEF Decide, To, WorkspaceIInv
  <1>0. /\ \A q \in Process \ {p} : wpc'[q] = wpc[q] /\ job'[q] = job[q] /\ seen'[q] = seen[q]
        /\ job'[p] = job[p] /\ seen'[p] = registry /\ wpc[p] = "reading"
        /\ wpc'[p] \in {"acting", "releasing"} /\ (wpc'[p] = "acting" => Allowed(job[p]))
    BY DEF WorkspaceKinds
  <1>1. WorkspaceKinds'
    BY DEF WorkspaceKinds, gitVars, checkpointVars, historyVars
  <1>2. JobsFit'
    BY <1>0 DEF JobsFit
  <1>3. Excluded'
    <2>1. wpc'[p] = "acting" => /\ job[p].op = "create" => Places(job[p].of) = {}
                                /\ job[p].op \in {"move", "archive"} => Places(job[p].of) # {}
      BY <1>0 DEF Allowed, Is
    <2>2. \A q \in Process : Places(job[q].of)' = Places(job[q].of)
      BY DEF Places
    <2>3. \A q \in Process \ {p} : wpc'[q] \notin {"reading", "acting", "saving", "releasing"}
      BY <1>0 DEF Excluded
    <2>4. lock' = p /\ registry' = registry
      BY <1>0 DEF Excluded
    <2>5. SUFFICES ASSUME NEW q \in Process
                   PROVE  /\ wpc'[q] \in {"reading", "acting", "saving", "releasing"} => lock' = q
                          /\ wpc'[q] \in {"acting", "saving"} => seen'[q] = registry'
                          /\ wpc'[q] \in {"acting", "saving"} /\ job'[q].op = "create" => Places(job[q].of)' = {}
                          /\ wpc'[q] = "acting" /\ job'[q].op \in {"move", "archive"} => Places(job[q].of)' # {}
      BY DEF Excluded
    <2>6. CASE q = p
      BY <1>0, <2>1, <2>2, <2>4, <2>6 DEF Allowed
    <2>7. CASE q # p
      BY <2>3, <2>7
    <2>8. QED
      BY <2>6, <2>7
  <1>4. ChecksHold'
    <2>1. \A q \in Process \ {p} : Recorded(q)' = Recorded(q)
      BY <1>0 DEF Recorded
    <2>2. CASE wpc'[p] # "acting"
      BY <1>0, <2>1, <2>2 DEF ChecksHold, gitVars, historyVars
    <2>3. CASE wpc'[p] = "acting"
      <3>1. job[p].op = "archive" => {disk[Recorded(p)'.path]} \cap journals = {}
        <4> SUFFICES ASSUME job[p].op = "archive" PROVE {disk[Recorded(p)'.path]} \cap journals = {}
          OBVIOUS
        <4>1. Is(job[p].of, "active") /\ NoJournal({disk[Entry(job[p].of).path]})
          BY <1>0, <2>3 DEF Allowed
        <4>2. PICK i \in DOMAIN registry : Places(job[p].of) = {i}
          BY <4>1 DEF Is, UniqueIds, Places
        <4>3. Recorded(p)' = registry[i] /\ Entry(job[p].of) = registry[i]
          BY <1>0, <4>2 DEF Recorded, Entry, Places
        <4>4. QED
          BY <4>1, <4>3 DEF NoJournal
      <3>2. job[p].op = "prune" => journals = {}
        BY <1>0, <2>3 DEF Allowed, NoJournal, WorkspaceKinds
      <3>3. QED
        BY <1>0, <2>1, <3>1, <3>2 DEF ChecksHold, gitVars, historyVars
    <2>4. QED
      BY <2>2, <2>3
  <1>5. CheckpointsSeen'
    BY <1>0 DEF CheckpointsSeen, checkpointVars
  <1>6. QED
    BY UntouchedStays, <1>1, <1>2, <1>3, <1>4, <1>5
-----------------------------------------------------------------------------
(* Git's side of a command.                                                *)

GitHolds ==
    /\ admin \in [Workspace -> Path \cup {Nobody}] /\ disk \in [Path -> Workspace \cup {Nobody, Debris}]
    /\ branches \subseteq Workspace /\ journals \subseteq Workspace /\ lost \subseteq Workspace
    /\ DiskTrue /\ JournalsKept

(* Whoever acts is alone past the claim, so what it leaves to show is what *)
(* it did to the worktrees.                                                *)
LEMMA ActingLeaves ==
    ASSUME WorkspaceIInv, NEW p \in Process, wpc[p] = "acting", NEW then \in {"saving", "releasing"},
           To(p, then), ActOnly, GitHolds'
    PROVE  WorkspaceIInv'
  <1> USE DEF To, ActOnly, WorkspaceIInv
  <1>0. \A q \in Process : wpc'[q] = IF q = p THEN then ELSE wpc[q]
    BY DEF WorkspaceKinds
  <1>1. WorkspaceKinds'
    BY DEF WorkspaceKinds, GitHolds, checkpointVars
  <1>2. JobsFit'
    BY <1>0 DEF JobsFit
  <1>3. Excluded'
    BY <1>0 DEF Excluded, Places
  <1>4. \A q \in Process : wpc'[q] # "acting"
    BY <1>0 DEF Excluded, WorkspaceKinds
  <1>5. ChecksHold'
    BY <1>4 DEF ChecksHold
  <1>6. CheckpointsSeen' /\ CheckpointsNamed'
    BY <1>0 DEF CheckpointsSeen, CheckpointsNamed, checkpointVars
  <1>7. UniqueIds' /\ NoUpdateLost'
    BY DEF UniqueIds, NoUpdateLost, Places
  <1>8. QED
    BY <1>1, <1>2, <1>3, <1>5, <1>6, <1>7 DEF GitHolds

LEMMA AddHolds ==
    ASSUME WorkspaceIInv, NEW p \in Process, wpc[p] = "acting", UNCHANGED late,
           AddWorktree(p, job[p].of, job[p].to)
    PROVE  GitHolds'
  <1> USE DEF AddWorktree, WorkspaceIInv
  <1>1. job[p].of \in Workspace /\ job[p].to \in Path
    BY DEF JobsFit, LockedCommand, Commands
  <1>2. QED
    BY <1>1 DEF GitHolds, WorkspaceKinds, DiskTrue, JournalsKept, Addable

(* The paths a command acts on are paths of the system.                    *)
LEMMA ActsOnPaths ==
    ASSUME WorkspaceIInv, NEW p \in Process, wpc[p] = "acting"
    PROVE  /\ job[p].op \in {"move", "repair"} => job[p].of \in Workspace /\ job[p].to \in Path
           /\ job[p].op \in {"move", "archive"} => Recorded(p).path \in Path
  <1>1. job[p] \in LockedCommand
    BY DEF WorkspaceIInv, JobsFit
  <1>2. job[p].op \in {"move", "archive"} => Recorded(p) \in EntryKind
    BY RecordedIsEntry DEF WorkspaceIInv, Excluded
  <1>3. QED
    BY <1>1, <1>2 DEF LockedCommand, Commands, EntryKind

LEMMA MoveHolds ==
    ASSUME WorkspaceIInv, NEW p \in Process, wpc[p] = "acting", UNCHANGED late,
           MoveWorktree(p, Recorded(p).path, job[p].to)
    PROVE  GitHolds'
  <1> DEFINE from == Recorded(p).path
             place == job[p].to
             b == disk[from]
  <1>1. from \in Path /\ place \in Path /\ from # place
    BY ActsOnPaths DEF MoveWorktree
  <1>2. /\ b \in Workspace /\ admin[b] = from /\ disk[place] = Nobody
        /\ admin' = [admin EXCEPT ![b] = place]
        /\ disk' = [disk EXCEPT ![place] = b, ![from] = Nobody]
        /\ UNCHANGED <<branches, journals, lost>>
    BY DEF MoveWorktree
  <1> HIDE DEF from, place, b
  <1>3. \A q \in Path : disk'[q] = IF q = from THEN Nobody ELSE IF q = place THEN disk[from] ELSE disk[q]
    BY <1>1, <1>2 DEF WorkspaceIInv, WorkspaceKinds, b
  <1>4. \A c \in Workspace : admin'[c] = IF c = b THEN place ELSE admin[c]
    BY <1>1, <1>2 DEF WorkspaceIInv, WorkspaceKinds
  <1>5. DiskTrue'
    <2>1. \A q \in Path : disk'[q] \in Workspace =>
            \/ q # place /\ q # from /\ disk'[q] = disk[q]
            \/ q = place /\ disk'[q] = disk[from]
      BY <1>1, <1>3, WorkspaceAssumption
    <2>2. \A q, r \in Path : disk[q] = disk[r] /\ disk[q] \in Workspace => q = r
      BY DEF WorkspaceIInv, DiskTrue
    <2>3. \A q, r \in Path : disk'[q] = disk'[r] /\ disk'[q] \in Workspace => q = r
      BY <1>1, <2>1, <2>2
    <2>4. \A q \in Path : disk'[q] \in Workspace => admin'[disk'[q]] # Nobody
      BY <1>1, <1>4, <2>1, WorkspaceAssumption DEF WorkspaceIInv, DiskTrue
    <2>5. QED
      BY <1>1, <1>2, <1>4, <2>3, <2>4 DEF WorkspaceIInv, WorkspaceKinds, DiskTrue, b
  <1>6. QED
    BY <1>1, <1>2, <1>5 DEF WorkspaceIInv, WorkspaceKinds, GitHolds, JournalsKept

LEMMA RemoveHolds ==
    ASSUME WorkspaceIInv, NEW p \in Process, wpc[p] = "acting", UNCHANGED late,
           RemoveWorktree(p, Recorded(p).path)
    PROVE  GitHolds'
  <1> DEFINE from == Recorded(p).path
             b == disk[from]
  <1>1. from \in Path
    BY ActsOnPaths DEF RemoveWorktree
  <1>2. /\ b \in Workspace /\ admin' = [admin EXCEPT ![b] = Nobody]
        /\ disk' = [disk EXCEPT ![from] = Nobody] /\ UNCHANGED branches
        /\ lost' = lost \cup (journals \cap {b}) /\ journals' = journals \ {b}
    BY DEF RemoveWorktree
  <1>3. {b} \cap journals \subseteq late
    BY DEF WorkspaceIInv, ChecksHold, RemoveWorktree
  <1>4. DiskTrue'
    BY <1>1, <1>2 DEF WorkspaceIInv, WorkspaceKinds, DiskTrue
  <1>5. QED
    BY <1>1, <1>2, <1>3, <1>4 DEF WorkspaceIInv, WorkspaceKinds, GitHolds, JournalsKept

LEMMA RepairHolds ==
    ASSUME WorkspaceIInv, NEW p \in Process, wpc[p] = "acting", UNCHANGED late,
           RepairWorktree(p, job[p].of, job[p].to)
    PROVE  GitHolds'
  BY ActsOnPaths DEF WorkspaceIInv, WorkspaceKinds, RepairWorktree, GitHolds, DiskTrue, JournalsKept

LEMMA PruneHolds ==
    ASSUME WorkspaceIInv, NEW p \in Process, wpc[p] = "acting", UNCHANGED late, PruneWorktrees(p)
    PROVE  GitHolds'
  <1>1. journals \subseteq late
    BY DEF WorkspaceIInv, ChecksHold, PruneWorktrees
  <1>2. DiskTrue'
    BY DEF WorkspaceIInv, WorkspaceKinds, DiskTrue, PruneWorktrees
  <1>3. QED
    BY <1>1, <1>2 DEF WorkspaceIInv, WorkspaceKinds, PruneWorktrees, GitHolds, JournalsKept

LEMMA ActKeeps ==
    ASSUME WorkspaceIInv, NEW p \in Process, Act(p)
    PROVE  WorkspaceIInv'
  <1>1. GitHolds'
    BY AddHolds, MoveHolds, RemoveHolds, RepairHolds, PruneHolds DEF Act, ActOnly
  <1>2. QED
    BY <1>1, ActingLeaves DEF Act

LEMMA ActFailsKeeps ==
    ASSUME WorkspaceIInv, NEW p \in Process, ActFails(p)
    PROVE  WorkspaceIInv'
  <1>1. GitHolds'
    <2>1. CASE UNCHANGED <<gitVars, lost>>
      BY <2>1 DEF ActFails, ActOnly, gitVars, GitHolds, WorkspaceIInv, WorkspaceKinds, DiskTrue, JournalsKept
    <2>2. CASE AddWorktree(p, job[p].of, job[p].to)
      BY <2>2, AddHolds DEF ActFails, ActOnly
    <2>3. CASE /\ job[p].op = "create" /\ branches' = branches \cup {job[p].of}
               /\ UNCHANGED <<admin, disk, journals, lost>>
      <3>1. job[p].of \in Workspace
        BY <2>3 DEF ActFails, WorkspaceIInv, JobsFit, LockedCommand, Commands
      <3>2. QED
        BY <2>3, <3>1 DEF ActFails, ActOnly, GitHolds, WorkspaceIInv, WorkspaceKinds, DiskTrue, JournalsKept
    <2>4. QED
      BY <2>1, <2>2, <2>3 DEF ActFails
  <1>2. QED
    BY <1>1, ActingLeaves DEF ActFails
(* The whole file is written from what was read under the claim: nothing   *)
(* of another command's is undone.                                         *)
LEMMA SaveKeeps ==
    ASSUME WorkspaceIInv, NEW p \in Process, Save(p)
    PROVE  WorkspaceIInv'
  <1> USE DEF To, WorkspaceIInv
  <1> DEFINE after == Updated(registry, job[p])
             Of(list, w) == {list[i] : i \in {i \in DOMAIN list : list[i].id = w}}
  <1>0. /\ wpc[p] = "saving" /\ seen[p] = registry /\ job[p] \in LockedCommand
        /\ \A q \in Process : wpc'[q] = IF q = p THEN "releasing" ELSE wpc[q]
        /\ registry' = after /\ registry \in Seq(EntryKind)
        /\ job[p].op = "create" => Places(job[p].of) = {}
    BY DEF Save, JobsFit, Excluded, WorkspaceKinds
  <1>1. written' = [w \in Workspace |-> IF Of(after, w) # Of(registry, w) THEN Of(after, w) ELSE written[w]]
    BY <1>0 DEF Save
  <1>2. /\ after \in Seq(EntryKind)
        /\ job[p].op = "create" => after = Append(registry, EntryOf(job[p].of, job[p].to))
        /\ job[p].op # "create" => /\ DOMAIN after = DOMAIN registry
                                   /\ \A i \in DOMAIN registry : after[i].id = registry[i].id
    BY <1>0, UpdatedKeepsIds
  <1> HIDE DEF after
  <1>3. WorkspaceKinds'
    BY <1>0, <1>1, <1>2 DEF Save, WorkspaceKinds, gitVars, checkpointVars
  <1>4. UniqueIds'
    <2>1. CASE job[p].op = "create"
      <3>1. \A i \in DOMAIN registry : registry[i].id # job[p].of
        BY <1>0, <2>1 DEF Places
      <3>2. DOMAIN registry = 1..Len(registry) /\ Len(registry) \in Nat
        BY <1>0, RegistryDomain
      <3>3. /\ DOMAIN after = 1..(Len(registry) + 1)
            /\ \A i \in 1..Len(registry) : after[i] = registry[i]
            /\ after[Len(registry) + 1].id = job[p].of
        BY <1>0, <1>2, <2>1, <3>2, AppendProperties DEF EntryOf, EntryKind
      <3>4. QED
        BY <1>0, <3>1, <3>2, <3>3 DEF UniqueIds
    <2>2. CASE job[p].op # "create"
      BY <1>0, <1>2, <2>2 DEF UniqueIds
    <2>3. QED
      BY <2>1, <2>2
  <1>5. NoUpdateLost'
    <2>1. \A w \in Workspace : written[w] = Of(registry, w)
      BY DEF NoUpdateLost, Places
    <2>2. \A w \in Workspace : written'[w] = Of(after, w)
      BY <1>1, <2>1
    <2>3. QED
      BY <1>0, <2>2 DEF NoUpdateLost, Places
  <1>6. \A q \in Process \ {p} : wpc'[q] \notin {"reading", "acting", "saving", "releasing"}
    BY <1>0 DEF Excluded
  <1>7. JobsFit'
    BY <1>0 DEF Save, JobsFit
  <1>8. Excluded'
    BY <1>0, <1>6 DEF Save, Excluded
  <1>9. ChecksHold'
    BY <1>0, <1>6 DEF ChecksHold
  <1>10. DiskTrue' /\ JournalsKept' /\ CheckpointsNamed' /\ CheckpointsSeen'
    BY <1>0 DEF Save, gitVars, checkpointVars, DiskTrue, JournalsKept, CheckpointsNamed, CheckpointsSeen
  <1>11. QED
    BY <1>3, <1>4, <1>5, <1>7, <1>8, <1>9, <1>10

-----------------------------------------------------------------------------
(* Checkpoints.                                                            *)

LEMMA HereIsAnEntry ==
    ASSUME registry \in Seq(EntryKind), NEW place \in Path \cup {Main}
    PROVE  Here(place).id \in Identity
  <1> DEFINE at == {i \in DOMAIN registry : registry[i].path = place}
  <1>1. CASE at = {}
    BY <1>1 DEF Here, EntryOf, Identity
  <1>2. CASE at # {}
    <2>1. at \subseteq Nat
      BY RegistryDomain
    <2>2. PICK k \in at : \A j \in at : k <= j
      BY <1>2, <2>1, LeastMember
    <2>3. Here(place) = registry[CHOOSE i \in at : \A j \in at : i <= j]
      BY <1>2 DEF Here
    <2>4. (CHOOSE i \in at : \A j \in at : i <= j) \in at
      BY <2>2
    <2>5. QED
      BY <2>3, <2>4, RegistryDomain DEF Identity
  <1>3. QED
    BY <1>1, <1>2

(* What a step about checkpoints leaves.                                   *)
LEMMA CheckpointLeaves ==
    ASSUME WorkspaceIInv, CheckpointOnly, NEW p \in Process,
           wpc[p] \in {"capturing", "keeping", "pointing"},
           NEW then \in {"keeping", "pointing"}, To(p, then),
           \A q \in Process \ {p} : job'[q] = job[q] /\ seen'[q] = seen[q]
    PROVE  Excluded' /\ UniqueIds' /\ DiskTrue' /\ ChecksHold' /\ NoUpdateLost' /\ JournalsKept'
  <1> USE DEF To, WorkspaceIInv, CheckpointOnly
  <1>1. \A q \in Process : wpc'[q] = IF q = p THEN then ELSE wpc[q]
    BY DEF WorkspaceKinds
  <1>2. Excluded'
    BY <1>1 DEF Excluded, Places
  <1>3. ChecksHold'
    <2>1. \A q \in Process \ {p} : Recorded(q)' = Recorded(q)
      <3>1. \A q : /\ Recorded(q)' = RecordedIn(seen'[q], job'[q].of)
                   /\ Recorded(q) = RecordedIn(seen[q], job[q].of)
        BY DEF Recorded, RecordedIn
      <3>2. QED
        BY <3>1
    <2>2. QED
      BY <1>1, <2>1 DEF ChecksHold, gitVars, historyVars
  <1>4. UniqueIds' /\ DiskTrue' /\ NoUpdateLost' /\ JournalsKept'
    BY DEF gitVars, historyVars, UniqueIds, DiskTrue, NoUpdateLost, Places, JournalsKept
  <1>5. QED
    BY <1>2, <1>3, <1>4

LEMMA CaptureKeeps ==
    ASSUME WorkspaceIInv, NEW p \in Process, Capture(p)
    PROVE  WorkspaceIInv'
  <1> USE DEF WorkspaceIInv
  <1> DEFINE w == Here(job[p].to).id
             then == IF tip[w] = 0 THEN "pointing" ELSE "keeping"
  <1>0. /\ wpc[p] = "capturing" /\ To(p, then) /\ CheckpointOnly
        /\ job' = [job EXCEPT ![p].of = w] /\ seen' = [seen EXCEPT ![p] = <<tip[w], seen[p][1]>>]
        /\ overlapped' = overlapped \cup
             {o \in {w} : \E q \in Process \ {p} : wpc[q] \in {"keeping", "pointing"} /\ job[q].of = w}
        /\ UNCHANGED <<tip, past, taken>>
    BY DEF Capture
  <1>1. job[p] \in CheckpointJob /\ seen[p][1] \in 1..MaxJobs
    BY <1>0 DEF JobsFit
  <1>2. w \in Identity /\ tip[w] \in 0..MaxJobs
    BY <1>1, HereIsAnEntry DEF WorkspaceKinds, CheckpointJob
  <1> HIDE DEF w
  <1>3. /\ \A q \in Process : wpc'[q] = IF q = p THEN then ELSE wpc[q]
        /\ \A q \in Process \ {p} : job'[q] = job[q] /\ seen'[q] = seen[q]
        /\ job'[p] = [job[p] EXCEPT !.of = w] /\ seen'[p] = <<tip[w], seen[p][1]>>
        /\ DOMAIN job' = Process /\ DOMAIN seen' = Process
    BY <1>0 DEF To, WorkspaceKinds
  <1>4. job'[p] \in CheckpointJob /\ job'[p].of = w /\ job'[p] # Idle
    BY <1>1, <1>2, <1>3 DEF CheckpointJob, Idle
  <1>5. Excluded' /\ UniqueIds' /\ DiskTrue' /\ ChecksHold' /\ NoUpdateLost' /\ JournalsKept'
    BY <1>0, <1>3, CheckpointLeaves
  <1>6. WorkspaceKinds'
    BY <1>0, <1>3 DEF To, CheckpointOnly, WorkspaceKinds, gitVars, historyVars
  <1>7. JobsFit'
    <2>1. seen'[p][1] = tip[w] /\ seen'[p][2] = seen[p][1]
      BY <1>3
    <2>2. wpc'[p] \in {"keeping", "pointing"}
      BY <1>3
    <2>3. \A q \in Process \ {p} : wpc'[q] = wpc[q] /\ job'[q] = job[q] /\ seen'[q] = seen[q]
      BY <1>3
    <2>4. QED
      BY <1>1, <1>2, <1>4, <2>1, <2>2, <2>3 DEF JobsFit
  <1>8. CheckpointsSeen'
    <2>1. \A q, r \in Process : q # r /\ {wpc'[q], wpc'[r]} \subseteq {"keeping", "pointing"}
                                /\ job'[q].of = job'[r].of => job'[q].of \in overlapped'
      BY <1>0, <1>3, <1>4 DEF CheckpointsSeen
    <2>2. \A q \in Process : job'[q].of \in Identity \ overlapped' =>
             /\ wpc'[q] = "keeping" => seen'[q][1] = tip'[job'[q].of]
             /\ wpc'[q] = "pointing" => tip'[job'[q].of] \in past'[job'[q].of] \cup {0}
      <3>1. SUFFICES ASSUME NEW q \in Process, job'[q].of \in Identity \ overlapped'
                     PROVE  /\ wpc'[q] = "keeping" => seen'[q][1] = tip'[job'[q].of]
                            /\ wpc'[q] = "pointing" => tip'[job'[q].of] \in past'[job'[q].of] \cup {0}
        OBVIOUS
      <3>2. CASE q = p
        BY <1>0, <1>3, <1>4, <3>2
      <3>3. CASE q # p
        BY <1>0, <1>3, <3>1, <3>3 DEF CheckpointsSeen
      <3>4. QED
        BY <3>2, <3>3
    <2>3. QED
      BY <2>1, <2>2 DEF CheckpointsSeen
  <1>9. CheckpointsNamed'
    BY <1>0 DEF CheckpointsNamed
  <1>10. QED
    BY <1>5, <1>6, <1>7, <1>8, <1>9

LEMMA KeepPreviousKeeps ==
    ASSUME WorkspaceIInv, NEW p \in Process, KeepPrevious(p)
    PROVE  WorkspaceIInv'
  <1> USE DEF WorkspaceIInv
  <1>1. /\ wpc[p] = "keeping" /\ job[p].of \in Identity /\ seen[p][1] \in 0..MaxJobs
        /\ \A q \in Process : wpc'[q] = IF q = p THEN "pointing" ELSE wpc[q]
        /\ UNCHANGED <<tip, taken, overlapped, job, seen>>
    BY DEF KeepPrevious, To, WorkspaceKinds, JobsFit
  <1>2. \A w \in Identity : past'[w] = IF w = job[p].of THEN past[w] \cup {seen[p][1]} ELSE past[w]
    BY DEF KeepPrevious, Kept, WorkspaceKinds
  <1>3. Excluded' /\ UniqueIds' /\ DiskTrue' /\ ChecksHold' /\ NoUpdateLost' /\ JournalsKept'
    BY <1>1, CheckpointLeaves DEF KeepPrevious
  <1>4. WorkspaceKinds'
    <2>1. past' \in [Identity -> SUBSET (0..MaxJobs)]
      BY <1>1 DEF KeepPrevious, Kept, WorkspaceKinds
    <2>2. QED
      BY <2>1 DEF KeepPrevious, To, CheckpointOnly, WorkspaceKinds, gitVars, historyVars
  <1>5. JobsFit'
    BY <1>1 DEF JobsFit
  <1>6. CheckpointsSeen'
    <2>1. \A q, r \in Process : q # r /\ {wpc'[q], wpc'[r]} \subseteq {"keeping", "pointing"}
                                /\ job'[q].of = job'[r].of => job'[q].of \in overlapped'
      BY <1>1 DEF CheckpointsSeen
    <2>2. \A q \in Process : job'[q].of \in Identity \ overlapped' =>
             /\ wpc'[q] = "keeping" => seen'[q][1] = tip'[job'[q].of]
             /\ wpc'[q] = "pointing" => tip'[job'[q].of] \in past'[job'[q].of] \cup {0}
      <3>1. SUFFICES ASSUME NEW q \in Process, job[q].of \in Identity \ overlapped
                     PROVE  /\ wpc'[q] = "keeping" => seen[q][1] = tip[job[q].of]
                            /\ wpc'[q] = "pointing" => tip[job[q].of] \in past'[job[q].of] \cup {0}
        BY <1>1
      <3>2. CASE q = p
        BY <1>1, <1>2, <3>1, <3>2 DEF CheckpointsSeen
      <3>3. CASE q # p
        BY <1>1, <1>2, <3>1, <3>3 DEF CheckpointsSeen
      <3>4. QED
        BY <3>2, <3>3
    <2>3. QED
      BY <2>1, <2>2 DEF CheckpointsSeen
  <1>7. CheckpointsNamed'
    <2>1. DOMAIN tip = Identity
      BY DEF WorkspaceKinds
    <2>2. \A w \in Identity : past[w] \subseteq past'[w]
      BY <1>2
    <2>3. QED
      BY <1>1, <2>1, <2>2 DEF CheckpointsNamed
  <1>8. QED
    BY <1>3, <1>4, <1>5, <1>6, <1>7

(* The ref moves on only from a checkpoint that has a name of its own.     *)
LEMMA PointAtKeeps ==
    ASSUME WorkspaceIInv, NEW p \in Process, PointAt(p)
    PROVE  WorkspaceIInv'
  <1> USE DEF WorkspaceIInv
  <1> DEFINE w == job[p].of
             mine == seen[p][2]
  <1>1. /\ wpc[p] = "pointing" /\ w \in Identity /\ mine \in 1..MaxJobs
        /\ \A q \in Process : wpc'[q] = IF q = p THEN "idle" ELSE wpc[q]
        /\ \A q \in Process \ {p} : job'[q] = job[q] /\ seen'[q] = seen[q]
        /\ job'[p] = Idle
        /\ UNCHANGED <<past, overlapped>>
    BY DEF PointAt, Ends, To, WorkspaceKinds, JobsFit
  <1>2. \A o \in Identity : /\ tip'[o] = IF o = w THEN mine ELSE tip[o]
                            /\ taken'[o] = IF o = w THEN taken[o] \cup {mine} ELSE taken[o]
    BY DEF PointAt, WorkspaceKinds
  <1>3. WorkspaceKinds'
    <2>1. tip' \in [Identity -> 0..MaxJobs] /\ taken' \in [Identity -> SUBSET (1..MaxJobs)]
      BY <1>1 DEF PointAt, WorkspaceKinds
    <2>2. QED
      BY <2>1 DEF PointAt, Ends, To, CheckpointOnly, WorkspaceKinds, gitVars, historyVars
  <1>4. JobsFit'
    BY <1>1 DEF JobsFit
  <1>5. Excluded'
    BY <1>1 DEF Excluded, Places, PointAt, CheckpointOnly
  <1>6. ChecksHold'
    <2>1. \A q \in Process \ {p} : Recorded(q)' = Recorded(q)
      <3>1. \A q : /\ Recorded(q)' = RecordedIn(seen'[q], job'[q].of)
                   /\ Recorded(q) = RecordedIn(seen[q], job[q].of)
        BY DEF Recorded, RecordedIn
      <3>2. QED
        BY <1>1, <3>1
    <2>2. QED
      BY <1>1, <2>1 DEF ChecksHold, PointAt, CheckpointOnly, gitVars, historyVars
  <1>7. UniqueIds' /\ DiskTrue' /\ NoUpdateLost' /\ JournalsKept'
    BY DEF PointAt, CheckpointOnly, gitVars, historyVars, UniqueIds, DiskTrue, NoUpdateLost, Places, JournalsKept
  <1>8. CheckpointsSeen'
    <2>1. \A q \in Process \ {p} : wpc[q] \in {"keeping", "pointing"} /\ job[q].of = w => w \in overlapped
      BY <1>1 DEF CheckpointsSeen
    <2>2. \A q, r \in Process : q # r /\ {wpc'[q], wpc'[r]} \subseteq {"keeping", "pointing"}
                                /\ job'[q].of = job'[r].of => job'[q].of \in overlapped'
      BY <1>1 DEF CheckpointsSeen
    <2>3. \A q \in Process : job'[q].of \in Identity \ overlapped' =>
             /\ wpc'[q] = "keeping" => seen'[q][1] = tip'[job'[q].of]
             /\ wpc'[q] = "pointing" => tip'[job'[q].of] \in past'[job'[q].of] \cup {0}
      <3>1. SUFFICES ASSUME NEW q \in Process \ {p}, job[q].of \in Identity \ overlapped
                     PROVE  /\ wpc[q] = "keeping" => seen[q][1] = tip'[job[q].of]
                            /\ wpc[q] = "pointing" => tip'[job[q].of] \in past[job[q].of] \cup {0}
        BY <1>1
      <3>2. wpc[q] \in {"keeping", "pointing"} => tip'[job[q].of] = tip[job[q].of]
        BY <1>2, <2>1, <3>1
      <3>3. QED
        BY <3>1, <3>2 DEF CheckpointsSeen
    <2>4. QED
      BY <2>2, <2>3 DEF CheckpointsSeen
  <1>9. CheckpointsNamed'
    <2>1. w \notin overlapped => tip[w] \in past[w] \cup {0}
      BY <1>1 DEF CheckpointsSeen
    <2>2. taken[w] \subseteq 1..MaxJobs
      BY <1>1 DEF WorkspaceKinds
    <2>3. \A o \in Identity \ overlapped : taken'[o] \subseteq past'[o] \cup {tip'[o]}
      <3> TAKE o \in Identity \ overlapped
      <3>1. taken[o] \subseteq past[o] \cup {tip[o]}
        BY DEF CheckpointsNamed, WorkspaceKinds
      <3>2. CASE o = w
        <4>1. taken'[o] = taken[o] \cup {mine} /\ tip'[o] = mine /\ past'[o] = past[o]
          BY <1>1, <1>2, <3>2
        <4>2. taken[o] \subseteq past[o]
          BY <2>1, <2>2, <3>1, <3>2
        <4>3. QED
          BY <4>1, <4>2
      <3>3. CASE o # w
        BY <1>1, <1>2, <3>1, <3>3
      <3>4. QED
        BY <3>2, <3>3
    <2>4. QED
      BY <1>1, <1>3, <2>3 DEF CheckpointsNamed, WorkspaceKinds
  <1>10. QED
    BY <1>3, <1>4, <1>5, <1>6, <1>7, <1>8, <1>9
-----------------------------------------------------------------------------
(* What happens around the commands.                                       *)

(* Nothing about the registry or the checkpoints changes with it.          *)
LEMMA AroundLeaves ==
    ASSUME WorkspaceIInv, AroundOnly
    PROVE  /\ JobsFit' /\ Excluded' /\ UniqueIds' /\ CheckpointsSeen' /\ NoUpdateLost' /\ CheckpointsNamed'
           /\ \A p \in Process : wpc'[p] = wpc[p] /\ job'[p] = job[p] /\ Recorded(p)' = Recorded(p)
  <1> USE DEF WorkspaceIInv, AroundOnly, processVars, checkpointVars
  <1>1. JobsFit' /\ Excluded' /\ UniqueIds' /\ NoUpdateLost'
    BY DEF JobsFit, Excluded, UniqueIds, NoUpdateLost, Places
  <1>2. CheckpointsSeen' /\ CheckpointsNamed'
    BY DEF CheckpointsSeen, CheckpointsNamed
  <1>3. \A p \in Process : wpc'[p] = wpc[p] /\ job'[p] = job[p] /\ Recorded(p)' = Recorded(p)
    BY DEF Recorded
  <1>4. QED
    BY <1>1, <1>2, <1>3

LEMMA DeleteDirectoryKeeps ==
    ASSUME WorkspaceIInv, NEW place \in Path, DeleteDirectory(place)
    PROVE  WorkspaceIInv'
  <1> USE DEF DeleteDirectory
  <1>1. WorkspaceKinds'
    BY DEF WorkspaceIInv, WorkspaceKinds, AroundOnly, processVars, checkpointVars, Mishap
  <1>2. \A q \in Path : disk'[q] = IF q = place THEN Nobody ELSE disk[q]
    BY DEF WorkspaceIInv, WorkspaceKinds
  <1>3. DiskTrue' /\ JournalsKept'
    BY <1>2 DEF WorkspaceIInv, WorkspaceKinds, DiskTrue, JournalsKept
  <1>4. ChecksHold'
    <2>1. \A p \in Process : wpc[p] = "acting" /\ job[p].op = "archive" => Recorded(p).path \in Path
      BY ActsOnPaths
    <2>2. SUFFICES ASSUME NEW p \in Process, wpc[p] = "acting"
                   PROVE  /\ job[p].op = "archive" => {disk'[Recorded(p).path]} \cap journals \subseteq late
                          /\ job[p].op = "prune" => journals \subseteq late
      BY AroundLeaves DEF ChecksHold
    <2>3. /\ job[p].op = "archive" => {disk[Recorded(p).path]} \cap journals \subseteq late
          /\ job[p].op = "prune" => journals \subseteq late
          /\ journals \subseteq Workspace
      BY <2>2 DEF WorkspaceIInv, WorkspaceKinds, ChecksHold
    <2>4. QED
      BY <1>2, <2>1, <2>2, <2>3
  <1>5. QED
    BY <1>1, <1>3, <1>4, AroundLeaves DEF WorkspaceIInv

(* Whatever is moved to where a command acts has been moved behind its     *)
(* check.                                                                  *)
LEMMA MoveDirectoryKeeps ==
    ASSUME WorkspaceIInv, NEW place \in Path, NEW other \in Path, MoveDirectory(place, other)
    PROVE  WorkspaceIInv'
  <1> USE DEF MoveDirectory
  <1>1. WorkspaceKinds'
    <2>1. disk' \in [Path -> Workspace \cup {Nobody, Debris}]
      BY DEF WorkspaceIInv, WorkspaceKinds
    <2>2. late' \subseteq Workspace
      BY DEF WorkspaceIInv, WorkspaceKinds, BehindCheck
    <2>3. mishaps' \in 0..MaxMishaps
      BY DEF WorkspaceIInv, WorkspaceKinds, Mishap
    <2>4. UNCHANGED <<lock, registry, admin, branches, journals, tip, past, taken, wpc, job,
                   seen, written, lost, jobs>>
      BY DEF AroundOnly, processVars, checkpointVars
    <2> HIDE DEF MoveDirectory
    <2>5. QED
      BY <2>1, <2>2, <2>3, <2>4 DEF WorkspaceIInv, WorkspaceKinds
  <1>2. \A q \in Path : disk'[q] = IF q = place THEN Nobody ELSE IF q = other THEN disk[place] ELSE disk[q]
    BY DEF WorkspaceIInv, WorkspaceKinds
  <1>3. DiskTrue' /\ JournalsKept'
    <2>1. \A q, r \in Path : disk'[q] = disk'[r] /\ disk'[q] \in Workspace => q = r
      BY <1>2 DEF WorkspaceIInv, WorkspaceKinds, DiskTrue
    <2>2. \A q \in Path : disk'[q] \in Workspace => admin'[disk'[q]] # Nobody
      BY <1>2 DEF WorkspaceIInv, WorkspaceKinds, DiskTrue
    <2>3. QED
      BY <2>1, <2>2 DEF WorkspaceIInv, DiskTrue, JournalsKept
  <1>4. ChecksHold'
    <2>1. SUFFICES ASSUME NEW p \in Process, wpc[p] = "acting"
                   PROVE  /\ job[p].op = "archive" => {disk'[Recorded(p).path]} \cap journals \subseteq late'
                          /\ job[p].op = "prune" => journals \subseteq late'
      BY AroundLeaves DEF ChecksHold
    <2>2. /\ job[p].op = "archive" => {disk[Recorded(p).path]} \cap journals \subseteq late
          /\ job[p].op = "prune" => journals \subseteq late
          /\ job[p].op = "archive" => Recorded(p).path \in Path
          /\ journals \subseteq Workspace /\ late \subseteq late'
      BY <2>1, ActsOnPaths DEF WorkspaceIInv, WorkspaceKinds, ChecksHold
    <2>3. {disk[place]} \cap Workspace \subseteq late'
      BY <2>1 DEF BehindCheck
    <2>4. QED
      BY <1>2, <2>2, <2>3
  <1>5. QED
    BY <1>1, <1>3, <1>4, AroundLeaves DEF WorkspaceIInv

LEMMA BeginOperationKeeps ==
    ASSUME WorkspaceIInv, NEW place \in Path, BeginOperation(place)
    PROVE  WorkspaceIInv'
  <1> USE DEF BeginOperation
  <1>1. WorkspaceKinds'
    BY DEF WorkspaceIInv, WorkspaceKinds, AroundOnly, processVars, checkpointVars, Mishap, BehindCheck, Usable
  <1>2. DiskTrue' /\ JournalsKept'
    BY DEF WorkspaceIInv, WorkspaceKinds, DiskTrue, JournalsKept, Usable
  <1>3. ChecksHold'
    <2>1. SUFFICES ASSUME NEW p \in Process, wpc[p] = "acting"
                   PROVE  /\ job[p].op = "archive" => {disk[Recorded(p).path]} \cap journals' \subseteq late'
                          /\ job[p].op = "prune" => journals' \subseteq late'
      BY AroundLeaves DEF ChecksHold
    <2>2. disk[place] \in late'
      BY <2>1 DEF BehindCheck, Usable
    <2>3. QED
      BY <2>1, <2>2 DEF WorkspaceIInv, ChecksHold
  <1>4. QED
    BY <1>1, <1>2, <1>3, AroundLeaves DEF WorkspaceIInv

LEMMA EndOperationKeeps ==
    ASSUME WorkspaceIInv, NEW b \in Workspace, EndOperation(b)
    PROVE  WorkspaceIInv'
  <1> USE DEF EndOperation
  <1>1. WorkspaceKinds'
    BY DEF WorkspaceIInv, WorkspaceKinds, AroundOnly, processVars, checkpointVars
  <1>2. DiskTrue' /\ JournalsKept'
    BY DEF WorkspaceIInv, DiskTrue, JournalsKept
  <1>3. ChecksHold'
    BY AroundLeaves DEF WorkspaceIInv, ChecksHold
  <1>4. QED
    BY <1>1, <1>2, <1>3, AroundLeaves DEF WorkspaceIInv

LEMMA RemoveClaimKeeps ==
    ASSUME WorkspaceIInv, RemoveClaim
    PROVE  WorkspaceIInv'
  <1> USE DEF RemoveClaim, WorkspaceIInv, processVars
  <1>1. WorkspaceKinds' /\ JobsFit'
    BY DEF WorkspaceKinds, JobsFit, gitVars, checkpointVars, historyVars
  <1>2. Excluded' /\ ChecksHold' /\ CheckpointsSeen'
    BY DEF Excluded, ChecksHold, CheckpointsSeen
  <1>3. QED
    BY UntouchedStays, <1>1, <1>2

-----------------------------------------------------------------------------
(* The invariant.                                                          *)

LEMMA WorkspaceStarts == WorkspaceInit => WorkspaceIInv
  <1> SUFFICES ASSUME WorkspaceInit PROVE WorkspaceIInv
    OBVIOUS
  <1> USE DEF WorkspaceInit
  <1>1. registry \in Seq(EntryKind)
    <2>1. registry \in Seq([id : Workspace, path : Path, lifecycle : {"active"}])
      OBVIOUS
    <2>2. DOMAIN registry = 1..Len(registry) /\ Len(registry) \in Nat
      BY <2>1, LenProperties
    <2>3. \A i \in DOMAIN registry : registry[i] \in EntryKind
      <3>1. \A i \in DOMAIN registry : registry[i] \in [id : Workspace, path : Path, lifecycle : {"active"}]
        BY <2>1, <2>2, ElementOfSeq
      <3>2. [id : Workspace, path : Path, lifecycle : {"active"}] \subseteq EntryKind
        BY DEF EntryKind
      <3>3. QED
        BY <3>1, <3>2
    <2>4. registry \in [1..Len(registry) -> EntryKind]
      BY <2>1, <2>2, <2>3, LenProperties
    <2>5. QED
      BY <2>2, <2>4, SequenceOfFunction
  <1>2. UniqueIds
    BY DEF UniqueIds
  <1>3. \A i \in DOMAIN registry : registry[i].id \in Workspace /\ registry[i].path \in Path
    BY <1>1, RegistryDomain
  <1>4. \A w \in Workspace : Places(w) # {} =>
           \E i \in DOMAIN registry : Places(w) = {i} /\ Entry(w) = registry[i]
    <2> TAKE w \in Workspace
    <2> HAVE Places(w) # {}
    <2>1. PICK i \in DOMAIN registry : registry[i].id = w
      BY DEF Places
    <2>2. Places(w) = {i}
      BY <1>2, <2>1 DEF UniqueIds, Places
    <2>3. Entry(w) = registry[i]
      BY <2>2 DEF Entry
    <2>4. QED
      BY <2>2, <2>3
  <1>5. \A b \in branches : Entry(b).path \in Path
    BY <1>3, <1>4
  <1>6. WorkspaceKinds
    <2>1. admin \in [Workspace -> Path \cup {Nobody}]
      BY <1>5
    <2>2. disk \in [Path -> Workspace \cup {Nobody, Debris}]
      OBVIOUS
    <2>3. DOMAIN tip = Identity /\ tip \in [Identity -> 0..MaxJobs]
      BY DEF Identity
    <2>4. QED
      BY <1>1, <2>1, <2>2, <2>3 DEF WorkspaceKinds, Identity
  <1>7. DiskTrue
    <2>1. \A q \in Path : disk[q] \in Workspace => disk[q] \in branches /\ admin[disk[q]] = q
      OBVIOUS
    <2>2. QED
      BY <1>5, <2>1 DEF DiskTrue
  <1>8. NoUpdateLost
    BY <1>4 DEF NoUpdateLost
  <1>9. JobsFit /\ Excluded /\ ChecksHold /\ CheckpointsSeen /\ JournalsKept /\ CheckpointsNamed
    BY DEF JobsFit, Excluded, ChecksHold, CheckpointsSeen, JournalsKept, CheckpointsNamed
  <1>10. QED
    BY <1>2, <1>6, <1>7, <1>8, <1>9 DEF WorkspaceIInv

LEMMA CommandStepKeeps ==
    ASSUME WorkspaceIInv, NEW p \in Process, CommandStep(p)
    PROVE  WorkspaceIInv'
  <1>1. mishaps \in 0..MaxMishaps
    BY DEF WorkspaceIInv, WorkspaceKinds
  <1>2. CASE GiveUp(p)
    <2>1. Ends(p) /\ (lock' = lock \/ (lock = p /\ lock' = Nobody)) /\ mishaps' = mishaps /\ jobs' = jobs
      BY <1>2 DEF GiveUp
    <2>2. UNCHANGED <<registry, gitVars, checkpointVars, historyVars>>
      BY <1>2 DEF GiveUp
    <2>3. QED
      BY <1>1, <2>1, <2>2, EndsKeeps
  <1>3. CASE Release(p)
    <2>1. Ends(p) /\ (lock' = lock \/ (lock = p /\ lock' = Nobody)) /\ mishaps' = mishaps /\ jobs' = jobs
      BY <1>3 DEF Release
    <2>2. UNCHANGED <<registry, gitVars, checkpointVars, historyVars>>
      BY <1>3 DEF Release
    <2>3. QED
      BY <1>1, <2>1, <2>2, EndsKeeps
  <1>4. CASE CaptureRefused(p)
    <2>1. Ends(p) /\ (lock' = lock \/ (lock = p /\ lock' = Nobody)) /\ mishaps' = mishaps /\ jobs' = jobs
      BY <1>4 DEF CaptureRefused, CheckpointOnly
    <2>2. UNCHANGED <<registry, gitVars, checkpointVars, historyVars>>
      BY <1>4 DEF CaptureRefused, CheckpointOnly
    <2>3. QED
      BY <1>1, <2>1, <2>2, EndsKeeps
  <1>5. QED
    BY <1>2, <1>3, <1>4, ClaimKeeps, DecideKeeps, ActKeeps, ActFailsKeeps, SaveKeeps, CaptureKeeps, KeepPreviousKeeps,
       PointAtKeeps DEF CommandStep

LEMMA WorkspaceStep == WorkspaceIInv /\ [WorkspaceNext]_workspaceVars => WorkspaceIInv'
  <1> SUFFICES ASSUME WorkspaceIInv, [WorkspaceNext]_workspaceVars PROVE WorkspaceIInv'
    OBVIOUS
  <1>1. CASE UNCHANGED workspaceVars
    <2>1. WorkspaceKinds' /\ JobsFit' /\ Excluded' /\ ChecksHold' /\ CheckpointsSeen'
      BY <1>1 DEF workspaceVars, gitVars, checkpointVars, processVars, historyVars, WorkspaceIInv, WorkspaceKinds,
         JobsFit, Excluded, Places, ChecksHold, Recorded, CheckpointsSeen
    <2>2. QED
      BY <1>1, <2>1, UntouchedStays DEF workspaceVars, WorkspaceIInv
  <1>2. CASE \E p \in Process, command \in Commands : Request(p, command)
    BY <1>2, RequestKeeps
  <1>3. CASE \E p \in Process : CommandStep(p)
    BY <1>3, CommandStepKeeps
  <1>4. CASE \E p \in Process : Crash(p)
    <2>1. PICK p \in Process : Crash(p)
      BY <1>4
    <2>2. mishaps' \in 0..MaxMishaps
      BY <2>1 DEF Crash, Mishap, WorkspaceIInv, WorkspaceKinds
    <2>3. Ends(p) /\ lock' = lock /\ jobs' = jobs /\ UNCHANGED <<registry, gitVars, checkpointVars, historyVars>>
      BY <2>1 DEF Crash
    <2>4. QED
      BY <2>2, <2>3, EndsKeeps
  <1>5. CASE RemoveClaim
    BY <1>5, RemoveClaimKeeps
  <1>6. CASE \E place \in Path : DeleteDirectory(place)
    BY <1>6, DeleteDirectoryKeeps
  <1>7. CASE \E place, other \in Path : MoveDirectory(place, other)
    BY <1>7, MoveDirectoryKeeps
  <1>8. CASE \E place \in Path : BeginOperation(place)
    BY <1>8, BeginOperationKeeps
  <1>9. CASE \E b \in Workspace : EndOperation(b)
    BY <1>9, EndOperationKeeps
  <1>10. QED
    BY <1>1, <1>2, <1>3, <1>4, <1>5, <1>6, <1>7, <1>8, <1>9 DEF WorkspaceNext

LEMMA WorkspaceInvariant == WorkspaceSpec => []WorkspaceIInv
  BY WorkspaceStarts, WorkspaceStep, PTL DEF WorkspaceSpec

-----------------------------------------------------------------------------
(* The theorems.                                                           *)

LEMMA WorkspaceTyped == WorkspaceIInv => WorkspaceTypeOK
  <1> SUFFICES ASSUME WorkspaceIInv PROVE WorkspaceTypeOK
    OBVIOUS
  <1> USE DEF WorkspaceIInv
  <1>1. \A w \in Workspace : Cardinality({place \in Path : disk[place] = w}) <= 1
    <2> TAKE w \in Workspace
    <2> DEFINE At == {place \in Path : disk[place] = w}
    <2> SUFFICES Cardinality(At) <= 1
      OBVIOUS
    <2>1. CASE At = {}
      <3> HIDE DEF At
      <3> QED
        BY <2>1, FS_EmptySet
    <2>2. CASE At # {}
      <3>1. PICK q \in Path : disk[q] = w
        BY <2>2
      <3>2. At = {q}
        BY <3>1 DEF DiskTrue
      <3>3. Cardinality({q}) = 1
        BY FS_Singleton
      <3> HIDE DEF At
      <3>4. QED
        BY <3>2, <3>3
    <2>3. QED
      BY <2>1, <2>2
  <1>2. journals \subseteq {b \in branches : admin[b] # Nobody}
    BY DEF DiskTrue, WorkspaceKinds
  <1>3. \A p \in Process : (wpc[p] = "idle") = (job[p] = Idle)
    BY DEF JobsFit
  <1>4. QED
    BY <1>1, <1>2, <1>3 DEF WorkspaceTypeOK, WorkspaceKinds, EntryKind, Identity

(* With the disk true and ids unique there is a way back for every entry.  *)
LEMMA AlwaysRecoverable == WorkspaceIInv => Recoverable
  <1> SUFFICES ASSUME WorkspaceIInv, NEW i \in DOMAIN registry, registry[i].id \in branches,
                      disk[registry[i].path] \in {registry[i].id, Nobody},
                      registry[i].lifecycle = "archived" =>
                          /\ registry[i].id \in Range(disk) \/ admin[registry[i].id] = Nobody
                          /\ ~ \E place \in Path : Addable(registry[i].id, place),
                      \E place \in Path : disk[place] = Nobody /\ place \notin Range(admin)
               PROVE  \/ \E place \in Path : Repairable(registry[i].id, place)
                      \/ i \in Stale(registry)
    BY DEF Recoverable
  <1> DEFINE e == registry[i]
  <1>1. /\ Places(e.id) = {i} /\ Entry(e.id) = e /\ e.id \in Workspace /\ e.path \in Path
        /\ e.lifecycle \in {"active", "archived"}
    BY EntryIsUnique DEF WorkspaceIInv, EntryKind
  <1>2. CASE disk[e.path] = e.id
    BY <1>1, <1>2 DEF Repairable, Usable, WorkspaceIInv, DiskTrue
  <1>3. CASE disk[e.path] = Nobody /\ e.lifecycle = "active"
    BY <1>3 DEF Stale
  <1>4. CASE disk[e.path] = Nobody /\ e.lifecycle = "archived"
    <2>1. CASE e.id \in Range(disk)
      <3>1. PICK place \in Path : disk[place] = e.id
        BY <2>1 DEF Range, WorkspaceIInv, WorkspaceKinds
      <3>2. Repairable(e.id, place)
        BY <1>1, <1>4, <3>1 DEF Repairable, Usable, WorkspaceIInv, DiskTrue
      <3>3. QED
        BY <3>2
    <2>2. CASE admin[e.id] = Nobody
      <3>1. PICK place \in Path : disk[place] = Nobody /\ place \notin Range(admin)
        OBVIOUS
      <3>2. \A b \in Workspace : admin[b] # place
        BY <3>1 DEF Range, WorkspaceIInv, WorkspaceKinds
      <3>3. QED
        BY <1>4, <2>2, <3>1, <3>2 DEF Addable
    <2>3. QED
      BY <1>4, <2>1, <2>2
  <1>5. QED
    BY <1>1, <1>2, <1>3, <1>4

(* Every reachable state is well formed: a worktree stands at one place,   *)
(* a journal belongs to a worktree Git knows, and a process has a command  *)
(* exactly when it is somewhere in one (workspaces.js, workspace-lock.js). *)
THEOREM WorkspaceTypes == WorkspaceSpec => []WorkspaceTypeOK
  BY WorkspaceInvariant, WorkspaceTyped, PTL

(* No save of workspaces.json undoes another: the claim makes what a       *)
(* command read the registry still when it writes the whole file           *)
(* (workspace-lock.js, saveWorkspaces).                                    *)
THEOREM SavesCompose == WorkspaceSpec => []NoUpdateLost
  BY WorkspaceInvariant, PTL DEF WorkspaceIInv

(* archive and prune delete no journal but one begun, or moved to where    *)
(* they act, behind their check (assertNoOperationJournal).                *)
THEOREM JournalsSurvive == WorkspaceSpec => []JournalsKept
  BY WorkspaceInvariant, PTL DEF WorkspaceIInv

(* Whatever is killed between Git's change and the save, and whatever a    *)
(* person does to the directories, repair, prune or restore applies.       *)
THEOREM NothingStranded == WorkspaceSpec => []Recoverable
  BY WorkspaceInvariant, AlwaysRecoverable, PTL

(* A checkpoint reported keeps a name, but for two taken of one workspace  *)
(* at once (checkpointWorkspace).                                          *)
THEOREM CheckpointsKeepNames == WorkspaceSpec => []CheckpointsNamed
  BY WorkspaceInvariant, PTL DEF WorkspaceIInv
=============================================================================
