------------------------------ MODULE Workspaces ------------------------------
(***************************************************************************)
(* Registered workspaces: the registry, the lock that serialises its       *)
(* writers, Git's linked worktrees, and the checkpoints taken in them.     *)
(*                                                                         *)
(* src/src/workspaces.js and src/src/workspace-lock.js.  Several commands  *)
(* run at once; persons move and delete directories and run reconcile or   *)
(* rebase in a worktree meanwhile.  A workspace is its id, its name and    *)
(* its branch; Git's worktrees are what `git worktree` keeps of each       *)
(* branch (admin) and the directories themselves (disk).                   *)
(***************************************************************************)
EXTENDS Integers, Sequences, FiniteSets, SequencesExt

CONSTANTS
    Workspace, Path, Process,
    Registries,  \* the registries a repository may start with
    MaxJobs,     \* bound: commands started
    MaxMishaps   \* bound: kills, directories moved or deleted, operations begun

Nobody == "nobody"   \* no process, no worktree, no entry
Main == "main"       \* the id of every unregistered worktree
Debris == "debris"   \* a directory whose worktree Git has forgotten

ASSUME WorkspaceAssumption ==
    /\ {Nobody, Main, Debris} \cap (Workspace \cup Path \cup Process) = {}
    /\ {MaxJobs, MaxMishaps} \subseteq Nat

(* Registered workspaces, all of them active, each with an id of its own.  *)
ASSUME RegistriesAssumption ==
    /\ Registries \subseteq Seq([id : Workspace, path : Path, lifecycle : {"active"}])
    /\ \A entries \in Registries : \A i, j \in DOMAIN entries :
          entries[i].id = entries[j].id => i = j

VARIABLES
    lock, registry,        \* the claim file's writer, workspaces.json
    admin, disk, branches, \* Git's worktrees, the directories, the branches
    journals,              \* branches whose worktree is in a reconcile or rebase
    tip, past,             \* each id's checkpoint ref and checkpoint-history refs
    wpc, job, seen,        \* each process: where it is, its command, what it read
    written,               \* each workspace's entry as last saved (history)
    taken, overlapped,     \* checkpoints reported; ids two were taken of at once
    late, lost,            \* worktrees an operation began in, or a person moved,
                           \* behind a check; journals deleted
    jobs, mishaps

gitVars == <<admin, disk, branches, journals>>
checkpointVars == <<tip, past, taken, overlapped>>
processVars == <<wpc, job, seen>>
historyVars == <<written, late, lost>>
workspaceVars == <<lock, registry, gitVars, checkpointVars, processVars, historyVars, jobs, mishaps>>

-----------------------------------------------------------------------------
EntryOf(w, place) == [id |-> w, path |-> place, lifecycle |-> "active"]

Places(w) == {i \in DOMAIN registry : registry[i].id = w}

(* findWorkspace.                                                          *)
Entry(w) == registry[CHOOSE i \in Places(w) : TRUE]
Is(w, lifecycle) == Places(w) # {} /\ Entry(w).lifecycle = lifecycle

(* Git recognises the directory: the worktree it was made as still exists. *)
Usable(place) == disk[place] \in Workspace /\ admin[disk[place]] # Nobody

(* Git itself refuses to add a worktree where one is or was, or for a      *)
(* branch another worktree has.                                            *)
Addable(w, place) ==
    /\ disk[place] = Nobody /\ admin[w] = Nobody
    /\ \A b \in Workspace : admin[b] # place

Stale(entries) == {i \in DOMAIN entries :
                     entries[i].lifecycle = "active" /\ disk[entries[i].path] = Nobody}

Commands ==
    [op : {"create", "move", "restore", "repair"}, of : Workspace, to : Path]
    \cup [op : {"archive"}, of : Workspace, to : {Nobody}]
    \cup {[op |-> "prune", of |-> Nobody, to |-> Nobody]}
    \cup [op : {"checkpoint"}, of : {Nobody}, to : Path \cup {Main}]

Idle == [op |-> "idle", of |-> Nobody, to |-> Nobody]

WorkspaceTypeOK ==
    /\ lock \in Process \cup {Nobody}
    /\ registry \in Seq([id : Workspace, path : Path, lifecycle : {"active", "archived"}])
    /\ admin \in [Workspace -> Path \cup {Nobody}] /\ disk \in [Path -> Workspace \cup {Nobody, Debris}]
    /\ journals \subseteq {b \in branches : admin[b] # Nobody} /\ branches \subseteq Workspace
    /\ \A w \in Workspace : Cardinality({place \in Path : disk[place] = w}) <= 1
    /\ tip \in [Workspace \cup {Main} -> 0..MaxJobs] /\ DOMAIN past = DOMAIN tip
    /\ wpc \in [Process -> {"idle", "claiming", "reading", "acting", "saving", "releasing",
                            "capturing", "keeping", "pointing"}]
    /\ \A p \in Process : (wpc[p] = "idle") = (job[p] = Idle)
    /\ lost \cup late \subseteq Workspace
    /\ jobs \in 0..MaxJobs /\ mishaps \in 0..MaxMishaps

(* Every workspace there is stands where the registry says.                *)
WorkspaceInit ==
    /\ lock = Nobody /\ registry \in Registries
    /\ branches = {w \in Workspace : Places(w) # {}}
    /\ admin = [b \in Workspace |-> IF b \in branches THEN Entry(b).path ELSE Nobody]
    /\ disk = [q \in Path |-> IF \E b \in branches : admin[b] = q
                              THEN CHOOSE b \in branches : admin[b] = q ELSE Nobody]
    /\ written = [w \in Workspace |-> IF Places(w) = {} THEN {} ELSE {Entry(w)}]
    /\ journals = {} /\ late = {} /\ lost = {}
    /\ tip = [w \in Workspace \cup {Main} |-> 0] /\ past = [w \in Workspace \cup {Main} |-> {}]
    /\ taken = [w \in Workspace \cup {Main} |-> {}] /\ overlapped = {}
    /\ wpc = [p \in Process |-> "idle"] /\ job = [p \in Process |-> Idle]
    /\ seen = [p \in Process |-> <<>>] /\ jobs = 0 /\ mishaps = 0

To(p, place) == wpc' = [wpc EXCEPT ![p] = place]

Ends(p) ==
    /\ To(p, "idle")
    /\ job' = [job EXCEPT ![p] = Idle] /\ seen' = [seen EXCEPT ![p] = <<>>]

-----------------------------------------------------------------------------
(* The registry lock and the commands under it.                            *)

Request(p, command) ==
    /\ wpc[p] = "idle" /\ jobs < MaxJobs /\ jobs' = jobs + 1
    /\ command.op = "checkpoint" /\ command.to # Main => Usable(command.to)
    /\ job' = [job EXCEPT ![p] = command]
    /\ To(p, IF command.op = "checkpoint" THEN "capturing" ELSE "claiming")
    /\ seen' = [seen EXCEPT ![p] = IF command.op = "checkpoint" THEN <<jobs'>> ELSE <<>>]
    /\ UNCHANGED <<lock, registry, gitVars, checkpointVars, historyVars, mishaps>>

(* Mutant: a waiter takes the claim of another for an abandoned one.       *)
Claimable_Always == TRUE

(* The claim is created only where there is none; no waiter removes one.   *)
Claimable == lock = Nobody

Claim(p) ==
    /\ wpc[p] = "claiming" /\ Claimable /\ lock' = p /\ To(p, "reading")
    /\ UNCHANGED <<registry, gitVars, checkpointVars, job, seen, historyVars, jobs, mishaps>>

(* Five seconds of polling have gone by.                                   *)
GiveUp(p) ==
    /\ wpc[p] = "claiming" /\ lock # Nobody /\ Ends(p)
    /\ UNCHANGED <<lock, registry, gitVars, checkpointVars, historyVars, jobs, mishaps>>

(* Mutant: a worktree's administrative state is not looked at.             *)
NoJournal_Unchecked(at) == TRUE

(* assertNoOperationJournal for each of the worktrees.                     *)
NoJournal(at) == journals \cap at = {}

(* Mutant: as every other command, repair is for active workspaces.        *)
Repairable_Active(w, place) ==
    /\ Is(w, "active") /\ disk[place] = w /\ Usable(place)
    /\ Entry(w).path = place \/ disk[Entry(w).path] = Nobody

(* The path is a worktree of the workspace's branch, and the recorded path *)
(* is gone.  The lifecycle does not matter.                                *)
Repairable(w, place) ==
    /\ Places(w) # {} /\ disk[place] = w /\ Usable(place)
    /\ Entry(w).path = place \/ disk[Entry(w).path] = Nobody

(* What each command checks before it changes anything.                    *)
Allowed(command) ==
    LET w == command.of  place == command.to
    IN CASE command.op = "create" -> Places(w) = {} /\ w \notin branches
         [] command.op = "move" ->
              Is(w, "active") /\ Usable(Entry(w).path) /\ disk[place] = Nobody
         [] command.op = "archive" ->
              Is(w, "active") /\ Usable(Entry(w).path) /\ NoJournal({disk[Entry(w).path]})
         [] command.op = "restore" ->
              Is(w, "archived") /\ w \in branches /\ disk[place] = Nobody
         [] command.op = "repair" -> Repairable(w, place)
         [] command.op = "prune" -> Stale(registry) # {} /\ NoJournal(Workspace)

(* The registry is read and the command checked.  The caller standing in   *)
(* the worktree, and files not committed or ignored in it, refuse as well. *)
Decide(p) ==
    /\ wpc[p] = "reading" /\ seen' = [seen EXCEPT ![p] = registry]
    /\ \/ Allowed(job[p]) /\ To(p, "acting")
       \/ To(p, "releasing")
    /\ UNCHANGED <<lock, registry, gitVars, checkpointVars, job, historyVars, jobs, mishaps>>

Recorded(p) == LET i == CHOOSE i \in DOMAIN seen[p] : seen[p][i].id = job[p].of IN seen[p][i]

(* git worktree add, with the new branch (create) or the one there is.     *)
AddWorktree(p, w, place) ==
    /\ job[p].op \in {"create", "restore"} /\ Addable(w, place)
    /\ branches' = branches \cup {w}
    /\ admin' = [admin EXCEPT ![w] = place] /\ disk' = [disk EXCEPT ![place] = w]
    /\ UNCHANGED <<journals, lost>>

(* git worktree move: whatever worktree stands at the recorded path.       *)
MoveWorktree(p, from, place) ==
    /\ job[p].op = "move" /\ disk[from] \in Workspace /\ disk[place] = Nobody
    /\ admin[disk[from]] = from /\ \A b \in Workspace : admin[b] # place
    /\ admin' = [admin EXCEPT ![disk[from]] = place]
    /\ disk' = [disk EXCEPT ![place] = disk[from], ![from] = Nobody]
    /\ UNCHANGED <<branches, journals, lost>>

(* git worktree remove takes the administrative directory with it.         *)
RemoveWorktree(p, from) ==
    /\ job[p].op = "archive" /\ disk[from] \in Workspace /\ admin[disk[from]] = from
    /\ admin' = [admin EXCEPT ![disk[from]] = Nobody] /\ disk' = [disk EXCEPT ![from] = Nobody]
    /\ lost' = lost \cup (journals \cap {disk[from]}) /\ journals' = journals \ {disk[from]}
    /\ UNCHANGED branches

RepairWorktree(p, w, place) ==
    /\ job[p].op = "repair" /\ disk[place] = w /\ admin[w] # Nobody
    /\ admin' = [admin EXCEPT ![w] = place] /\ UNCHANGED <<disk, branches, journals, lost>>

(* git worktree prune forgets every worktree without a directory where it  *)
(* was, one moved by hand as well.                                         *)
PruneWorktrees(p) ==
    LET gone == {b \in Workspace : admin[b] # Nobody /\ disk[admin[b]] = Nobody}
    IN /\ job[p].op = "prune"
       /\ admin' = [b \in Workspace |-> IF b \in gone THEN Nobody ELSE admin[b]]
       /\ lost' = lost \cup (journals \cap gone) /\ journals' = journals \ gone
       /\ disk' = [q \in Path |-> IF disk[q] \in gone THEN Debris ELSE disk[q]]
       /\ UNCHANGED branches

ActOnly == UNCHANGED <<lock, registry, checkpointVars, job, seen, written, late, jobs, mishaps>>

Act(p) ==
    /\ wpc[p] = "acting" /\ To(p, "saving") /\ ActOnly
    /\ \/ AddWorktree(p, job[p].of, job[p].to)
       \/ job[p].op = "move" /\ MoveWorktree(p, Recorded(p).path, job[p].to)
       \/ job[p].op = "archive" /\ RemoveWorktree(p, Recorded(p).path)
       \/ RepairWorktree(p, job[p].of, job[p].to)
       \/ PruneWorktrees(p)

(* Git refused or failed; a failed `worktree add` may leave a branch, or a *)
(* worktree whose files are not all checked out.                           *)
ActFails(p) ==
    /\ wpc[p] = "acting" /\ To(p, "releasing") /\ ActOnly
    /\ \/ UNCHANGED <<gitVars, lost>>
       \/ AddWorktree(p, job[p].of, job[p].to)
       \/ /\ job[p].op = "create" /\ branches' = branches \cup {job[p].of}
          /\ UNCHANGED <<admin, disk, journals, lost>>

Updated(entries, command) ==
    LET Edit(f(_)) == [i \in DOMAIN entries |->
                         IF entries[i].id = command.of THEN f(entries[i]) ELSE entries[i]]
        Archived(e) == [e EXCEPT !.lifecycle = "archived"]
        Placed(e) == EntryOf(e.id, command.to)
    IN CASE command.op = "create" -> Append(entries, EntryOf(command.of, command.to))
         [] command.op = "archive" -> Edit(Archived)
         [] command.op = "prune" ->
              [i \in DOMAIN entries |-> IF i \in Stale(entries) THEN Archived(entries[i]) ELSE entries[i]]
         [] OTHER -> Edit(Placed)

(* saveWorkspaces writes the whole file from what this command read.       *)
Save(p) ==
    LET entries == Updated(seen[p], job[p])
        Of(list, w) == {list[i] : i \in {i \in DOMAIN list : list[i].id = w}}
    IN /\ wpc[p] = "saving" /\ registry' = entries /\ To(p, "releasing")
       /\ written' = [w \in Workspace |-> IF Of(entries, w) # Of(seen[p], w) THEN Of(entries, w)
                                          ELSE written[w]]
       /\ UNCHANGED <<lock, gitVars, checkpointVars, job, seen, late, lost, jobs, mishaps>>

(* The claim is removed only while it still holds this process's token.    *)
Release(p) ==
    /\ wpc[p] = "releasing" /\ lock' = IF lock = p THEN Nobody ELSE lock
    /\ Ends(p)
    /\ UNCHANGED <<registry, gitVars, checkpointVars, historyVars, jobs, mishaps>>

-----------------------------------------------------------------------------
(* checkpointWorkspace, under no lock.                                     *)

(* currentWorkspace: the first entry with this path, active or not.        *)
Here(place) ==
    LET at == {i \in DOMAIN registry : registry[i].path = place}
    IN IF at = {} THEN EntryOf(Main, place) ELSE registry[CHOOSE i \in at : \A j \in at : i <= j]

CheckpointOnly == UNCHANGED <<lock, registry, gitVars, historyVars, jobs, mishaps>>

(* The files are written as a tree, the previous checkpoint is read, and   *)
(* the new one is made a commit object.                                    *)
Capture(p) ==
    LET w == Here(job[p].to).id
    IN /\ wpc[p] = "capturing" /\ Here(job[p].to).lifecycle = "active"
       /\ To(p, IF tip[w] = 0 THEN "pointing" ELSE "keeping")
       /\ job' = [job EXCEPT ![p].of = w]
       /\ seen' = [seen EXCEPT ![p] = <<tip[w], @[1]>>]
       /\ overlapped' = overlapped \cup
            {o \in {w} : \E q \in Process \ {p} :
                wpc[q] \in {"keeping", "pointing"} /\ job[q].of = w}
       /\ CheckpointOnly /\ UNCHANGED <<tip, past, taken>>

CaptureRefused(p) ==
    /\ wpc[p] = "capturing" /\ Ends(p)
    /\ CheckpointOnly /\ UNCHANGED checkpointVars

(* Mutant: the previous checkpoint keeps no name of its own.               *)
Kept_Not(names, checkpoint) == names

Kept(names, checkpoint) == names \cup {checkpoint}

KeepPrevious(p) ==
    /\ wpc[p] = "keeping" /\ To(p, "pointing")
    /\ past' = [past EXCEPT ![job[p].of] = Kept(@, seen[p][1])]
    /\ CheckpointOnly /\ UNCHANGED <<tip, taken, overlapped, job, seen>>

PointAt(p) ==
    /\ wpc[p] = "pointing" /\ Ends(p)
    /\ tip' = [tip EXCEPT ![job[p].of] = seen[p][2]]
    /\ taken' = [taken EXCEPT ![job[p].of] = @ \cup {seen[p][2]}]
    /\ CheckpointOnly /\ UNCHANGED <<past, overlapped>>

-----------------------------------------------------------------------------
(* What happens around the commands.                                       *)

Mishap == mishaps < MaxMishaps /\ mishaps' = mishaps + 1

Crash(p) ==
    /\ Mishap /\ wpc[p] # "idle" /\ Ends(p)
    /\ UNCHANGED <<lock, registry, gitVars, checkpointVars, historyVars, jobs>>

(* With every writer stopped, a person removes the claim a kill left.      *)
RemoveClaim ==
    /\ lock # Nobody /\ \A p \in Process : wpc[p] = "idle" /\ lock' = Nobody
    /\ UNCHANGED <<registry, gitVars, checkpointVars, processVars, historyVars, jobs, mishaps>>

AroundOnly == UNCHANGED <<lock, registry, checkpointVars, processVars, written, jobs>>

(* The worktree at this place, if some command has checked and not acted.  *)
BehindCheck(place) ==
    {b \in {disk[place]} \cap Workspace : \E p \in Process : wpc[p] = "acting"}

DeleteDirectory(place) ==
    /\ Mishap /\ disk[place] # Nobody /\ disk' = [disk EXCEPT ![place] = Nobody]
    /\ AroundOnly /\ UNCHANGED <<admin, branches, journals, late, lost>>

MoveDirectory(place, other) ==
    /\ Mishap /\ disk[place] # Nobody /\ disk[other] = Nobody
    /\ disk' = [disk EXCEPT ![other] = disk[place], ![place] = Nobody]
    /\ late' = late \cup BehindCheck(place)
    /\ AroundOnly /\ UNCHANGED <<admin, branches, journals, lost>>

(* A reconcile or a rebase begins in a worktree, and ends.                 *)
BeginOperation(place) ==
    /\ Mishap /\ Usable(place) /\ journals' = journals \cup {disk[place]}
    /\ late' = late \cup BehindCheck(place)
    /\ AroundOnly /\ UNCHANGED <<admin, disk, branches, lost>>

EndOperation(b) ==
    /\ b \in journals /\ journals' = journals \ {b}
    /\ AroundOnly /\ UNCHANGED <<admin, disk, branches, late, lost, mishaps>>

-----------------------------------------------------------------------------
CommandStep(p) ==
    \/ Claim(p)
    \/ GiveUp(p)
    \/ Decide(p)
    \/ Act(p)
    \/ ActFails(p)
    \/ Save(p)
    \/ Release(p)
    \/ Capture(p)
    \/ CaptureRefused(p)
    \/ KeepPrevious(p)
    \/ PointAt(p)

WorkspaceNext ==
    \/ \E p \in Process, command \in Commands : Request(p, command)
    \/ \E p \in Process : CommandStep(p)
    \/ \E p \in Process : Crash(p)
    \/ RemoveClaim
    \/ \E place \in Path : DeleteDirectory(place)
    \/ \E place, other \in Path : MoveDirectory(place, other)
    \/ \E place \in Path : BeginOperation(place)
    \/ \E b \in Workspace : EndOperation(b)

WorkspaceSpec == WorkspaceInit /\ [][WorkspaceNext]_workspaceVars

-----------------------------------------------------------------------------
(* Properties.                                                             *)

(* No save undoes another's: every workspace's entry is the one the last   *)
(* command about it wrote, however commands, kills and removed claims      *)
(* interleave (workspace-lock.js:31 "Serialize synchronous registry        *)
(* transactions across every linked worktree").                            *)
NoUpdateLost == \A w \in Workspace : written[w] = {registry[i] : i \in Places(w)}

(* No command deletes the journal of an operation in progress, unless the  *)
(* operation began, or a person moved its worktree, behind the command's   *)
(* back, after its check (workspaces.js assertNoOperationJournal "Presence *)
(* is sufficient").                                                        *)
JournalsKept == lost \subseteq late

(* While nothing runs, every registered workspace whose branch exists is   *)
(* where its entry says, or one of repair, prune and restore applies to    *)
(* it: no kill between Git's change and the save strands it.  Exempt are a *)
(* recorded path something else stands at, an archived workspace with a    *)
(* worktree whose directory was deleted, and there being no free path.     *)
Recoverable ==
    (\A p \in Process : wpc[p] = "idle") =>
        \A i \in DOMAIN registry :
            LET e == registry[i]
            IN e.id \in branches =>
                 \/ e.lifecycle = "active" /\ disk[e.path] = e.id /\ admin[e.id] = e.path
                 \/ \E place \in Path : Repairable(e.id, place)
                 \/ i \in Stale(registry)
                 \/ e.lifecycle = "archived" /\ \E place \in Path : Addable(e.id, place)
                 \/ disk[e.path] \notin {e.id, Nobody}
                 \/ e.lifecycle = "archived" /\ admin[e.id] # Nobody /\ e.id \notin Range(disk)
                 \/ \A place \in Path : disk[place] # Nobody \/ place \in Range(admin)

(* Every checkpoint reported stays named, by its workspace's ref or by a   *)
(* checkpoint-history ref, unless two were taken of one workspace at once  *)
(* (checkpointWorkspace reads the previous one and takes no lock).         *)
CheckpointsNamed ==
    \A w \in DOMAIN tip : w \notin overlapped => taken[w] \subseteq past[w] \cup {tip[w]}
=============================================================================
