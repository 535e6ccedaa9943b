------------------------------- MODULE Sessions -------------------------------
(***************************************************************************)
(* A synchronous command that reads Git objects through a worker thread,   *)
(* and the worker that keeps one Git process open for it: `git cat-file    *)
(* --batch-command` for object reads, `git merge-tree --stdin` for the     *)
(* steps of a forecast (module Forecasts).                                 *)
(*                                                                         *)
(* src/src/git.js (GitObjectSession, MergeTreeSession, the reads that use  *)
(* them and their fallbacks, sessionNoteEntries), and the two workers,     *)
(* src/src/git-session-worker.js and src/src/merge-tree-session-worker.js. *)
(*                                                                         *)
(* The command posts a request and blocks in Atomics.wait; the worker's    *)
(* event handlers, the Git process and other writers of the repository     *)
(* interleave.  An object is its tree id: its bytes are fixed by its id.   *)
(***************************************************************************)
EXTENDS Integers, Sequences, FiniteSets, SequencesExt, FiniteSetsExt

CONSTANTS
    Tree, Roots, \* trees a notes ref can be at (Roots), and their subtrees
    Parts,       \* the subtrees of each tree
    Attached,    \* the notes each tree itself has
    Size,        \* the bytes of each tree
    Asks,        \* what the command may read at once (sequences of expressions)
    MaxBytes,    \* bound of the code: what a listing reads through a session
    MaxTrees,    \* bound of the code: the trees it visits
    MaxReads,    \* bound: reads and writes of the command
    MaxMoves,    \* bound: publications of others meanwhile
    MaxFaults    \* bound: things that go wrong

Missing == "missing"
Ref == "ref"           \* the one expression whose answer may change

ASSUME TreeAssumption ==
    /\ IsFiniteSet(Tree) /\ Roots \subseteq Tree /\ Tree \cap {Missing, "odd", Ref} = {}
    /\ \A asked \in Asks : asked \in Seq(Tree \cup {Ref}) /\ IsInjective(asked)
    /\ Parts \in [Tree -> SUBSET Tree] /\ Size \in [Tree -> Nat] /\ DOMAIN Attached = Tree
ASSUME SessionBounds == {MaxBytes, MaxTrees, MaxReads, MaxMoves, MaxFaults} \subseteq Nat

Expression == Tree \cup {Ref}

VARIABLES
    kind,               \* which of the two sessions this is
    present, refAt,     \* the objects of the repository, where the notes ref is
    state,              \* of the session, as its owner knows it
    cache,              \* answers for expressions that cannot change
    worker, gitp,       \* the worker thread and its Git process
    version, oldGit,    \* what the worker knows of Git's version, and the truth
    unusable,           \* the worker serves no further request
    request, buffer,    \* the request posted, and its shared buffer
    pending, collected, \* expressions awaiting an answer, answers of the batch
    inpipe, outpipe,    \* Git's standard input and output
    spc, call, result,  \* the command: where it is, what it reads, what it got
    held,               \* what an answer may be (history)
    misled,             \* an ordinary process failed and was taken at its word
    reads, moves, faults

repoVars == <<present, refAt>>
workerVars == <<worker, gitp, version, unusable, request, buffer, pending, collected, inpipe, outpipe>>
callVars == <<spc, call, result>>
countVars == <<reads, moves, faults>>
sessionVars == <<kind, repoVars, state, cache, workerVars, oldGit, callVars, held, misled, countVars>>

-----------------------------------------------------------------------------
(* What Git says of an expression.                                         *)
Held(e) == CASE e = Ref -> refAt
             [] e \in present -> e
             [] OTHER -> Missing

(* An answer the worker does not understand.                               *)
Odd == IF kind = "merge" THEN {"odd"} ELSE "odd"

Conflict == {"conflict"}

(* A merge step <<accumulated, change, clean>> yields the tree with the    *)
(* change in it, or a conflict.                                            *)
Merged(step) == IF step[3] THEN step[1] \cup {step[2]} ELSE Conflict

Answer(item) == IF kind = "merge" THEN Merged(item) ELSE Held(item)

(* A tree and the trees below it: the least set that has it and, with each *)
(* tree, its parts.                                                        *)
Below(t) ==
    {u \in Tree : \A seen \in SUBSET Tree :
                    t \in seen /\ (\A v \in seen : Parts[v] \subseteq seen) => u \in seen}

(* The notes in all of them.                                               *)
Catalog(t) == UNION {Attached[u] : u \in Below(t)}

NoRequest == <<>>
Empty == [ok |-> FALSE, answers |-> <<>>, written |-> FALSE]
Failure == [ok |-> FALSE, answers |-> <<>>, written |-> TRUE]

NoCall == [op |-> "none", stage |-> "info", ask |-> <<>>, sizes |-> 0, trees |-> 0, notes |-> {}]

SessionTypeOK ==
    /\ kind \in {"objects", "merge"} /\ present \subseteq Tree /\ refAt \in Tree \cup {Missing}
    /\ state \in {"open", "failed", "closed"}
    /\ cache \subseteq {"info", "contents"} \X Tree \X (Tree \cup {Missing})
    /\ worker \in {"none", "up", "dead"} /\ gitp \in {"none", "running", "hung", "exited", "noticed"}
    /\ version \in {"pending", "ok", "too-old", "unknown"} /\ {oldGit, unusable} \subseteq BOOLEAN
    /\ {buffer.ok, buffer.written, misled} \subseteq BOOLEAN
    /\ gitp = "running" /\ (kind = "objects" \/ version # "pending") =>
          Len(inpipe) + Len(outpipe) = Len(pending)
    /\ spc \in {"free", "ask", "waiting", "got", "shutting", "ordinary", "back", "out"}
    /\ call.sizes \in Nat /\ call.trees \in Nat
    /\ reads \in 0..MaxReads /\ moves \in 0..MaxMoves /\ faults \in 0..MaxFaults

SessionInit ==
    /\ \E t \in Roots \cup {Missing} :
         refAt = t /\ present = IF t = Missing THEN {} ELSE Below(t)
    /\ state = "open" /\ cache = {} /\ worker = "none" /\ gitp = "none"
    /\ version = "pending" /\ unusable = FALSE
    /\ request = NoRequest /\ buffer = Empty /\ pending = <<>> /\ collected = <<>>
    /\ inpipe = <<>> /\ outpipe = <<>>
    /\ spc = "free" /\ call = NoCall /\ result = {}
    /\ held = [e \in Expression |-> {Held(e)}] /\ misled = FALSE
    /\ reads = 0 /\ moves = 0 /\ faults = 0

Fails == faults < MaxFaults /\ faults' = faults + 1
Now == [e \in Expression |-> {Held(e)'}]

-----------------------------------------------------------------------------
(* The command.                                                            *)

CommandOnly == UNCHANGED <<kind, repoVars, oldGit, misled>>

(* readGitObjects, inspectGitObjects and the reads of one expression.      *)
StartRead(asked) ==
    /\ spc = "free" /\ reads < MaxReads /\ reads' = reads + 1
    /\ call' = [NoCall EXCEPT !.op = "read", !.ask = asked] /\ spc' = "ask"
    /\ held' = [held EXCEPT ![Ref] = {refAt}]
    /\ CommandOnly /\ UNCHANGED <<state, cache, workerVars, result, moves, faults>>

(* sessionNoteEntries: breadth first from the root of the notes ref.       *)
StartList ==
    /\ spc = "free" /\ reads < MaxReads /\ reads' = reads + 1
    /\ call' = [NoCall EXCEPT !.op = "list", !.ask = <<Ref>>, !.trees = 1] /\ spc' = "ask"
    /\ held' = [held EXCEPT ![Ref] = {refAt}]
    /\ CommandOnly /\ UNCHANGED <<state, cache, workerVars, result, moves, faults>>

(* Mutant: a write does not invalidate what the session remembers.         *)
Invalidated_Never(kept) == kept

(* invalidateObjectSession.                                                *)
Invalidated(kept) == {}

(* A mutating runGit of the command's own: a publication.                  *)
Mutate(t) ==
    /\ kind = "objects" /\ spc = "free" /\ reads < MaxReads /\ reads' = reads + 1
    /\ refAt' = t /\ present' = present \cup Below(t)
    /\ cache' = Invalidated(cache) /\ held' = Now
    /\ UNCHANGED <<kind, oldGit, misled, state, workerVars, callVars, moves, faults>>

(* Somebody else publishes.                                                *)
OthersPublish(t) ==
    /\ kind = "objects" /\ moves < MaxMoves /\ moves' = moves + 1 /\ t # refAt /\ spc \notin {"back", "out"}
    /\ refAt' = t /\ present' = present \cup Below(t)
    /\ held' = [e \in Expression |-> held[e] \cup {Held(e)'}]
    /\ UNCHANGED <<kind, oldGit, misled, state, cache, workerVars, callVars, reads, faults>>

Known(command, e) == \E hit \in cache : hit[1] = command /\ hit[2] = e
Hits(command, asked) == {<<hit[2], hit[3]>> : hit \in {h \in cache : h[1] = command /\ h[2] \in ToSet(asked)}}
Unknown(command, asked) ==
    LET left[n \in 0..Len(asked)] == IF n = 0 THEN <<>>
                                     ELSE IF Known(command, asked[n]) THEN left[n - 1]
                                     ELSE Append(left[n - 1], asked[n])
    IN left[Len(asked)]

(* request: what the cache knows is not asked again; a merge step is never *)
(* cached.  The first request starts the worker and its process.           *)
Ask ==
    /\ spc = "ask"
    /\ LET missing == IF kind = "merge" THEN call.ask ELSE Unknown(call.stage, call.ask) IN
       \/ /\ state # "open" /\ spc' = "ordinary" /\ UNCHANGED <<result, workerVars>>
       \/ /\ state = "open" /\ missing = <<>>
          /\ result' = Hits(call.stage, call.ask) /\ spc' = "got" /\ UNCHANGED workerVars
       \/ /\ state = "open" /\ missing # <<>>
          /\ request' = missing /\ buffer' = Empty /\ spc' = "waiting"
          /\ worker' = (IF worker = "none" THEN "up" ELSE worker)
          /\ gitp' = (IF gitp = "none" THEN "running" ELSE gitp)
          /\ UNCHANGED <<version, unusable, pending, collected, inpipe, outpipe, result>>
    /\ CommandOnly /\ UNCHANGED <<state, cache, call, held, countVars>>

Answers == {<<buffer.answers[i][1], buffer.answers[i][2]>> : i \in 1..Len(buffer.answers)}

Receive ==
    /\ spc = "waiting" /\ buffer.written /\ buffer.ok
    /\ result' = Answers \cup (IF kind = "merge" THEN {} ELSE Hits(call.stage, call.ask))
    /\ cache' = IF kind = "merge" THEN cache
                ELSE cache \cup {<<call.stage, a[1], a[2]>> : a \in {b \in Answers : b[1] # Ref}}
    /\ spc' = "got"
    /\ CommandOnly /\ UNCHANGED <<state, workerVars, call, held, countVars>>

(* queryObjectSession: after any failure the session is disabled and every *)
(* further read is an ordinary process.                                    *)
ReceiveFailure ==
    /\ spc = "waiting" /\ buffer.written /\ ~buffer.ok
    /\ state' = "failed" /\ spc' = "shutting"
    /\ CommandOnly /\ UNCHANGED <<cache, workerVars, call, result, held, countVars>>

(* Mutant: the command waits for as long as it takes.                      *)
WaitEnds_Never == FALSE

(* Atomics.wait returns after SESSION_TIMEOUT_MS.                          *)
WaitEnds == spc = "waiting" /\ ~buffer.written

TimesOut ==
    /\ WaitEnds /\ (gitp = "hung" \/ oldGit \/ worker = "dead")
    /\ state' = "failed" /\ spc' = "shutting"
    /\ CommandOnly /\ UNCHANGED <<cache, workerVars, call, result, held, countVars>>

(* An answer that is late, not missing, is a fault.                        *)
TimesOutEarly ==
    /\ WaitEnds /\ ~(gitp = "hung" \/ oldGit \/ worker = "dead") /\ Fails
    /\ state' = "failed" /\ spc' = "shutting"
    /\ CommandOnly /\ UNCHANGED <<cache, workerVars, call, result, held, reads, moves>>

(* The command ends: withGitObjectSession closes.                          *)
Leave ==
    /\ spc = "free" /\ kind = "objects"
    /\ state' = (IF state = "open" THEN "closed" ELSE state)
    /\ spc' = IF state = "open" /\ worker # "none" THEN "shutting" ELSE "out"
    /\ CommandOnly /\ UNCHANGED <<cache, workerVars, call, result, held, countVars>>

(* close and disable wait for the worker to see its process end, which it  *)
(* forces after two seconds, or give up after five and terminate it.       *)
ShutDown ==
    /\ spc = "shutting" /\ (gitp \in {"exited", "noticed"} \/ worker = "dead")
    /\ worker' = "dead" /\ request' = NoRequest /\ buffer' = Empty
    /\ pending' = <<>> /\ collected' = <<>> /\ inpipe' = <<>> /\ outpipe' = <<>>
    /\ spc' = IF state = "failed" THEN "ordinary" ELSE "out"
    /\ CommandOnly /\ UNCHANGED <<state, cache, gitp, version, unusable, call, result, held, countVars>>

(* The same read with a process of its own.  When it fails, an object read *)
(* is an error, and a listing is taken to be empty.                        *)
Ordinary ==
    /\ spc = "ordinary" /\ kind = "objects"
    /\ result' = IF call.op = "list"
                 THEN IF refAt = Missing THEN {} ELSE Catalog(refAt)
                 ELSE {<<e, Held(e)>> : e \in ToSet(call.ask)}
    /\ spc' = "back"
    /\ CommandOnly /\ UNCHANGED <<state, cache, workerVars, call, held, countVars>>

OrdinaryFails ==
    /\ spc = "ordinary" /\ kind = "objects" /\ Fails
    /\ result' = {} /\ spc' = "back" /\ misled' = TRUE
    /\ UNCHANGED <<kind, repoVars, oldGit, state, cache, workerVars, call, held, reads, moves>>

ReadReturns ==
    /\ spc = "got" /\ call.op = "read" /\ spc' = "back"
    /\ CommandOnly /\ UNCHANGED <<state, cache, workerVars, call, result, held, countVars>>

-----------------------------------------------------------------------------
(* sessionNoteEntries, between its queries.                                *)

Found == {r[2] : r \in result}
Go(call1, label) ==
    /\ call' = call1 /\ spc' = label
    /\ CommandOnly /\ UNCHANGED <<state, cache, workerVars, held, countVars>>

(* Sizes first; no ref means no notes, a missing subtree or too much of it *)
(* leaves the whole listing to Git.  The root is pinned to what was seen.  *)
ListSized ==
    /\ spc = "got" /\ call.op = "list" /\ call.stage = "info"
    /\ LET sizes == call.sizes + MapThenSumSet(LAMBDA t : Size[t], Found \ {Missing}) IN
       \/ /\ call.trees = 1 /\ Found = {Missing} /\ Go(call, "back") /\ result' = {}
       \/ /\ ~(call.trees = 1 /\ Found = {Missing})
          /\ Missing \in Found \/ sizes > MaxBytes \/ call.trees > MaxTrees
          /\ Go(call, "ordinary") /\ UNCHANGED result
       \/ /\ Missing \notin Found /\ sizes <= MaxBytes /\ call.trees <= MaxTrees
          /\ Go([call EXCEPT !.stage = "contents", !.ask = SetToSeq(Found), !.sizes = sizes], "ask")
          /\ UNCHANGED result

(* Mutant: when Git has to be asked after all, what was listed is kept.    *)
ListRead_Partial ==
    /\ spc = "got" /\ call.op = "list" /\ call.stage = "contents"
    /\ LET notes == call.notes \cup UNION {Attached[t] : t \in Found \ {Missing}}
           next == UNION {Parts[t] : t \in Found \ {Missing}} IN
       IF next = {} \/ call.trees + Cardinality(next) > MaxTrees
       THEN Go(call, "back") /\ result' = notes
       ELSE Go([call EXCEPT !.stage = "info", !.ask = SetToSeq(next), !.notes = notes,
                            !.trees = @ + Cardinality(next)], "ask") /\ UNCHANGED result

(* The notes of this level, and the trees below it; an attachment that is  *)
(* there twice is left to Git, which joins the two.                        *)
ListRead ==
    /\ spc = "got" /\ call.op = "list" /\ call.stage = "contents"
    /\ LET here == UNION {Attached[t] : t \in Found \ {Missing}}
           next == UNION {Parts[t] : t \in Found \ {Missing}}
           Twice == \E t, u \in Found \ {Missing} : t # u /\ Attached[t] \cap Attached[u] # {} IN
       \/ /\ Missing \in Found \/ Twice \/ here \cap call.notes # {}
             \/ call.trees + Cardinality(next) > MaxTrees
          /\ Go(call, "ordinary") /\ UNCHANGED result
       \/ /\ Missing \notin Found /\ ~Twice /\ here \cap call.notes = {}
          /\ call.trees + Cardinality(next) <= MaxTrees
          /\ IF next = {} THEN Go(call, "back") /\ result' = call.notes \cup here
             ELSE /\ Go([call EXCEPT !.stage = "info", !.ask = SetToSeq(next),
                                     !.notes = @ \cup here, !.trees = @ + Cardinality(next)], "ask")
                  /\ UNCHANGED result

(* The command uses what it read.                                          *)
Return ==
    /\ spc = "back" /\ kind = "objects"
    /\ spc' = "free" /\ call' = NoCall /\ result' = {} /\ misled' = FALSE
    /\ UNCHANGED <<kind, repoVars, oldGit, state, cache, workerVars, held, countVars>>

-----------------------------------------------------------------------------
(* The worker's handlers.                                                  *)

WorkerOnly == worker = "up" /\ UNCHANGED <<kind, repoVars, state, cache, oldGit, callVars, held, misled>>
Respond(value) == buffer' = IF buffer.written THEN buffer ELSE value

(* Only a request that may be written reaches Git's standard input.        *)
Writable == version # "pending"

(* A request is taken.  Writing to a process that has exited unnoticed     *)
(* (EPIPE) is a rejection to the merge worker; the object worker has no    *)
(* listener for it, and may be gone before it can answer.                  *)
TakeRequest ==
    /\ WorkerOnly /\ request # NoRequest /\ request' = NoRequest
    /\ \/ /\ unusable \/ gitp = "noticed"
          /\ Respond(Failure) /\ UNCHANGED <<worker, pending, inpipe, collected>>
       \/ /\ ~unusable /\ gitp = "exited" /\ kind = "objects"
          /\ worker' = "dead" /\ UNCHANGED <<buffer, pending, inpipe, collected>>
       \/ /\ ~unusable /\ gitp # "noticed"
          /\ pending' = pending \o request /\ collected' = <<>>
          /\ inpipe' = IF kind = "objects" \/ Writable THEN inpipe \o request ELSE inpipe
          /\ UNCHANGED <<worker, buffer>>
    /\ UNCHANGED <<gitp, version, unusable, outpipe, countVars>>

(* settleVersion: from Git's trace, or unknown after ten seconds.  A Git   *)
(* that is too old is never asked.                                         *)
ObserveVersion ==
    /\ WorkerOnly /\ kind = "merge" /\ version = "pending" /\ gitp = "running"
    /\ IF oldGit
       THEN /\ version' = "too-old" /\ unusable' = TRUE /\ pending' = <<>>
            /\ IF pending = <<>> THEN UNCHANGED buffer ELSE Respond(Failure)
            /\ UNCHANGED inpipe
       ELSE /\ version' = "ok" /\ inpipe' = pending /\ UNCHANGED <<unusable, pending, buffer>>
    /\ UNCHANGED <<worker, gitp, request, collected, outpipe, countVars>>

VersionUnknown ==
    /\ WorkerOnly /\ kind = "merge" /\ version = "pending" /\ gitp # "noticed" /\ Fails
    /\ version' = "unknown" /\ inpipe' = pending
    /\ UNCHANGED <<worker, gitp, unusable, request, buffer, pending, collected, outpipe, reads, moves>>

(* Answers come in the order of the requests.                              *)
Oldest(queue) == 1

(* parseResponse: an answer is paired with a pending request; a header it  *)
(* does not understand, or a batch that does not fit the shared buffer,    *)
(* fails the batch.                                                        *)
ParseResponse ==
    /\ WorkerOnly /\ pending # <<>> /\ outpipe # <<>>
    /\ LET k == Oldest(pending)
           answer == Head(outpipe)
           got == Append(collected, <<pending[k], answer>>) IN
       /\ pending' = RemoveAt(pending, k) /\ collected' = got
       /\ unusable' = (unusable \/ (kind = "merge" /\ answer = Conflict))
       /\ \/ /\ answer = Odd /\ Respond(Failure) /\ UNCHANGED faults
          \/ /\ answer # Odd /\ Len(pending) > 1 /\ UNCHANGED <<buffer, faults>>
          \/ /\ answer # Odd /\ Len(pending) = 1 /\ UNCHANGED faults
             /\ Respond([ok |-> TRUE, answers |-> got, written |-> TRUE])
          \/ /\ answer # Odd /\ Len(pending) = 1 /\ kind = "objects" /\ Fails /\ Respond(Failure)
    /\ outpipe' = Tail(outpipe)
    /\ UNCHANGED <<worker, gitp, version, request, inpipe, reads, moves>>

NoticeExit ==
    /\ WorkerOnly /\ gitp = "exited" /\ gitp' = "noticed" /\ pending' = <<>>
    /\ IF pending = <<>> THEN UNCHANGED buffer ELSE Respond(Failure)
    /\ UNCHANGED <<worker, version, unusable, request, collected, inpipe, outpipe, countVars>>

KillHung ==
    /\ WorkerOnly /\ spc = "shutting" /\ gitp = "hung" /\ gitp' = "exited"
    /\ UNCHANGED <<worker, version, unusable, request, buffer, pending, collected, inpipe, outpipe, countVars>>

-----------------------------------------------------------------------------
(* The Git process.                                                        *)

GitOnly == UNCHANGED <<kind, repoVars, state, cache, oldGit, callVars, held, misled,
                       worker, version, unusable, request, buffer, pending, collected>>

(* An old merge-tree keeps its answers in its own buffer.                  *)
GitAnswers ==
    /\ gitp = "running" /\ inpipe # <<>> /\ ~(kind = "merge" /\ oldGit)
    /\ inpipe' = Tail(inpipe) /\ outpipe' = Append(outpipe, Answer(Head(inpipe)))
    /\ GitOnly /\ UNCHANGED <<gitp, countVars>>

(* An abbreviated name that became ambiguous, for one.                     *)
GitAnswersOddly ==
    /\ gitp = "running" /\ inpipe # <<>> /\ ~(kind = "merge" /\ oldGit) /\ Fails
    /\ inpipe' = Tail(inpipe) /\ outpipe' = Append(outpipe, Odd)
    /\ GitOnly /\ UNCHANGED <<gitp, reads, moves>>

GitFails ==
    /\ gitp = "running" /\ worker = "up" /\ Fails /\ gitp' \in {"exited", "hung"}
    /\ GitOnly /\ UNCHANGED <<inpipe, outpipe, reads, moves>>

(* Its input is at an end.                                                 *)
GitEnds ==
    /\ gitp = "running" /\ (worker = "dead" \/ spc = "shutting" \/ version = "too-old")
    /\ gitp' = "exited"
    /\ GitOnly /\ UNCHANGED <<inpipe, outpipe, countVars>>

-----------------------------------------------------------------------------

WorkerStep == TakeRequest \/ ObserveVersion \/ ParseResponse \/ NoticeExit \/ KillHung
GitStep == GitAnswers \/ GitEnds
Fault == TimesOutEarly \/ VersionUnknown \/ GitAnswersOddly \/ GitFails

CommandGoesOn ==
    \/ Ask \/ Receive \/ ReceiveFailure \/ TimesOut \/ ShutDown \/ Ordinary
    \/ ReadReturns \/ ListSized \/ ListRead \/ Return

SessionNext ==
    \/ \E asked \in Asks : StartRead(asked)
    \/ StartList \/ Leave
    \/ \E t \in Roots : Mutate(t) \/ OthersPublish(t)
    \/ CommandGoesOn \/ OrdinaryFails \/ WorkerStep \/ GitStep \/ Fault

(* The command's own steps and its deadline, the worker's event loop and a *)
(* Git process that does not hang go on; nothing else is relied on.        *)
SessionFairness == WF_sessionVars(CommandGoesOn) /\ WF_sessionVars(WorkerStep) /\ WF_sessionVars(GitStep)

SessionSpec == kind = "objects" /\ oldGit = FALSE /\ SessionInit /\ [][SessionNext]_sessionVars /\ SessionFairness

-----------------------------------------------------------------------------
(* What a read is told of an expression is what the repository held for it *)
(* at some moment of the read - and, for an object id, since the command   *)
(* last wrote through Git - whatever is cached, pipelined, late, odd or    *)
(* dead.  ("Read-only commands neither invalidate the object session ...   *)
(* everything else is a mutation".)                                        *)
AnswersTrue ==
    kind = "objects" /\ spc = "back" /\ call.op = "read" /\ ~misled =>
        /\ {r[1] : r \in result} = ToSet(call.ask)
        /\ \A r \in result : r[2] \in held[r[1]]

(* "Never return a partial catalog": a listing is the whole of one tree    *)
(* the ref was at while it ran, through the session, past its budgets, or  *)
(* when the session breaks in the middle.                                  *)
CatalogWhole ==
    kind = "objects" /\ spc = "back" /\ call.op = "list" /\ ~misled =>
        \E t \in held[Ref] : result = IF t = Missing THEN {} ELSE Catalog(t)

(* A read always ends, whatever happens to the worker and the process.     *)
EveryReadEnds == spc \notin {"free", "out"} ~> spc \in {"free", "out"}
=============================================================================
