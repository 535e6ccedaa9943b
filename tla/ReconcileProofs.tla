--------------------------- MODULE ReconcileProofs ---------------------------
(***************************************************************************)
(* Proofs about Reconcile, for every source branch, every set of tagged    *)
(* changes, every kind of draft and every bound.                           *)
(***************************************************************************)
EXTENDS Reconcile, SequenceTheorems, WellFoundedInduction, TLAPS

USE SourceAssumption, OverlaysAssumption, FlagsAssumption, BoundsAssumption

Picking == {"pick", "paused", "batch", "continue", "advance"}
Finished == {"verify", "materialize", "remat", "publish", "clear"}
Undoing == {"undo", "restore", "forget"}
Forward == {"reduce", "reset", "queue"} \cup Picking \cup Finished

(* What a plan makes a queue of: no change twice.                          *)
Distinct(queue) == \A i, j \in 1..Len(queue) : queue[i] = queue[j] => i = j

(* A journal says how far its queue has been applied, what of, and which   *)
(* change is being picked.                                                 *)
Coherent(o) ==
    /\ Distinct(o.queue) /\ o.next <= Len(o.queue) + 1 /\ Len(o.applied) = o.next - 1
    /\ \A i \in 1..Len(o.applied) :
          /\ o.applied[i].change = o.queue[i]
          /\ ~o.applied[i].fork => Holds(o.applied[i].commit, o.applied[i].change)
    /\ o.current # NoCurrent => o.next <= Len(o.queue) /\ o.current.change = o.queue[o.next]
    /\ o.remat => o.overlay # None

(* While no pick was rewound or redone: the branch, at c, still has what   *)
(* the operation started from, and what the queue leaves out is there; and *)
(* unless an abort has begun, it has all that was applied.                 *)
Founded(o, c, abandoned) ==
    /\ Ancestor(o.before, c)
    /\ \A x \in Change : Holds(o.before, x) \/ \E i \in 1..Len(o.queue) : o.queue[i] = x
    /\ ~abandoned => \A i \in 1..Len(o.applied) : Ancestor(o.applied[i].commit, c)

Journaled ==
    /\ Pending => Coherent(journal)
    /\ pc # "idle" => Coherent(op)
    /\ Pending /\ ~redone => Founded(journal, tip[journal.branch], undoing)

(* What a running command has in its memory, by where it is.               *)
Running ==
    /\ pc = "idle" <=> op = NoOperation
    /\ pc # "idle" => /\ Pending /\ branch = op.branch
                      /\ journal = op \/ (pc = "paused" /\ journal = [op EXCEPT !.current.conflicted = FALSE])
    /\ pc \in {"reduce", "reset", "queue"} \cup Finished => op.current = NoCurrent
    /\ pc \in Picking => op.current # NoCurrent
    /\ pc \in Finished => op.next > Len(op.queue)
    /\ pc \in {"materialize", "remat"} => op.overlay # None
    /\ pc = "advance" => tip[branch] # <<>> /\ tip[branch][Len(tip[branch])] =
                            [change |-> op.current.change, by |-> op.id, fork |-> op.current.fork]
    /\ pc = "pick" => ~op.current.fork /\ ~op.current.conflicted
    /\ pc \in Undoing => undoing
    /\ pc \in {"materialize", "remat"} => nextNote = 1
    /\ pc \in {"publish", "clear"} => nextNote \in 1..(Len(op.applied) + 1)

(* Where Git holds a pick, it is the journal's; while none was redone, it  *)
(* stands where the journal says it started, and no abort has begun.       *)
PickTrue ==
    /\ cp # None => /\ Pending /\ journal.current # NoCurrent /\ cp = journal.current.change
                    /\ pc \in {"idle", "paused", "batch", "continue"}
                    /\ wt \in {"clean", "conflict", "staged"}
    /\ cp # None /\ ~redone => /\ branch = journal.branch /\ ~undoing
                               /\ tip[branch] = journal.current.before
    /\ pc \in {"pick", "paused", "batch", "continue"} /\ ~redone => tip[branch] = op.current.before
    /\ pc \in Forward /\ ~redone => ~undoing

(* Where a command does not undo, there is nothing of the person's to lose.*)
NothingToLose ==
    /\ pc \in {"queue", "pick", "advance"} => wt = "clean"
    /\ pc \in Forward => wt # "edited"
    /\ pc \in Undoing => /\ cp = None
                         /\ wt = "edited" => op.remat
                         /\ op.overlay = None => wt = "clean"
    /\ pc \in {"restore", "forget"} => tip[branch] = op.before
    /\ pc = "forget" /\ op.overlay = "draft" => wt = "draft"

(* No record names an operation that still has a change to apply.          *)
Unpublished(id) == \A n \in Published : n.type # "resolution" => n.op # id

RecordOf(o, i) == [type |-> "application", op |-> o.id, app |-> o.applied[i]]

PublishingTrue ==
    /\ Pending => journal.id \in 1..ops
    /\ \A n \in Published : n.type # "resolution" => n.op \in 1..ops
    /\ Pending /\ journal.next <= Len(journal.queue) => Unpublished(journal.id)
    /\ pc \in {"reduce", "reset", "queue", "verify", "materialize", "remat"} => Unpublished(op.id)
    /\ pc = "publish" =>
          /\ \A n \in Published : n.type # "resolution" /\ n.op = op.id =>
                \E i \in 1..(nextNote - 1) : n = RecordOf(op, i)
          /\ \A i \in 1..(nextNote - 1) : RecordOf(op, i) \in Published

(* What a receipt calls absorbed is in the commit it is attached to.       *)
ReceiptsTrue == ~redone => \A r \in Receipts : \A x \in r.absorbed : Holds(r.result, x)

ReconcileIInv ==
    /\ TypeOK
    /\ Journaled /\ Running /\ PickTrue /\ NothingToLose /\ PublishingTrue /\ ReceiptsTrue
    /\ NoRecordTwice /\ PublishedWhole
-----------------------------------------------------------------------------
(* Sequences and commits.                                                  *)

(* A set of natural numbers that has a member has a least one: to prove    *)
(* something of every number, look at the least that lacks it.             *)
LEMMA LeastMember ==
    ASSUME NEW T \in SUBSET Nat, T # {}
    PROVE  \E k \in T : \A j \in T : k <= j
  <1>1. PICK k \in T : \A j \in T : ~ (<<j, k>> \in OpToRel(<, Nat))
    BY NatLessThanWellFounded, WFMin, Zenon
  <1>2. \A j \in T : ~ (j < k)
    BY <1>1 DEF OpToRel
  <1>3. QED
    BY <1>2

LEMMA SourceDomain ==
    /\ Len(Source) \in Nat /\ \A i \in 1..Len(Source) : Source[i] \in Change
    /\ \A x \in Change : \E i \in 1..Len(Source) : Source[i] = x
  BY LenProperties DEF Change

(* How the queue grows along the source.                                   *)
LeftBody(c, left, n) ==
    [i \in 0..n |-> IF i = 0 THEN <<>>
                    ELSE IF Covered(c, Source[i]) THEN left[i - 1]
                    ELSE Append(left[i - 1], Source[i])]
Left(c) == CHOOSE left : left = LeftBody(c, left, Len(Source))

LEMMA LeftExists ==
    ASSUME NEW c
    PROVE  Left(c) = LeftBody(c, Left(c), Len(Source)) /\ Queue(c) = Left(c)[Len(Source)]
  <1> DEFINE Bad == {n \in Nat : ~ \E left : left = LeftBody(c, left, n)}
  <1>1. Bad = {}
    <2>1. SUFFICES ASSUME Bad # {} PROVE FALSE
      OBVIOUS
    <2>2. PICK k \in Bad : \A j \in Bad : k <= j
      BY <2>1, LeastMember
    <2>3. CASE k = 0
      <3>1. [i \in 0..0 |-> <<>>] = LeftBody(c, [i \in 0..0 |-> <<>>], 0)
        BY DEF LeftBody
      <3>2. QED
        BY <2>2, <2>3, <3>1
    <2>4. CASE k # 0
      <3>1. k - 1 \in Nat /\ k - 1 \notin Bad
        BY <2>2, <2>4
      <3>2. PICK g : g = LeftBody(c, g, k - 1)
        BY <3>1
      <3> DEFINE f == [i \in 0..k |-> IF i < k THEN g[i]
                                      ELSE IF Covered(c, Source[k]) THEN g[k - 1]
                                      ELSE Append(g[k - 1], Source[k])]
      <3>3. \A i \in 0..(k - 1) : g[i] = IF i = 0 THEN <<>>
                                        ELSE IF Covered(c, Source[i]) THEN g[i - 1]
                                        ELSE Append(g[i - 1], Source[i])
        BY <3>1, <3>2 DEF LeftBody
      <3>4. \A i \in 0..k : f[i] = IF i = 0 THEN <<>>
                                  ELSE IF Covered(c, Source[i]) THEN f[i - 1]
                                  ELSE Append(f[i - 1], Source[i])
        BY <2>2, <2>4, <3>3
      <3>5. f = LeftBody(c, f, k)
        BY <3>4 DEF LeftBody
      <3>6. QED
        BY <2>2, <3>5
    <2>5. QED
      BY <2>3, <2>4
  <1>2. \E left : left = LeftBody(c, left, Len(Source))
    BY <1>1, SourceDomain
  <1>3. Left(c) = LeftBody(c, Left(c), Len(Source))
    BY <1>2, Zenon DEF Left
  <1>4. Queue(c) = Left(c)[Len(Source)]
    BY Zenon DEF Queue, Left, LeftBody
  <1>5. QED
    BY <1>3, <1>4

(* What the queue is after the first i entries of the source.              *)
LeftTrue(c, queue, i) ==
    /\ queue \in Seq(Change) /\ Distinct(queue)
    /\ \A j \in 1..Len(queue) : \E m \in 1..i : queue[j] = Source[m]
    /\ \A m \in 1..i : Covered(c, Source[m]) \/ \E j \in 1..Len(queue) : queue[j] = Source[m]

LEMMA LeftGrows ==
    ASSUME NEW c, NEW k \in 1..Len(Source), NEW queue, LeftTrue(c, queue, k - 1)
    PROVE  /\ Covered(c, Source[k]) => LeftTrue(c, queue, k)
           /\ ~Covered(c, Source[k]) => LeftTrue(c, Append(queue, Source[k]), k)
  <1> USE DEF LeftTrue
  <1>1. Len(queue) \in Nat /\ Source[k] \in Change /\ Len(Source) \in Nat
    BY LenProperties, SourceDomain
  <1>2. \A m \in 1..k : m = k \/ m \in 1..(k - 1)
    BY <1>1
  <1>3. Covered(c, Source[k]) => LeftTrue(c, queue, k)
    BY <1>1, <1>2
  <1> DEFINE longer == Append(queue, Source[k])
  <1>4. /\ longer \in Seq(Change) /\ Len(longer) = Len(queue) + 1
        /\ \A j \in 1..Len(queue) : longer[j] = queue[j]
        /\ longer[Len(queue) + 1] = Source[k]
    BY <1>1, AppendProperties
  <1> HIDE DEF longer
  <1>5. \A j \in 1..Len(queue) : queue[j] # Source[k]
    <2> TAKE j \in 1..Len(queue)
    <2>1. PICK m \in 1..(k - 1) : queue[j] = Source[m]
      OBVIOUS
    <2>2. m \in 1..Len(Source) /\ m # k
      BY <1>1
    <2>3. QED
      BY <2>1, <2>2
  <1>6. Distinct(longer)
    <2>1. \A i, j \in 1..Len(queue) : queue[i] = queue[j] => i = j
      BY DEF Distinct
    <2>2. SUFFICES ASSUME NEW i \in 1..Len(longer), NEW j \in 1..Len(longer), longer[i] = longer[j]
                   PROVE  i = j
      BY DEF Distinct
    <2>3. (i = Len(queue) + 1 \/ i \in 1..Len(queue)) /\ (j = Len(queue) + 1 \/ j \in 1..Len(queue))
      BY <1>1, <1>4
    <2>4. QED
      BY <1>4, <1>5, <2>1, <2>2, <2>3
  <1>7. \A j \in 1..Len(longer) : \E m \in 1..k : longer[j] = Source[m]
    <2> TAKE j \in 1..Len(longer)
    <2>1. CASE j = Len(queue) + 1
      BY <1>1, <1>4, <2>1
    <2>2. CASE j \in 1..Len(queue)
      <3>1. PICK m \in 1..(k - 1) : queue[j] = Source[m]
        BY <2>2
      <3>2. m \in 1..k
        BY <1>1
      <3>3. QED
        BY <1>4, <2>2, <3>1, <3>2
    <2>3. QED
      BY <1>1, <1>4, <2>1, <2>2
  <1>8. \A m \in 1..k : Covered(c, Source[m]) \/ \E j \in 1..Len(longer) : longer[j] = Source[m]
    <2> TAKE m \in 1..k
    <2>1. CASE m = k
      <3>1. Len(queue) + 1 \in 1..Len(longer)
        BY <1>1, <1>4
      <3>2. QED
        BY <1>4, <2>1, <3>1
    <2>2. CASE m \in 1..(k - 1) /\ ~Covered(c, Source[m])
      <3>1. PICK j \in 1..Len(queue) : queue[j] = Source[m]
        BY <2>2
      <3>2. j \in 1..Len(longer) /\ longer[j] = Source[m]
        BY <1>1, <1>4, <3>1
      <3>3. QED
        BY <3>2
    <2>3. QED
      BY <1>2, <2>1, <2>2
  <1>9. LeftTrue(c, longer, k)
    BY <1>4, <1>6, <1>7, <1>8
  <1>10. QED
    BY <1>3, <1>9 DEF longer

(* The queue has, once each, exactly the changes that are not covered.     *)
LEMMA QueueOpen ==
    ASSUME NEW c
    PROVE  /\ Queue(c) \in Seq(Change) /\ Distinct(Queue(c))
           /\ \A x \in Change : Covered(c, x) \/ \E i \in 1..Len(Queue(c)) : Queue(c)[i] = x
  <1> DEFINE left == Left(c)
             Bad == {i \in 0..Len(Source) : ~LeftTrue(c, left[i], i)}
  <1>1. \A i \in 0..Len(Source) : left[i] = IF i = 0 THEN <<>>
                                           ELSE IF Covered(c, Source[i]) THEN left[i - 1]
                                           ELSE Append(left[i - 1], Source[i])
    <2>1. left = LeftBody(c, left, Len(Source))
      BY LeftExists
    <2> HIDE DEF left
    <2>2. QED
      BY <2>1, SourceDomain DEF LeftBody
  <1> HIDE DEF left
  <1>2. Bad = {}
    <2>1. SUFFICES ASSUME Bad # {} PROVE FALSE
      OBVIOUS
    <2>2. PICK k \in Bad : \A j \in Bad : k <= j
      <3>1. Bad \in SUBSET Nat
        BY SourceDomain
      <3> HIDE DEF Bad
      <3>2. QED
        BY <2>1, <3>1, LeastMember
    <2>3. CASE k = 0
      <3>1. left[0] = <<>>
        BY <1>1, SourceDomain
      <3>2. LeftTrue(c, <<>>, 0)
        BY DEF LeftTrue, Distinct
      <3>3. QED
        BY <2>3, <3>1, <3>2
    <2>4. CASE k # 0
      <3>1. k - 1 \in 0..Len(Source) /\ k \in 1..Len(Source) /\ ~(k <= k - 1)
        BY <2>4, SourceDomain
      <3>2. k - 1 \notin Bad
        BY <2>2, <3>1
      <3>3. LeftTrue(c, left[k - 1], k - 1)
        BY <3>1, <3>2
      <3>4. left[k] = IF Covered(c, Source[k]) THEN left[k - 1] ELSE Append(left[k - 1], Source[k])
        BY <1>1, <2>4
      <3>5. LeftTrue(c, left[k], k)
        BY <3>1, <3>3, <3>4, LeftGrows
      <3>6. QED
        BY <3>5
    <2>5. QED
      BY <2>3, <2>4
  <1>3. LeftTrue(c, left[Len(Source)], Len(Source))
    <2>1. Len(Source) \in 0..Len(Source)
      BY SourceDomain
    <2>2. QED
      BY <1>2, <2>1
  <1>4. Queue(c) = left[Len(Source)]
    BY LeftExists DEF left
  <1> DEFINE queue == left[Len(Source)]
  <1>5. /\ queue \in Seq(Change) /\ Distinct(queue)
        /\ \A m \in 1..Len(Source) : Covered(c, Source[m]) \/ \E j \in 1..Len(queue) : queue[j] = Source[m]
    BY <1>3 DEF LeftTrue
  <1> HIDE DEF queue
  <1>6. \A x \in Change : Covered(c, x) \/ \E i \in 1..Len(queue) : queue[i] = x
    <2> TAKE x \in Change
    <2>1. PICK m \in 1..Len(Source) : Source[m] = x
      BY SourceDomain
    <2>2. QED
      BY <1>5, <2>1
  <1>7. QED
    BY <1>4, <1>5, <1>6 DEF queue
LEMMA AncestorPointwise ==
    ASSUME NEW c \in Commit, NEW d \in Commit
    PROVE  Ancestor(c, d) <=> Len(c) <= Len(d) /\ \A i \in 1..Len(c) : c[i] = d[i]
  <1> USE DEF Commit, Ancestor
  <1>1. Len(c) \in Nat /\ Len(d) \in Nat
    BY LenProperties
  <1>2. CASE Len(c) <= Len(d)
    <2>1. \A i \in 1..Len(c) : d[i] \in Pick
      BY <1>1, <1>2, ElementOfSeq
    <2>2. /\ SubSeq(d, 1, Len(c)) \in Seq(Pick) /\ Len(SubSeq(d, 1, Len(c))) = Len(c)
          /\ \A i \in 1..Len(c) : SubSeq(d, 1, Len(c))[i] = d[i]
      BY <1>1, <2>1, SubSeqProperties
    <2>3. QED
      BY <1>2, <2>2, SeqEqual
  <1>3. QED
    BY <1>2

LEMMA AncestorReflexive ==
    ASSUME NEW c \in Commit
    PROVE  Ancestor(c, c)
  BY AncestorPointwise, LenProperties DEF Commit

LEMMA AncestorTransitive ==
    ASSUME NEW b \in Commit, NEW c \in Commit, NEW d \in Commit, Ancestor(b, c), Ancestor(c, d)
    PROVE  Ancestor(b, d)
  BY AncestorPointwise, LenProperties DEF Commit

(* What a commit has, the commits after it have.                           *)
LEMMA AncestorHolds ==
    ASSUME NEW c \in Commit, NEW d \in Commit, Ancestor(c, d), NEW x, Holds(c, x)
    PROVE  Holds(d, x)
  BY AncestorPointwise, LenProperties DEF Commit, Holds

LEMMA CommitGrows ==
    ASSUME NEW c \in Commit, NEW pick \in Pick
    PROVE  /\ Append(c, pick) \in Commit /\ Append(c, pick) # <<>> /\ Ancestor(c, Append(c, pick))
           /\ Append(c, pick)[Len(Append(c, pick))] = pick
  <1>1. /\ Append(c, pick) \in Commit /\ Append(c, pick) # <<>> /\ Len(Append(c, pick)) = Len(c) + 1
        /\ Len(c) \in Nat /\ \A i \in 1..Len(c) : Append(c, pick)[i] = c[i]
        /\ Append(c, pick)[Len(c) + 1] = pick
    BY AppendProperties, LenProperties DEF Commit
  <1> DEFINE longer == Append(c, pick)
  <1> HIDE DEF longer
  <1>2. Ancestor(c, longer)
    <2>1. longer \in Commit /\ Len(c) <= Len(longer) /\ \A i \in 1..Len(c) : c[i] = longer[i]
      BY <1>1 DEF longer
    <2>2. QED
      BY <2>1, AncestorPointwise
  <1>3. longer[Len(longer)] = pick
    BY <1>1 DEF longer
  <1>4. QED
    BY <1>1, <1>2, <1>3 DEF longer

-----------------------------------------------------------------------------
(* Operations.                                                             *)

LEMMA OperationParts ==
    ASSUME NEW o \in Operation
    PROVE  /\ o.id \in Nat /\ o.branch \in Branch /\ o.before \in Commit /\ o.queue \in Seq(Change)
           /\ o.next \in Nat \ {0} /\ o.applied \in Seq(Application) /\ o.current \in Current
           /\ o.overlay \in Draft \cup {None} /\ o.remat \in BOOLEAN /\ o.forecast \in BOOLEAN
           /\ Len(o.queue) \in Nat /\ Len(o.applied) \in Nat
           /\ \A i \in 1..Len(o.queue) : o.queue[i] \in Change
           /\ \A i \in 1..Len(o.applied) : /\ o.applied[i] \in Application /\ o.applied[i].change \in Change
                                           /\ o.applied[i].commit \in Commit
                                           /\ o.applied[i].conflicted \in BOOLEAN
  <1>1. /\ o.id \in Nat /\ o.branch \in Branch /\ o.before \in Commit /\ o.queue \in Seq(Change)
        /\ o.next \in Nat \ {0} /\ o.applied \in Seq(Application) /\ o.current \in Current
        /\ o.overlay \in Draft \cup {None} /\ o.remat \in BOOLEAN /\ o.forecast \in BOOLEAN
    BY DEF Operation
  <1>2. /\ Len(o.queue) \in Nat /\ Len(o.applied) \in Nat
        /\ \A i \in 1..Len(o.queue) : o.queue[i] \in Change
        /\ \A i \in 1..Len(o.applied) : o.applied[i] \in Application
    BY <1>1, LenProperties, ElementOfSeq
  <1>3. QED
    BY <1>1, <1>2 DEF Application

LEMMA NoOperationKind == NoOperation \in Operation /\ NoCurrent \in Current /\ Coherent(NoOperation)
  <1>1. NoCurrent \in Current
    BY DEF NoCurrent, Current, Commit
  <1>2. NoOperation \in Operation
    BY <1>1 DEF NoOperation, Operation, Branch, Commit
  <1>3. Coherent(NoOperation)
    BY DEF Coherent, NoOperation, Distinct
  <1>4. QED
    BY <1>1, <1>2, <1>3

(* A branch that only grows keeps an operation founded.                    *)
LEMMA FoundedGrows ==
    ASSUME NEW o \in Operation, NEW c \in Commit, NEW d \in Commit, Ancestor(c, d), NEW u, Founded(o, c, u)
    PROVE  Founded(o, d, u)
  BY OperationParts, AncestorTransitive DEF Founded

(* What a journal and the memory of the command running share.             *)
LEMMA JournalIsOperation ==
    ASSUME ReconcileIInv, pc # "idle"
    PROVE  /\ journal.id = op.id /\ journal.branch = op.branch /\ journal.before = op.before
           /\ journal.queue = op.queue /\ journal.next = op.next /\ journal.applied = op.applied
           /\ journal.overlay = op.overlay /\ journal.remat = op.remat
           /\ journal.current.change = op.current.change /\ journal.current.before = op.current.before
           /\ op.current # NoCurrent => journal.current # NoCurrent
           /\ pc # "paused" => journal = op
           /\ op.id \in 1..ops /\ branch = op.branch /\ Coherent(op) /\ Coherent(journal)
           /\ Pending
  <1>1. op \in Operation /\ journal \in Operation /\ Pending /\ branch = op.branch
    BY DEF ReconcileIInv, TypeOK, Running
  <1>2. journal = op \/ (pc = "paused" /\ journal = [op EXCEPT !.current.conflicted = FALSE])
    BY DEF ReconcileIInv, Running
  <1>3. op.current \in Current
    BY <1>1, OperationParts
  <1>4. /\ journal.id = op.id /\ journal.branch = op.branch /\ journal.before = op.before
        /\ journal.queue = op.queue /\ journal.next = op.next /\ journal.applied = op.applied
        /\ journal.overlay = op.overlay /\ journal.remat = op.remat
        /\ journal.current.change = op.current.change /\ journal.current.before = op.current.before
    BY <1>1, <1>2, <1>3 DEF Operation, Current
  <1>5. Coherent(op) /\ Coherent(journal)
    BY <1>1 DEF ReconcileIInv, Journaled
  <1>6. op.current # NoCurrent => journal.current # NoCurrent
    <2>1. op.current # NoCurrent => op.current.change # None
      BY <1>1, <1>5, OperationParts DEF Coherent
    <2>2. QED
      BY <1>4, <2>1 DEF NoCurrent
  <1>7. op.id \in 1..ops
    BY <1>1, <1>4 DEF ReconcileIInv, PublishingTrue
  <1>8. QED
    BY <1>1, <1>2, <1>4, <1>5, <1>6, <1>7

(* A step that publishes nothing keeps what is said of the records.        *)
LEMMA NotesStay ==
    ASSUME ReconcileIInv, UNCHANGED notes, redone => redone', TypeOK', PublishingTrue'
    PROVE  ReceiptsTrue' /\ NoRecordTwice' /\ PublishedWhole'
  <1>1. Published' = Published /\ Receipts' = Receipts
    BY DEF Published, Receipts
  <1>2. ReceiptsTrue'
    BY <1>1 DEF ReconcileIInv, ReceiptsTrue
  <1>3. NoRecordTwice'
    BY DEF ReconcileIInv, NoRecordTwice
  <1>4. PublishedWhole'
    <2>1. journal'.next \in Nat /\ Len(journal'.queue) \in Nat
      BY OperationParts DEF TypeOK
    <2>2. \A i \in 1..Len(notes) : notes[i] \in Published'
      BY DEF Published
    <2>3. \A i \in 1..Len(notes) :
             notes[i].type = "application" /\ Pending' /\ journal'.id = notes[i].op
             => journal'.next > Len(journal'.queue)
      BY <2>1, <2>2 DEF PublishingTrue, Unpublished
    <2>4. QED
      BY <2>3 DEF ReconcileIInv, PublishedWhole
  <1>5. QED
    BY <1>2, <1>3, <1>4
-----------------------------------------------------------------------------
(* What the person does.                                                   *)

LEMMA PersonLeaves ==
    ASSUME ReconcileIInv, pc = "idle", UNCHANGED <<journal, procVars, notes, undoing, ops>>, redone => redone',
           branch' \in Branch, tip' \in [Branch -> Commit], cp' \in Change \cup {None}, wt' \in Worktree,
           redone' \in BOOLEAN, events' \in Nat,
           Pending /\ ~redone' => Ancestor(tip[journal.branch], tip'[journal.branch]),
           cp' # None => /\ Pending /\ journal.current # NoCurrent /\ cp' = journal.current.change
                         /\ wt' \in {"clean", "conflict", "staged"}
                         /\ ~redone' => /\ branch' = journal.branch /\ ~undoing
                                        /\ tip'[branch'] = journal.current.before
    PROVE  ReconcileIInv'
  <1> USE DEF procVars
  <1>1. TypeOK'
    BY DEF ReconcileIInv, TypeOK
  <1>2. Journaled'
    <2>1. Pending /\ ~redone' => Founded(journal, tip'[journal.branch], undoing)
      <3>1. journal \in Operation /\ journal.branch \in Branch /\ tip \in [Branch -> Commit]
        BY OperationParts DEF ReconcileIInv, TypeOK
      <3>2. Pending /\ ~redone' => Founded(journal, tip[journal.branch], undoing)
        BY DEF ReconcileIInv, Journaled
      <3>3. QED
        BY <3>1, <3>2, FoundedGrows
    <2>2. QED
      BY <2>1 DEF ReconcileIInv, Journaled, Pending
  <1>3. Running'
    BY DEF ReconcileIInv, Running, Picking, Finished, Undoing
  <1>4. PickTrue' /\ NothingToLose'
    BY DEF PickTrue, NothingToLose, Pending, Forward, Picking, Finished, Undoing
  <1>5. PublishingTrue'
    BY DEF ReconcileIInv, PublishingTrue, Pending, Unpublished, Published
  <1>6. QED
    BY <1>1, <1>2, <1>3, <1>4, <1>5, NotesStay DEF ReconcileIInv

LEMMA CommitsByHand ==
    ASSUME ReconcileIInv, NEW x \in Change \cup {None}, AddPick(x, 0, FALSE)
    PROVE  tip' \in [Branch -> Commit] /\ \A b \in Branch : Ancestor(tip[b], tip'[b])
  <1>1. tip \in [Branch -> Commit] /\ branch \in Branch
    BY DEF ReconcileIInv, TypeOK
  <1>2. [change |-> x, by |-> 0, fork |-> FALSE] \in Pick
    BY DEF Pick
  <1>3. QED
    BY <1>1, <1>2, CommitGrows, AncestorReflexive DEF AddPick

LEMMA PersonKeeps ==
    ASSUME ReconcileIInv, PersonStep
    PROVE  ReconcileIInv'
  <1> USE DEF AtRest, histVars, boundVars, Worktree, Draft
  <1>0. /\ branch \in Branch /\ tip \in [Branch -> Commit] /\ cp \in Change \cup {None} /\ wt \in Worktree
        /\ redone \in BOOLEAN /\ events \in Nat /\ journal \in Operation /\ journal.branch \in Branch
        /\ \A b \in Branch : Ancestor(tip[b], tip[b])
    BY OperationParts, AncestorReflexive DEF ReconcileIInv, TypeOK
  <1>1. cp # None => /\ Pending /\ journal.current # NoCurrent /\ cp = journal.current.change
                     /\ wt \in {"clean", "conflict", "staged"}
                     /\ ~redone => /\ branch = journal.branch /\ ~undoing
                                   /\ tip[branch] = journal.current.before
    BY DEF ReconcileIInv, PickTrue
  <1>2. ASSUME Resolve PROVE ReconcileIInv'
    BY <1>0, <1>1, <1>2, PersonLeaves DEF Resolve
  <1>3. ASSUME GitContinue PROVE ReconcileIInv'
    <2>1. /\ AddPick(cp, 0, FALSE) /\ Acts /\ cp' = None /\ wt' = "clean" /\ UNCHANGED <<branch, redone>>
      BY <1>3 DEF GitContinue
    <2>2. tip' \in [Branch -> Commit] /\ \A b \in Branch : Ancestor(tip[b], tip'[b])
      BY <1>0, <2>1, CommitsByHand
    <2>3. QED
      BY <1>0, <2>1, <2>2, PersonLeaves DEF Acts
  <1>4. ASSUME GitAbandon PROVE ReconcileIInv'
    BY <1>0, <1>4, PersonLeaves DEF GitAbandon, Acts
  <1>5. ASSUME NEW b \in Branch, Checkout(b) PROVE ReconcileIInv'
    BY <1>0, <1>5, PersonLeaves DEF Checkout, Acts
  <1>6. ASSUME CommitOwn PROVE ReconcileIInv'
    <2>1. /\ AddPick(None, 0, FALSE) /\ Acts /\ cp = None /\ UNCHANGED <<branch, cp, wt, redone>>
      BY <1>6 DEF CommitOwn
    <2>2. tip' \in [Branch -> Commit] /\ \A b \in Branch : Ancestor(tip[b], tip'[b])
      BY <1>0, <2>1, CommitsByHand
    <2>3. QED
      BY <1>0, <2>1, <2>2, PersonLeaves DEF Acts
  <1>7. ASSUME Edit PROVE ReconcileIInv'
    BY <1>0, <1>7, PersonLeaves DEF Edit, Acts
  <1>8. ASSUME CaptureDraft PROVE ReconcileIInv'
    BY <1>0, <1>8, PersonLeaves DEF CaptureDraft, Acts
  <1>9. ASSUME Rewind PROVE ReconcileIInv'
    <2>1. SubSeq(tip[branch], 1, Len(tip[branch]) - 1) \in Commit
      <3>1. Len(tip[branch]) \in Nat /\ \A i \in 1..(Len(tip[branch]) - 1) : tip[branch][i] \in Pick
        BY <1>0, LenProperties, ElementOfSeq DEF Commit
      <3>2. QED
        BY <3>1, SubSeqProperties DEF Commit
    <2>2. tip' \in [Branch -> Commit]
      BY <1>0, <1>9, <2>1 DEF Rewind
    <2>3. QED
      BY <1>0, <1>9, <2>2, PersonLeaves DEF Rewind, Acts
  <1>10. ASSUME PickAgain PROVE ReconcileIInv'
    <2>1. journal.current.change \in Change \cup {None} /\ Pending
      BY <1>0, <1>10, OperationParts DEF Current, PickAgain, Pending, NoOperation
    <2>2. QED
      BY <1>0, <1>10, <2>1, PersonLeaves DEF PickAgain, Acts
  <1>11. ASSUME CleanUp PROVE ReconcileIInv'
    BY <1>0, <1>1, <1>11, PersonLeaves DEF CleanUp
  <1>12. ASSUME GoBack PROVE ReconcileIInv'
    BY <1>0, <1>12, PersonLeaves DEF GoBack
  <1>13. QED
    BY <1>2, <1>3, <1>4, <1>5, <1>6, <1>7, <1>8, <1>9, <1>10, <1>11, <1>12 DEF PersonStep

-----------------------------------------------------------------------------
(* Steps of a command that leave the journal and the branches.             *)

LEMMA QuietKeeps ==
    ASSUME ReconcileIInv,
           RemoveDraftFiles \/ ResetToHead \/ QueueDone \/ Verified \/ MaterializeOverlay \/ AbortRestore
    PROVE  ReconcileIInv'
  <1>0. /\ UNCHANGED <<branch, tip, cp, journal, op, notes, undoing, redone, ops, events>>
        /\ \/ pc = "reduce" /\ pc' = "reset" /\ wt' = "torn" /\ nextNote' = nextNote
           \/ pc = "reset" /\ pc' = "queue" /\ wt' = "clean" /\ nextNote' = nextNote
           \/ pc = "queue" /\ pc' = "verify" /\ wt' = wt /\ nextNote' = nextNote /\ op.next > Len(op.queue)
           \/ pc = "verify" /\ pc' = "publish" /\ wt' = wt /\ nextNote' = 1
           \/ pc = "verify" /\ pc' = "materialize" /\ wt' = wt /\ nextNote' = 1 /\ op.overlay # None
           \/ pc = "materialize" /\ pc' = "remat" /\ wt' \in {"merged", "torn"} /\ nextNote' = nextNote
           \/ pc = "restore" /\ pc' = "forget" /\ nextNote' = nextNote
              /\ (op.overlay = None => wt' = wt) /\ (op.overlay = "draft" => wt' = "draft")
              /\ (op.overlay # None => wt' \in {op.overlay, "torn"})
    <2> USE DEF Go, gitVars, histVars, boundVars, WrittenBack, None
    <2>1. CASE RemoveDraftFiles
      BY <2>1 DEF RemoveDraftFiles
    <2>2. CASE ResetToHead
      BY <2>2 DEF ResetToHead
    <2>3. CASE QueueDone
      BY <2>3 DEF QueueDone
    <2>4. CASE Verified
      BY <2>4 DEF Verified
    <2>5. CASE MaterializeOverlay
      BY <2>5 DEF MaterializeOverlay
    <2>6. CASE AbortRestore
      BY <2>6 DEF AbortRestore
    <2>7. QED
      BY <2>1, <2>2, <2>3, <2>4, <2>5, <2>6
  <1>1. /\ pc \in {"reduce", "reset", "queue", "verify", "materialize", "restore"}
        /\ pc' \in {"reset", "queue", "verify", "publish", "materialize", "remat", "forget"}
        /\ wt' \in Worktree /\ nextNote' \in Nat
    <2>1. wt \in Worktree /\ nextNote \in Nat /\ op.overlay \in Draft \cup {None}
      BY OperationParts DEF ReconcileIInv, TypeOK
    <2>2. QED
      BY <1>0, <2>1 DEF Worktree, Draft
  <1>2. /\ journal = op /\ Coherent(op) /\ branch = op.branch /\ op.id \in 1..ops /\ Pending
        /\ op \in Operation /\ op # NoOperation
    BY <1>1, JournalIsOperation DEF ReconcileIInv, TypeOK, Running
  <1>3. TypeOK'
    BY <1>0, <1>1 DEF ReconcileIInv, TypeOK, PC
  <1>4. Journaled'
    BY <1>0, <1>1, <1>2 DEF ReconcileIInv, Journaled, Pending
  <1>5. Running'
    <2>1. Len(op.applied) \in Nat /\ Len(op.queue) \in Nat /\ op.next \in Nat
      BY <1>2, OperationParts
    <2>2. QED
      BY <1>0, <1>2, <2>1 DEF ReconcileIInv, Running, Pending, Picking, Finished, Undoing
  <1>6. PickTrue'
    BY <1>0, <1>2 DEF ReconcileIInv, PickTrue, Pending, Forward, Picking, Finished
  <1>7. NothingToLose'
    <2>1. op.overlay \in Draft \cup {None}
      BY <1>2, OperationParts
    <2>2. QED
      BY <1>0, <1>2, <2>1 DEF ReconcileIInv, NothingToLose, Forward, Picking, Finished, Undoing, Draft
  <1>8. PublishingTrue'
    <2>1. Published' = Published
      BY <1>0 DEF Published
    <2>2. pc' = "publish" => nextNote' = 1 /\ Unpublished(op.id)
      BY <1>0 DEF ReconcileIInv, PublishingTrue
    <2>3. QED
      BY <1>0, <1>2, <2>1, <2>2 DEF ReconcileIInv, PublishingTrue, Pending, Unpublished
  <1>9. QED
    BY <1>0, <1>3, <1>4, <1>5, <1>6, <1>7, <1>8, NotesStay DEF ReconcileIInv
(* A command stops: it pauses, finds a mismatch, fails, is killed or ends. *)
LEMMA StopLeaves ==
    ASSUME ReconcileIInv, pc # "idle", Stop, UNCHANGED <<gitVars, notes, redone, ops>>, events' \in Nat,
           undoing' \in BOOLEAN, journal' \in Operation, journal' # NoOperation => undoing' = undoing,
           \/ journal' = NoOperation /\ cp = None
           \/ /\ journal'.id = op.id /\ journal'.branch = op.branch /\ journal'.before = op.before
              /\ journal'.queue = op.queue /\ journal'.next = op.next /\ journal'.applied = op.applied
              /\ journal'.current.change = op.current.change /\ journal'.current.before = op.current.before
              /\ Coherent(journal')
    PROVE  ReconcileIInv'
  <1> USE DEF Stop, Go, gitVars
  <1>1. /\ op \in Operation /\ journal \in Operation /\ pc' = "idle" /\ op' = NoOperation /\ nextNote' = 0
        /\ NoOperation \in Operation /\ Len(journal'.queue) \in Nat /\ journal'.next \in Nat
        /\ op.next \in Nat /\ Len(op.queue) \in Nat
    BY NoOperationKind, OperationParts DEF ReconcileIInv, TypeOK
  <1>2. /\ journal.id = op.id /\ journal.branch = op.branch /\ journal.before = op.before
        /\ journal.queue = op.queue /\ journal.next = op.next /\ journal.applied = op.applied
        /\ journal.current.change = op.current.change /\ journal.current.before = op.current.before
        /\ op.id \in 1..ops /\ Coherent(op) /\ Pending
    BY JournalIsOperation
  <1>3. Coherent(journal')
    BY NoOperationKind
  <1>4. TypeOK'
    <2>1. journal'.next <= Len(journal'.queue) + 1
      BY <1>3 DEF Coherent
    <2>2. QED
      BY <1>1, <2>1 DEF ReconcileIInv, TypeOK, PC
  <1>5. Journaled'
    <2>1. Pending' /\ ~redone' => Founded(journal', tip'[journal'.branch], undoing')
      BY <1>2 DEF ReconcileIInv, Journaled, Pending, Founded
    <2>2. QED
      BY <1>1, <1>3, <2>1 DEF Journaled
  <1>6. Running'
    BY <1>1 DEF Running, Picking, Finished, Undoing
  <1>7. PickTrue'
    <2>1. cp # None => /\ Pending' /\ journal'.current # NoCurrent /\ cp = journal'.current.change
                       /\ journal'.branch = journal.branch /\ undoing' = undoing
                       /\ journal'.current.before = journal.current.before
      <3> SUFFICES ASSUME cp # None
                   PROVE  /\ Pending' /\ journal'.current # NoCurrent /\ cp = journal'.current.change
                          /\ journal'.branch = journal.branch /\ undoing' = undoing
                          /\ journal'.current.before = journal.current.before
        OBVIOUS
      <3>1. /\ journal'.id = op.id /\ journal'.branch = op.branch
            /\ journal'.current.change = op.current.change /\ journal'.current.before = op.current.before
        OBVIOUS
      <3>2. cp = journal.current.change
        BY DEF ReconcileIInv, PickTrue
      <3>3. journal' # NoOperation
        BY <1>2, <3>1 DEF NoOperation
      <3>4. journal'.current # NoCurrent
        BY <1>2, <3>1, <3>2 DEF NoCurrent
      <3>5. QED
        BY <1>2, <3>1, <3>2, <3>3, <3>4 DEF Pending
    <2>2. QED
      BY <1>1, <2>1 DEF ReconcileIInv, PickTrue, Pending, Forward, Picking, Finished
  <1>8. NothingToLose'
    BY <1>1 DEF NothingToLose, Forward, Picking, Finished, Undoing
  <1>9. PublishingTrue'
    <2>1. Published' = Published
      BY DEF Published
    <2>2. Pending' => /\ journal'.id = journal.id /\ journal'.next = journal.next
                      /\ Len(journal'.queue) = Len(journal.queue)
      BY <1>2 DEF Pending
    <2>3. QED
      BY <1>1, <1>2, <2>1, <2>2 DEF ReconcileIInv, PublishingTrue, Unpublished
  <1>10. QED
    BY <1>4, <1>5, <1>6, <1>7, <1>8, <1>9, NotesStay DEF ReconcileIInv

LEMMA StopKeeps ==
    ASSUME ReconcileIInv,
           Pause \/ Mismatch \/ OverlayMismatch \/ ContinuePickFails \/ Crash \/ ClearJournal \/ AbortClear
    PROVE  ReconcileIInv'
  <1> USE DEF histVars, boundVars
  <1>0. pc # "idle"
    BY DEF Pause, Mismatch, OverlayMismatch, ContinuePickFails, Crash, ClearJournal, AbortClear
  <1>1. /\ op \in Operation /\ journal \in Operation /\ NoOperation \in Operation
        /\ events \in Nat /\ undoing \in BOOLEAN
    BY NoOperationKind DEF ReconcileIInv, TypeOK
  <1>2. /\ journal.id = op.id /\ journal.branch = op.branch /\ journal.before = op.before
        /\ journal.queue = op.queue /\ journal.next = op.next /\ journal.applied = op.applied
        /\ journal.current.change = op.current.change /\ journal.current.before = op.current.before
        /\ Coherent(op) /\ Coherent(journal)
    BY <1>0, JournalIsOperation
  <1>3. CASE Pause \/ Mismatch
    BY <1>0, <1>1, <1>2, <1>3, StopLeaves DEF Pause, Mismatch
  <1>4. CASE ContinuePickFails \/ Crash
    BY <1>0, <1>1, <1>2, <1>4, StopLeaves DEF ContinuePickFails, Crash
  <1>5. CASE ClearJournal \/ AbortClear
    <2>1. cp = None
      BY <1>5 DEF ClearJournal, AbortClear, ReconcileIInv, PickTrue
    <2>2. QED
      BY <1>0, <1>1, <1>5, <2>1, StopLeaves DEF ClearJournal, AbortClear
  <1>6. CASE OverlayMismatch
    <2> DEFINE o == [op EXCEPT !.remat = TRUE]
    <2>1. /\ o \in Operation /\ o.id = op.id /\ o.branch = op.branch /\ o.before = op.before
          /\ o.queue = op.queue /\ o.next = op.next /\ o.applied = op.applied
          /\ o.current = op.current /\ o.overlay = op.overlay
      BY <1>1 DEF Operation
    <2>2. op.overlay # None
      BY <1>6 DEF OverlayMismatch, ReconcileIInv, Running
    <2> HIDE DEF o
    <2>3. Coherent(o)
      BY <1>2, <2>1, <2>2 DEF Coherent
    <2>4. /\ journal' = o /\ Stop /\ UNCHANGED <<gitVars, notes, histVars, boundVars>>
      BY <1>6 DEF OverlayMismatch, o
    <2>5. QED
      BY <1>0, <1>1, <2>1, <2>3, <2>4, StopLeaves
  <1>7. QED
    BY <1>3, <1>4, <1>5, <1>6
-----------------------------------------------------------------------------
(* Steps that write the journal.                                           *)

LEMMA PublishingKept ==
    ASSUME ReconcileIInv, UNCHANGED notes, ops' \in Nat, ops <= ops', pc' # "publish",
           Pending' => journal'.id \in 1..ops',
           Pending' /\ journal'.next <= Len(journal'.queue) => Unpublished(journal'.id),
           pc' \in {"reduce", "reset", "queue", "verify", "materialize", "remat"} => Unpublished(op'.id)
    PROVE  PublishingTrue'
  <1>1. Published' = Published
    BY DEF Published
  <1>2. \A n \in Published : n.type # "resolution" => n.op \in 1..ops'
    BY DEF ReconcileIInv, PublishingTrue, TypeOK
  <1>3. QED
    BY <1>1, <1>2 DEF PublishingTrue, Unpublished

LEMMA NotesTyped ==
    ASSUME ReconcileIInv
    PROVE  \A n \in Published : n \in Note
  BY LenProperties, ElementOfSeq DEF ReconcileIInv, TypeOK, Published

LEMMA BeginKeeps ==
    ASSUME ReconcileIInv, NEW overlay \in Overlays \cup {None}, NEW forecast \in Forecasts,
           Begin(overlay, forecast)
    PROVE  ReconcileIInv'
  <1> DEFINE o == [NoOperation EXCEPT
                     !.id = ops + 1, !.branch = branch, !.before = tip[branch],
                     !.queue = Queue(tip[branch]), !.overlay = overlay, !.forecast = forecast]
             c == tip[branch]
  <1>0. /\ pc = "idle" /\ ~Pending /\ wt = IF overlay = None THEN "clean" ELSE overlay
        /\ ops' = ops + 1 /\ op' = o /\ journal' = o /\ undoing' = FALSE
        /\ pc' = IF overlay = None THEN "queue" ELSE "reduce"
        /\ UNCHANGED <<redone, branch, tip, cp, wt, nextNote, notes, events>>
    BY DEF Begin, Write, Go, gitVars
  <1>1. branch \in Branch /\ c \in Commit /\ ops \in Nat /\ cp = None
    BY <1>0 DEF ReconcileIInv, TypeOK, PickTrue
  <1>2. Queue(c) \in Seq(Change) /\ Distinct(Queue(c)) /\ Len(Queue(c)) \in Nat
    BY QueueOpen, LenProperties
  <1>3. /\ o.id = ops + 1 /\ o.branch = branch /\ o.before = c /\ o.queue = Queue(c) /\ o.next = 1
        /\ o.applied = <<>> /\ o.current = NoCurrent /\ o.overlay = overlay /\ o.remat = FALSE
    BY DEF NoOperation
  <1>4. o \in Operation
    <2>1. /\ ops + 1 \in Nat /\ NoOperation \in Operation
          /\ overlay \in Draft \cup {None} /\ forecast \in BOOLEAN
      BY <1>1, NoOperationKind
    <2>2. branch \in Branch /\ tip[branch] \in Commit /\ Queue(tip[branch]) \in Seq(Change)
      BY <1>1, <1>2
    <2>3. QED
      BY <2>1, <2>2 DEF Operation
  <1> HIDE DEF o
  <1>5. o # NoOperation
    <2>1. NoOperation.id = 0 /\ o.id # 0
      BY <1>1, <1>3 DEF NoOperation
    <2>2. QED
      BY <2>1
  <1> HIDE DEF o
  <1>6. Coherent(o)
    BY <1>2, <1>3 DEF Coherent
  <1>7. ~redone => Founded(o, c, FALSE)
    <2> SUFFICES ASSUME ~redone PROVE Founded(o, c, FALSE)
      OBVIOUS
    <2>1. ASSUME NEW x \in Change, Covered(c, x) PROVE Holds(c, x)
      <3>1. CASE x \in Tagged /\ Holds(c, x)
        BY <3>1
      <3>2. CASE \E r \in Receipts : Ancestor(r.result, c) /\ x \in r.absorbed
        <4>1. PICK r \in Receipts : Ancestor(r.result, c) /\ x \in r.absorbed
          BY <3>2
        <4>2. r.result \in Commit
          BY NotesTyped DEF Receipts, Note
        <4>3. Holds(r.result, x)
          BY <4>1 DEF ReconcileIInv, ReceiptsTrue
        <4>4. QED
          BY <1>1, <4>1, <4>2, <4>3, AncestorHolds
      <3>3. QED
        BY <2>1, <3>1, <3>2 DEF Covered
    <2>2. \A x \in Change : Holds(c, x) \/ \E i \in 1..Len(o.queue) : o.queue[i] = x
      BY <1>3, <2>1, QueueOpen
    <2>3. Len(o.applied) = 0
      BY <1>3
    <2>4. QED
      BY <1>1, <1>3, <2>2, <2>3, AncestorReflexive DEF Founded
  <1>8. TypeOK'
    <2>1. o.next <= Len(o.queue) + 1
      BY <1>6 DEF Coherent
    <2>2. pc' \in PC /\ ops' \in Nat
      BY <1>0, <1>1 DEF PC
    <2>3. QED
      BY <1>0, <1>4, <2>1, <2>2 DEF ReconcileIInv, TypeOK
  <1>9. Journaled'
    BY <1>0, <1>3, <1>6, <1>7 DEF Journaled
  <1>10. Running'
    BY <1>0, <1>3, <1>5 DEF Running, Pending, Picking, Finished, Undoing
  <1>11. PickTrue'
    BY <1>0, <1>1 DEF PickTrue
  <1>12. NothingToLose'
    BY <1>0 DEF NothingToLose, Undoing, Draft
  <1>13. PublishingTrue'
    <2>1. Unpublished(o.id)
      BY <1>1, <1>3 DEF ReconcileIInv, PublishingTrue, Unpublished
    <2>2. QED
      BY <1>0, <1>1, <1>3, <2>1, PublishingKept
  <1>14. QED
    BY <1>0, <1>8, <1>9, <1>10, <1>11, <1>12, <1>13, NotesStay DEF ReconcileIInv

(* A step that rewrites the current pick of the journal, or what is put    *)
(* back of a draft, and leaves Git where it is.                            *)
LEMMA WriteLeaves ==
    ASSUME ReconcileIInv, Pending, branch = journal.branch, NEW o \in Operation, Write(o), Coherent(o),
           o.id = journal.id, o.branch = journal.branch, o.before = journal.before,
           o.queue = journal.queue, o.next = journal.next, o.applied = journal.applied,
           UNCHANGED <<branch, tip, cp, nextNote, notes, histVars, ops>>, events' \in Nat, wt' \in Worktree,
           pc' \in PC \ {"idle", "publish"}, Running', PickTrue', NothingToLose',
           pc' \in {"reduce", "reset", "queue", "verify", "materialize", "remat"} => Unpublished(o.id)
    PROVE  ReconcileIInv'
  <1> USE DEF Write, histVars
  <1>1. TypeOK'
    <2>1. o.next <= Len(o.queue) + 1
      BY DEF Coherent
    <2>2. QED
      BY <2>1 DEF ReconcileIInv, TypeOK
  <1>2. Journaled'
    <2>1. ~redone => Founded(o, tip[o.branch], undoing)
      BY DEF ReconcileIInv, Journaled, Founded
    <2>2. QED
      BY <2>1 DEF Journaled
  <1>3. PublishingTrue'
    BY PublishingKept DEF ReconcileIInv, TypeOK, PublishingTrue
  <1>4. QED
    BY <1>1, <1>2, <1>3, NotesStay DEF ReconcileIInv

LEMMA NextChangeKeeps ==
    ASSUME ReconcileIInv, NextChange
    PROVE  ReconcileIInv'
  <1> DEFINE now == [NoCurrent EXCEPT !.change = op.queue[op.next], !.before = tip[branch]]
             o == [op EXCEPT !.current = now]
  <1>0. /\ pc = "queue" /\ op.next <= Len(op.queue) /\ Write(o) /\ pc' = "pick"
        /\ UNCHANGED <<branch, tip, cp, wt, nextNote, notes, histVars, ops, events>>
    BY DEF NextChange, Go, gitVars, boundVars
  <1>1. /\ op \in Operation /\ journal = op /\ Pending /\ branch = op.branch /\ Coherent(op)
        /\ op.id \in 1..ops /\ branch \in Branch /\ tip[branch] \in Commit
    BY <1>0, JournalIsOperation DEF ReconcileIInv, TypeOK
  <1>2. op.queue[op.next] \in Change
    BY <1>0, <1>1, OperationParts
  <1>3. /\ now \in Current /\ now.change = op.queue[op.next] /\ now.before = tip[branch]
        /\ now # NoCurrent /\ ~now.fork /\ ~now.conflicted
    BY <1>1, <1>2 DEF NoCurrent, Current
  <1> HIDE DEF now
  <1>4. /\ o \in Operation /\ o.id = op.id /\ o.branch = op.branch /\ o.before = op.before /\ o.queue = op.queue
        /\ o.next = op.next /\ o.applied = op.applied /\ o.current = now
        /\ o.overlay = op.overlay /\ o.remat = op.remat
    BY <1>1, <1>3 DEF Operation
  <1>5. o # NoOperation
    BY <1>1, <1>4 DEF NoOperation
  <1> HIDE DEF o
  <1>6. Coherent(o)
    BY <1>0, <1>1, <1>3, <1>4 DEF Coherent
  <1>7. Running'
    BY <1>0, <1>1, <1>3, <1>4, <1>5 DEF Running, Write, Pending, Picking, Finished, Undoing
  <1>8. PickTrue' /\ NothingToLose'
    BY <1>0, <1>1, <1>3, <1>4 DEF ReconcileIInv, PickTrue, NothingToLose, Write, histVars, Forward, Picking,
       Finished, Undoing
  <1>9. QED
    BY <1>0, <1>1, <1>4, <1>6, <1>7, <1>8, WriteLeaves DEF ReconcileIInv, TypeOK, PC

LEMMA ApplyForecastKeeps ==
    ASSUME ReconcileIInv, ApplyForecast
    PROVE  ReconcileIInv'
  <1>0. /\ pc = "paused" /\ wt' = "staged" /\ Write(op) /\ pc' = "batch"
        /\ UNCHANGED <<branch, tip, cp, nextNote, notes, histVars, ops, events>>
    BY DEF ApplyForecast, Go, boundVars
  <1>1. /\ op \in Operation /\ op # NoOperation /\ op.current # NoCurrent
        /\ events \in Nat /\ "staged" \in Worktree
    BY <1>0 DEF ReconcileIInv, TypeOK, Running, Picking, Worktree
  <1>2. /\ journal.id = op.id /\ journal.branch = op.branch /\ journal.before = op.before
        /\ journal.queue = op.queue /\ journal.next = op.next /\ journal.applied = op.applied
        /\ journal.current.change = op.current.change /\ journal.current.before = op.current.before
        /\ branch = op.branch /\ Coherent(op) /\ Pending
    BY <1>0, JournalIsOperation
  <1>3. Running'
    BY <1>0, <1>1, <1>2 DEF Running, Write, Pending, Picking, Finished, Undoing
  <1>4. PickTrue' /\ NothingToLose'
    BY <1>0, <1>1, <1>2 DEF ReconcileIInv, PickTrue, NothingToLose, Write, histVars, Pending, Forward, Picking,
       Finished, Undoing
  <1>5. QED
    BY <1>0, <1>1, <1>2, <1>3, <1>4, WriteLeaves DEF PC

LEMMA ContinueKeeps ==
    ASSUME ReconcileIInv, NEW fork \in BOOLEAN, Continue(fork)
    PROVE  ReconcileIInv'
  <1> DEFINE now == [journal.current EXCEPT !.fork = @ \/ fork]
             o == [journal EXCEPT !.current = now]
  <1>0. /\ pc = "idle" /\ Pending /\ Resumable(journal) /\ Write(o) /\ pc' = "continue"
        /\ UNCHANGED <<branch, tip, cp, wt, nextNote, notes, histVars, ops, events>>
    BY DEF Continue, Go, gitVars, boundVars
  <1>1. /\ journal \in Operation /\ journal.current \in Current /\ Coherent(journal) /\ journal.id \in 1..ops
        /\ branch = journal.branch /\ journal.current # NoCurrent /\ cp = journal.current.change
    BY <1>0, OperationParts DEF ReconcileIInv, TypeOK, Journaled, PublishingTrue, Resumable, OnBranch
  <1>2. journal.current.change \in Change
    BY <1>1, OperationParts DEF Coherent
  <1>3. now \in Current /\ now.change = journal.current.change /\ now.before = journal.current.before
    BY <1>1 DEF Current
  <1>4. now # NoCurrent
    BY <1>2, <1>3 DEF NoCurrent
  <1> HIDE DEF now
  <1>5. /\ o \in Operation /\ o.id = journal.id /\ o.branch = journal.branch /\ o.before = journal.before
        /\ o.queue = journal.queue /\ o.next = journal.next /\ o.applied = journal.applied /\ o.current = now
        /\ o.overlay = journal.overlay /\ o.remat = journal.remat
    BY <1>1, <1>3 DEF Operation
  <1>6. o # NoOperation
    BY <1>1, <1>5 DEF NoOperation
  <1> HIDE DEF o
  <1>7. Coherent(o)
    BY <1>1, <1>3, <1>5 DEF Coherent
  <1>8. Running'
    BY <1>0, <1>1, <1>4, <1>5, <1>6 DEF Running, Write, Pending, Picking, Finished, Undoing
  <1>9. cp # None
    BY <1>1, <1>2
  <1>10. PickTrue' /\ NothingToLose'
    BY <1>0, <1>1, <1>3, <1>4, <1>5, <1>6, <1>9 DEF ReconcileIInv, PickTrue, NothingToLose, Write, histVars, Pending,
       Forward, Picking, Finished, Undoing
  <1>11. QED
    BY <1>0, <1>1, <1>5, <1>7, <1>8, <1>10, WriteLeaves DEF ReconcileIInv, TypeOK, PC
LEMMA RecordOverlayKeeps ==
    ASSUME ReconcileIInv, RecordOverlay
    PROVE  ReconcileIInv'
  <1> DEFINE o == [op EXCEPT !.remat = TRUE]
  <1>0. /\ pc = "remat" /\ wt = "merged" /\ Write(o) /\ pc' = "publish"
        /\ UNCHANGED <<branch, tip, cp, wt, nextNote, notes, histVars, ops, events>>
    BY DEF RecordOverlay, Go, gitVars, boundVars
  <1>1. /\ op \in Operation /\ journal = op /\ Pending /\ branch = op.branch /\ Coherent(op)
        /\ op.id \in 1..ops /\ op.current = NoCurrent /\ op.next > Len(op.queue) /\ op.overlay # None
        /\ nextNote = 1 /\ Unpublished(op.id) /\ Len(op.applied) \in Nat /\ Len(op.queue) \in Nat
        /\ op.next \in Nat /\ redone \in BOOLEAN /\ undoing \in BOOLEAN
    BY <1>0, JournalIsOperation, OperationParts DEF ReconcileIInv, TypeOK, Running, PublishingTrue, Finished
  <1>2. /\ o \in Operation /\ o.id = op.id /\ o.branch = op.branch /\ o.before = op.before /\ o.queue = op.queue
        /\ o.next = op.next /\ o.applied = op.applied /\ o.current = NoCurrent
        /\ o.overlay = op.overlay /\ o.remat
    BY <1>1 DEF Operation
  <1>3. o # NoOperation
    BY <1>1, <1>2 DEF NoOperation
  <1> HIDE DEF o
  <1>4. Coherent(o)
    BY <1>1, <1>2 DEF Coherent
  <1>5. TypeOK'
    <2>1. o.next <= Len(o.queue) + 1
      BY <1>4 DEF Coherent
    <2>2. QED
      BY <1>0, <1>2, <2>1 DEF ReconcileIInv, TypeOK, PC, Write, histVars
  <1>6. Journaled'
    <2>1. ~redone => Founded(o, tip[o.branch], undoing)
      BY <1>1, <1>2 DEF ReconcileIInv, Journaled, Founded
    <2>2. QED
      BY <1>0, <1>4, <2>1 DEF Journaled, Write, histVars
  <1>7. Running'
    BY <1>0, <1>1, <1>2, <1>3 DEF Running, Write, Pending, Picking, Finished, Undoing
  <1>8. PickTrue' /\ NothingToLose'
    BY <1>0, <1>1, <1>2 DEF ReconcileIInv, PickTrue, NothingToLose, Write, histVars, Forward, Picking,
       Finished, Undoing
  <1>9. PublishingTrue'
    <2>1. Published' = Published
      BY <1>0 DEF Published
    <2>2. ops \in Nat /\ ops' = ops
      BY <1>0 DEF ReconcileIInv, TypeOK
    <2>3. QED
      BY <1>0, <1>1, <1>2, <2>1, <2>2 DEF ReconcileIInv, PublishingTrue, Write, Pending, Unpublished
  <1>10. QED
    BY <1>0, <1>5, <1>6, <1>7, <1>8, <1>9, NotesStay DEF ReconcileIInv, histVars

(* What recordSuccessfulApplication writes: one more application, the pick *)
(* at the end of the branch.                                               *)
LEMMA AdvanceKeeps ==
    ASSUME ReconcileIInv, Advance
    PROVE  ReconcileIInv'
  <1> DEFINE c == tip[branch]
             app == [change |-> op.current.change, commit |-> c, before |-> op.current.before,
                     conflicted |-> op.current.conflicted, fork |-> op.current.fork]
             o == Recorded(op)
  <1>0. /\ pc = "advance" /\ Write(o) /\ pc' = "queue"
        /\ UNCHANGED <<branch, tip, cp, wt, nextNote, notes, histVars, ops, events>>
    BY DEF Advance, Go, gitVars, boundVars
  <1>1. /\ op \in Operation /\ journal = op /\ Pending /\ branch = op.branch /\ Coherent(op)
        /\ op.id \in 1..ops /\ branch \in Branch /\ c \in Commit /\ op.current # NoCurrent
        /\ op.current \in Current /\ op.applied \in Seq(Application) /\ op.next \in Nat \ {0}
        /\ Len(op.queue) \in Nat /\ Len(op.applied) \in Nat
    BY <1>0, JournalIsOperation, OperationParts DEF ReconcileIInv, TypeOK, Running, Picking
  <1>2. /\ op.next <= Len(op.queue) /\ op.current.change = op.queue[op.next] /\ op.current.change \in Change
        /\ Len(op.applied) = op.next - 1
    BY <1>1, OperationParts DEF Coherent
  <1>3. app \in Application /\ app.change = op.current.change /\ app.commit = c /\ app.fork = op.current.fork
    BY <1>1, <1>2 DEF Application, Current
  <1>4. ~app.fork => Holds(c, app.change)
    <2>1. /\ c # <<>>
          /\ c[Len(c)] = [change |-> op.current.change, by |-> op.id, fork |-> op.current.fork]
      BY <1>0, <1>1 DEF ReconcileIInv, Running
    <2>2. Len(c) \in 1..Len(c)
      BY <1>1, <2>1, LenProperties, EmptySeq DEF Commit
    <2>3. QED
      BY <1>3, <2>1, <2>2 DEF Holds
  <1>5. o = [op EXCEPT !.applied = Append(op.applied, app), !.next = op.next + 1, !.current = NoCurrent]
    BY DEF Recorded
  <1> DEFINE applied == Append(op.applied, app)
  <1> HIDE DEF app
  <1>6. /\ applied \in Seq(Application) /\ Len(applied) = op.next /\ applied[op.next] = app
        /\ \A i \in 1..(op.next - 1) : applied[i] = op.applied[i]
    <2>1. /\ applied \in Seq(Application) /\ Len(applied) = Len(op.applied) + 1
          /\ applied[Len(op.applied) + 1] = app
          /\ \A i \in 1..Len(op.applied) : applied[i] = op.applied[i]
      BY <1>1, <1>3, AppendProperties
    <2> HIDE DEF applied
    <2>2. QED
      BY <1>1, <1>2, <2>1
  <1> HIDE DEF o
  <1>7. /\ o \in Operation /\ o.id = op.id /\ o.branch = op.branch /\ o.before = op.before /\ o.queue = op.queue
        /\ o.next = op.next + 1 /\ o.applied = applied /\ o.current = NoCurrent
        /\ o.overlay = op.overlay /\ o.remat = op.remat
    <2>1. o = [op EXCEPT !.applied = applied, !.next = op.next + 1, !.current = NoCurrent]
      BY <1>5
    <2> HIDE DEF applied
    <2>2. op.next + 1 \in Nat \ {0}
      BY <1>1
    <2>3. QED
      BY <1>1, <1>6, <2>1, <2>2, NoOperationKind DEF Operation
  <1> HIDE DEF applied
  <1>8. o # NoOperation
    BY <1>1, <1>7 DEF NoOperation
  <1>9. \A i \in 1..Len(applied) : i = op.next \/ i \in 1..Len(op.applied)
    BY <1>1, <1>2, <1>6
  <1>10. Coherent(o)
    <2>1. \A i \in 1..Len(applied) : /\ applied[i].change = op.queue[i]
                                     /\ ~applied[i].fork => Holds(applied[i].commit, applied[i].change)
      BY <1>1, <1>2, <1>3, <1>4, <1>6, <1>9 DEF Coherent
    <2>2. o.next <= Len(o.queue) + 1 /\ Len(o.applied) = o.next - 1
      BY <1>1, <1>2, <1>6, <1>7
    <2>3. Distinct(o.queue) /\ (o.remat => o.overlay # None) /\ o.current = NoCurrent
      BY <1>1, <1>7 DEF Coherent
    <2>4. QED
      BY <1>7, <2>1, <2>2, <2>3 DEF Coherent
  <1>11. ~redone => Founded(o, tip[o.branch], undoing)
    <2> SUFFICES ASSUME ~redone PROVE Founded(o, c, undoing)
      BY <1>1, <1>7
    <2>1. Founded(op, c, undoing)
      BY <1>1 DEF ReconcileIInv, Journaled
    <2>2. Ancestor(c, c)
      BY <1>1, AncestorReflexive
    <2>3. ~undoing => \A i \in 1..Len(applied) : Ancestor(applied[i].commit, c)
      BY <1>2, <1>3, <1>6, <1>9, <2>1, <2>2 DEF Founded
    <2>4. QED
      BY <1>7, <2>1, <2>3 DEF Founded
  <1>12. Unpublished(o.id)
    BY <1>1, <1>2, <1>7 DEF ReconcileIInv, PublishingTrue
  <1>13. TypeOK'
    <2>1. o.next <= Len(o.queue) + 1
      BY <1>10 DEF Coherent
    <2>2. QED
      BY <1>0, <1>7, <2>1 DEF ReconcileIInv, TypeOK, PC, Write, histVars
  <1>14. Journaled'
    BY <1>0, <1>10, <1>11 DEF Journaled, Write, histVars
  <1>15. Running'
    BY <1>0, <1>1, <1>7, <1>8 DEF Running, Write, Pending, Picking, Finished, Undoing
  <1>16. PickTrue' /\ NothingToLose'
    BY <1>0, <1>1, <1>7 DEF ReconcileIInv, PickTrue, NothingToLose, Write, histVars, Forward, Picking,
       Finished, Undoing
  <1>17. PublishingTrue'
    <2>1. ops \in Nat /\ journal'.id \in 1..ops'
      BY <1>0, <1>1, <1>7 DEF ReconcileIInv, TypeOK, Write
    <2>2. QED
      BY <1>0, <1>7, <1>12, <2>1, PublishingKept DEF Write
  <1>18. QED
    BY <1>0, <1>13, <1>14, <1>15, <1>16, <1>17, NotesStay DEF ReconcileIInv, histVars
-----------------------------------------------------------------------------
(* Picks.                                                                  *)

(* A pick that applies, or goes on, is the branch's last commit.           *)
LEMMA PickLands ==
    ASSUME ReconcileIInv, pc \in {"pick", "batch", "continue"}, pc' = "advance", cp' = None, wt' = "clean",
           AddPick(op.current.change, op.id, op.current.fork),
           UNCHANGED <<branch, journal, op, nextNote, notes, histVars, boundVars>>
    PROVE  ReconcileIInv'
  <1> USE DEF histVars, boundVars
  <1> DEFINE c == tip[branch]
             pick == [change |-> op.current.change, by |-> op.id, fork |-> op.current.fork]
  <1>1. /\ op \in Operation /\ journal = op /\ Pending /\ branch = op.branch /\ Coherent(op)
        /\ op.id \in 1..ops /\ branch \in Branch /\ c \in Commit /\ tip \in [Branch -> Commit]
        /\ op.current # NoCurrent /\ op.current \in Current /\ op # NoOperation
    BY JournalIsOperation, OperationParts DEF ReconcileIInv, TypeOK, Running, Picking
  <1>2. pick \in Pick
    BY <1>1, OperationParts DEF Pick, Current
  <1>3. tip' = [tip EXCEPT ![branch] = Append(c, pick)]
    BY DEF AddPick
  <1> HIDE DEF pick
  <1>4. /\ Append(c, pick) \in Commit /\ Append(c, pick) # <<>> /\ Ancestor(c, Append(c, pick))
        /\ Append(c, pick)[Len(Append(c, pick))] = pick
    BY <1>1, <1>2, CommitGrows
  <1>5. tip' \in [Branch -> Commit] /\ tip'[branch] = Append(c, pick)
    BY <1>1, <1>3, <1>4
  <1>6. TypeOK'
    BY <1>5 DEF ReconcileIInv, TypeOK, PC, Worktree
  <1>7. Journaled'
    <2>1. ~redone => Founded(journal, tip'[journal.branch], undoing)
      <3>1. ~redone => Founded(op, c, undoing)
        BY <1>1 DEF ReconcileIInv, Journaled
      <3>2. QED
        BY <1>1, <1>4, <1>5, <3>1, FoundedGrows
    <2>2. QED
      BY <1>1, <2>1 DEF Journaled
  <1>8. Running'
    <2>1. tip'[branch] # <<>> /\ tip'[branch][Len(tip'[branch])] = pick
      BY <1>4, <1>5
    <2>2. QED
      BY <1>1, <2>1 DEF Running, Pending, Picking, Finished, Undoing, pick
  <1>9. PickTrue' /\ NothingToLose'
    BY DEF ReconcileIInv, PickTrue, NothingToLose, Forward, Picking, Finished, Undoing
  <1>10. PublishingTrue'
    BY <1>1, PublishingKept DEF ReconcileIInv, TypeOK, PublishingTrue
  <1>11. QED
    BY <1>6, <1>7, <1>8, <1>9, <1>10, NotesStay DEF ReconcileIInv

LEMMA PickGoesOnKeeps ==
    ASSUME ReconcileIInv, PickApplies \/ ContinuePick
    PROVE  ReconcileIInv'
  <1>1. CASE PickApplies
    <2>1. pc = "pick" /\ ~op.current.fork /\ op.current.fork \in BOOLEAN /\ wt = "clean" /\ cp = None
      <3>1. pc = "pick"
        BY <1>1 DEF PickApplies
      <3>2. op.current \in Current
        BY OperationParts DEF ReconcileIInv, TypeOK
      <3>3. QED
        BY <3>1, <3>2 DEF ReconcileIInv, Running, NothingToLose, PickTrue, Current
    <2>2. AddPick(op.current.change, op.id, op.current.fork)
      <3>1. op.current.fork = FALSE
        BY <2>1
      <3>2. QED
        BY <1>1, <3>1 DEF PickApplies
    <2>3. QED
      BY <1>1, <2>1, <2>2, PickLands DEF PickApplies, Go
  <1>2. CASE ContinuePick
    BY <1>2, PickLands DEF ContinuePick, Go
  <1>3. QED
    BY <1>1, <1>2

(* A pick that does not go through leaves the command paused.              *)
LEMMA PickStopsKeeps ==
    ASSUME ReconcileIInv, PickConflicts \/ PickBlocked
    PROVE  ReconcileIInv'
  <1> USE DEF histVars, boundVars
  <1> DEFINE now == [op.current EXCEPT !.conflicted = TRUE]
             marked == [op EXCEPT !.current = now]
  <1>0. /\ pc = "pick" /\ pc' = "paused" /\ cp' \in {None, op.current.change}
        /\ (op' = marked /\ wt' = "conflict") \/ (op' = op /\ wt' = wt)
        /\ UNCHANGED <<branch, tip, journal, nextNote, notes, histVars, boundVars>>
    BY DEF PickConflicts, PickBlocked, Go
  <1>1. /\ op \in Operation /\ journal = op /\ Pending /\ branch = op.branch /\ Coherent(op)
        /\ op.id \in 1..ops /\ op.current # NoCurrent /\ op.current \in Current /\ op # NoOperation
        /\ op.current.conflicted = FALSE /\ wt = "clean"
    BY <1>0, JournalIsOperation, OperationParts
    DEF ReconcileIInv, TypeOK, Running, Picking, NothingToLose, Current
  <1>2. op.current.change \in Change
    BY <1>1, OperationParts DEF Coherent
  <1>3. /\ now \in Current /\ now.change = op.current.change /\ now.before = op.current.before
        /\ [now EXCEPT !.conflicted = FALSE] = op.current
    BY <1>1 DEF Current
  <1>4. now # NoCurrent
    BY <1>2, <1>3 DEF NoCurrent
  <1> HIDE DEF now
  <1>5. /\ marked \in Operation /\ marked.id = op.id /\ marked.branch = op.branch /\ marked.before = op.before
        /\ marked.queue = op.queue /\ marked.next = op.next /\ marked.applied = op.applied
        /\ marked.current = now /\ marked.overlay = op.overlay /\ marked.remat = op.remat
        /\ [marked EXCEPT !.current.conflicted = FALSE] = op
    BY <1>1, <1>3 DEF Operation
  <1>6. marked # NoOperation
    BY <1>1, <1>5 DEF NoOperation
  <1> HIDE DEF marked
  <1>7. Coherent(marked)
    BY <1>1, <1>3, <1>5 DEF Coherent
  <1>8. /\ op' \in Operation /\ op' # NoOperation /\ Coherent(op') /\ op'.branch = op.branch
        /\ op'.current # NoCurrent /\ op'.current.before = op.current.before
        /\ op = op' \/ op = [op' EXCEPT !.current.conflicted = FALSE]
    BY <1>0, <1>1, <1>3, <1>4, <1>5, <1>6, <1>7
  <1>9. TypeOK'
    BY <1>0, <1>1, <1>2, <1>8 DEF ReconcileIInv, TypeOK, PC, Worktree
  <1>10. Journaled'
    BY <1>0, <1>1, <1>8 DEF ReconcileIInv, Journaled, Pending
  <1>11. Running'
    BY <1>0, <1>1, <1>8 DEF Running, Pending, Picking, Finished, Undoing
  <1>12. PickTrue' /\ NothingToLose'
    BY <1>0, <1>1, <1>2, <1>8 DEF ReconcileIInv, PickTrue, NothingToLose, Pending, Forward, Picking, Finished,
       Undoing
  <1>13. PublishingTrue'
    BY <1>0, <1>1, PublishingKept DEF ReconcileIInv, TypeOK, PublishingTrue, Pending
  <1>14. QED
    BY <1>0, <1>9, <1>10, <1>11, <1>12, <1>13, NotesStay DEF ReconcileIInv

-----------------------------------------------------------------------------
(* Aborts.                                                                 *)

LEMMA AbortKeeps ==
    ASSUME ReconcileIInv, Abort
    PROVE  ReconcileIInv'
  <1> USE DEF histVars, boundVars
  <1>0. /\ pc = "idle" /\ Pending /\ branch = journal.branch /\ Disposable(journal)
        /\ cp' = None /\ (cp # None => wt' = "clean") /\ (cp = None => wt' = wt)
        /\ op' = journal /\ undoing' = TRUE /\ pc' = "undo"
        /\ UNCHANGED <<branch, tip, journal, nextNote, notes, redone, boundVars>>
    BY DEF Abort, OnBranch, Go
  <1>1. /\ journal \in Operation /\ Coherent(journal) /\ journal.id \in 1..ops /\ journal # NoOperation
    BY <1>0 DEF ReconcileIInv, TypeOK, Journaled, PublishingTrue, Pending
  <1>2. TypeOK'
    BY <1>0 DEF ReconcileIInv, TypeOK, PC, Worktree
  <1>3. Journaled'
    <2>1. ~redone => Founded(journal, tip[journal.branch], TRUE)
      BY <1>0 DEF ReconcileIInv, Journaled, Founded
    <2>2. QED
      BY <1>0, <1>1, <2>1 DEF Journaled
  <1>4. Running'
    BY <1>0, <1>1 DEF Running, Pending, Picking, Finished, Undoing
  <1>5. PickTrue'
    BY <1>0 DEF PickTrue, Forward, Picking, Finished
  <1>6. NothingToLose'
    BY <1>0, <1>1 DEF NothingToLose, Disposable, Coherent, Forward, Picking, Finished, Undoing
  <1>7. PublishingTrue'
    BY <1>0, <1>1, PublishingKept DEF ReconcileIInv, TypeOK, PublishingTrue, Pending
  <1>8. QED
    BY <1>0, <1>2, <1>3, <1>4, <1>5, <1>6, <1>7, NotesStay DEF ReconcileIInv

LEMMA AbortResetKeeps ==
    ASSUME ReconcileIInv, AbortReset
    PROVE  ReconcileIInv'
  <1> USE DEF histVars, boundVars
  <1>0. /\ pc = "undo" /\ pc' = "restore"
        /\ \/ tip[branch] = op.before /\ tip' = tip /\ wt' = wt
           \/ /\ tip' = [tip EXCEPT ![branch] = op.before]
              /\ wt' \in {"clean"} \cup (IF wt = "clean" THEN {} ELSE {"torn"})
        /\ UNCHANGED <<branch, cp, journal, op, nextNote, notes, histVars, boundVars>>
    BY DEF AbortReset, Go
  <1>1. /\ op \in Operation /\ journal = op /\ Pending /\ branch = op.branch /\ Coherent(op)
        /\ op.id \in 1..ops /\ branch \in Branch /\ tip \in [Branch -> Commit] /\ op.before \in Commit
        /\ undoing /\ op # NoOperation
    BY <1>0, JournalIsOperation, OperationParts DEF ReconcileIInv, TypeOK, Running, Undoing
  <1>2. /\ tip' \in [Branch -> Commit] /\ tip'[branch] = op.before
        /\ wt' \in Worktree /\ (wt' = "edited" => wt = "edited") /\ (wt = "clean" => wt' = "clean")
    BY <1>0, <1>1 DEF ReconcileIInv, TypeOK, Worktree
  <1>3. TypeOK'
    BY <1>0, <1>2 DEF ReconcileIInv, TypeOK, PC
  <1>4. Journaled'
    <2>1. ~redone => Founded(op, op.before, undoing)
      <3>1. Ancestor(op.before, op.before)
        BY <1>1, AncestorReflexive
      <3>2. QED
        BY <1>1, <3>1 DEF ReconcileIInv, Journaled, Founded
    <2>2. QED
      BY <1>0, <1>1, <1>2, <2>1 DEF Journaled
  <1>5. Running'
    BY <1>0, <1>1 DEF Running, Pending, Picking, Finished, Undoing
  <1>6. PickTrue' /\ NothingToLose'
    BY <1>0, <1>1, <1>2 DEF ReconcileIInv, PickTrue, NothingToLose, Forward, Picking, Finished, Undoing
  <1>7. PublishingTrue'
    BY <1>0, <1>1, PublishingKept DEF ReconcileIInv, TypeOK, PublishingTrue, Pending
  <1>8. QED
    BY <1>0, <1>3, <1>4, <1>5, <1>6, <1>7, NotesStay DEF ReconcileIInv
-----------------------------------------------------------------------------
(* Publication.                                                            *)

LEMMA PublishedGrows ==
    ASSUME notes \in Seq(Note), NEW n \in Note, notes' = Append(notes, n)
    PROVE  /\ notes' \in Seq(Note) /\ Published' = Published \cup {n}
           /\ Len(notes) \in Nat /\ Len(notes') = Len(notes) + 1 /\ notes'[Len(notes) + 1] = n
           /\ \A i \in 1..Len(notes) : notes'[i] = notes[i] /\ notes[i] \in Published
           /\ \A i \in 1..Len(notes') : i = Len(notes) + 1 \/ i \in 1..Len(notes)
  <1>1. /\ notes' \in Seq(Note) /\ Len(notes) \in Nat /\ Len(notes') = Len(notes) + 1
        /\ notes'[Len(notes) + 1] = n /\ \A i \in 1..Len(notes) : notes'[i] = notes[i]
    BY AppendProperties, LenProperties
  <1>2. \A i \in 1..Len(notes') : i = Len(notes) + 1 \/ i \in 1..Len(notes)
    BY <1>1
  <1>3. \A i \in 1..Len(notes) : i \in 1..Len(notes') /\ notes[i] \in Published
    BY <1>1 DEF Published
  <1>4. Len(notes) + 1 \in 1..Len(notes')
    BY <1>1
  <1>5. Published' = Published \cup {n}
    <2>1. ASSUME NEW m \in Published' PROVE m \in Published \cup {n}
      <3>1. PICK i \in 1..Len(notes') : m = notes'[i]
        BY <2>1 DEF Published
      <3>2. QED
        BY <1>1, <1>2, <1>3, <3>1
    <2>2. ASSUME NEW m \in Published PROVE m \in Published'
      <3>1. PICK i \in 1..Len(notes) : m = notes[i]
        BY <2>2 DEF Published
      <3>2. i \in 1..Len(notes') /\ m = notes'[i]
        BY <1>1, <1>3, <3>1
      <3>3. QED
        BY <3>2 DEF Published
    <2>3. n \in Published'
      BY <1>1, <1>4 DEF Published
    <2>4. QED
      BY <2>1, <2>2, <2>3
  <1>6. QED
    BY <1>1, <1>2, <1>3, <1>5

(* A new record, in the order in which an operation may publish it.        *)
LEMMA RecordFollows ==
    ASSUME ReconcileIInv, NEW n \in Note, n \notin Published, notes' = Append(notes, n),
           UNCHANGED <<journal, redone>>,
           n.type = "application" =>
              /\ Pending /\ journal.id = n.op => journal.next > Len(journal.queue)
              /\ n.app.conflicted => ResolutionNote(n.app.change) \in Published,
           n.type = "reconciliation" =>
              /\ \A k \in 1..Len(n.applied) :
                    [type |-> "application", op |-> n.op, app |-> n.applied[k]] \in Published
              /\ ~redone => \A x \in n.absorbed : Holds(n.result, x)
    PROVE  ReceiptsTrue' /\ NoRecordTwice' /\ PublishedWhole'
  <1> DEFINE last == Len(notes) + 1
  <1>1. /\ Published' = Published \cup {n} /\ Len(notes) \in Nat /\ Len(notes') = last /\ notes'[last] = n
        /\ \A i \in 1..Len(notes) : notes'[i] = notes[i] /\ notes[i] \in Published
        /\ \A i \in 1..Len(notes') : i = last \/ i \in 1..Len(notes)
    BY PublishedGrows DEF ReconcileIInv, TypeOK
  <1>2. ReceiptsTrue'
    BY <1>1 DEF ReconcileIInv, ReceiptsTrue, Receipts
  <1>3. NoRecordTwice'
    BY <1>1 DEF ReconcileIInv, NoRecordTwice
  <1>4. PublishedWhole'
    <2> DEFINE Before(i) == {notes[j] : j \in 1..(i - 1)}
               Later(i) == {notes'[j] : j \in 1..(i - 1)}
    <2>1. Later(last) = Published
      <3>1. last - 1 = Len(notes)
        BY <1>1
      <3>2. {notes'[j] : j \in 1..Len(notes)} = {notes[j] : j \in 1..Len(notes)}
        BY <1>1
      <3>3. QED
        BY <3>1, <3>2 DEF Published
    <2>2. \A i \in 1..Len(notes) : Later(i) = Before(i)
      <3> TAKE i \in 1..Len(notes)
      <3>1. \A j \in 1..(i - 1) : j \in 1..Len(notes)
        BY <1>1
      <3>2. QED
        BY <1>1, <3>1
    <2> HIDE DEF Before, Later, last
    <2>3. \A i \in 1..Len(notes') :
             /\ notes'[i].type = "application" =>
                  /\ Pending /\ journal.id = notes'[i].op => journal.next > Len(journal.queue)
                  /\ notes'[i].app.conflicted => ResolutionNote(notes'[i].app.change) \in Later(i)
             /\ notes'[i].type = "reconciliation" =>
                  \A k \in 1..Len(notes'[i].applied) :
                     [type |-> "application", op |-> notes'[i].op, app |-> notes'[i].applied[k]] \in Later(i)
      <3> TAKE i \in 1..Len(notes')
      <3>1. CASE i = last
        BY <1>1, <2>1, <3>1
      <3>2. CASE i \in 1..Len(notes)
        <4>1. /\ notes[i].type = "application" =>
                   /\ Pending /\ journal.id = notes[i].op => journal.next > Len(journal.queue)
                   /\ notes[i].app.conflicted => ResolutionNote(notes[i].app.change) \in Before(i)
              /\ notes[i].type = "reconciliation" =>
                   \A k \in 1..Len(notes[i].applied) :
                      [type |-> "application", op |-> notes[i].op, app |-> notes[i].applied[k]] \in Before(i)
          BY <3>2 DEF ReconcileIInv, PublishedWhole, Before
        <4>2. notes'[i] = notes[i] /\ Later(i) = Before(i)
          BY <1>1, <2>2, <3>2
        <4>3. QED
          BY <4>1, <4>2
      <3>3. QED
        BY <1>1, <3>1, <3>2
    <2>4. QED
      BY <2>3 DEF PublishedWhole, Later, Pending, ResolutionNote
  <1>5. QED
    BY <1>2, <1>3, <1>4

(* While a command publishes, nothing but the records and its place among  *)
(* them changes.                                                           *)
LEMMA PublishLeaves ==
    ASSUME ReconcileIInv, pc = "publish", pc' \in {"publish", "clear"}, nextNote' \in 1..(Len(op.applied) + 1),
           notes' \in Seq(Note), UNCHANGED <<gitVars, journal, op, histVars, boundVars>>
    PROVE  TypeOK' /\ Journaled' /\ Running' /\ PickTrue' /\ NothingToLose'
  <1> USE DEF gitVars, histVars, boundVars
  <1>1. journal = op /\ op \in Operation /\ Len(op.applied) \in Nat
    BY JournalIsOperation, OperationParts DEF ReconcileIInv, TypeOK
  <1>2. nextNote' \in Nat
    BY <1>1
  <1>3. TypeOK'
    BY <1>2 DEF ReconcileIInv, TypeOK, PC
  <1>4. Journaled'
    BY DEF ReconcileIInv, Journaled, Pending
  <1>5. Running'
    BY DEF ReconcileIInv, Running, Pending, Picking, Finished, Undoing
  <1>6. PickTrue' /\ NothingToLose'
    BY DEF ReconcileIInv, PickTrue, NothingToLose, Pending, Forward, Picking, Finished, Undoing
  <1>7. QED
    BY <1>3, <1>4, <1>5, <1>6

LEMMA PublishResolutionKeeps ==
    ASSUME ReconcileIInv, PublishResolution
    PROVE  ReconcileIInv'
  <1> DEFINE n == ResolutionNote(op.applied[nextNote].change)
  <1>0. /\ pc = "publish" /\ nextNote <= Len(op.applied) /\ n \notin Published /\ notes' = Append(notes, n)
        /\ UNCHANGED <<gitVars, journal, pc, op, nextNote, histVars, boundVars>>
    BY DEF PublishResolution, procVars
  <1>1. /\ op \in Operation /\ nextNote \in Nat /\ nextNote \in 1..(Len(op.applied) + 1)
        /\ Len(op.applied) \in Nat /\ journal = op /\ op.id \in 1..ops
    BY <1>0, JournalIsOperation, OperationParts DEF ReconcileIInv, TypeOK, Running
  <1>2. n \in Note /\ n.type = "resolution"
    <2>1. op.applied[nextNote].change \in Change
      BY <1>0, <1>1, OperationParts
    <2>2. QED
      BY <2>1 DEF Note, ResolutionNote
  <1> HIDE DEF n
  <1>3. notes' \in Seq(Note) /\ Published' = Published \cup {n}
    BY <1>0, <1>2, PublishedGrows DEF ReconcileIInv, TypeOK
  <1>4. ReceiptsTrue' /\ NoRecordTwice' /\ PublishedWhole'
    BY <1>0, <1>2, RecordFollows DEF histVars
  <1>5. TypeOK' /\ Journaled' /\ Running' /\ PickTrue' /\ NothingToLose'
    BY <1>0, <1>1, <1>3, PublishLeaves
  <1>6. PublishingTrue'
    BY <1>0, <1>2, <1>3 DEF ReconcileIInv, PublishingTrue, Pending, Unpublished, RecordOf, boundVars
  <1>7. QED
    BY <1>4, <1>5, <1>6 DEF ReconcileIInv

LEMMA PublishApplicationKeeps ==
    ASSUME ReconcileIInv, PublishApplication
    PROVE  ReconcileIInv'
  <1> DEFINE n == RecordOf(op, nextNote)
  <1>0. /\ pc = "publish" /\ nextNote <= Len(op.applied) /\ notes' = Append(notes, n)
        /\ op.applied[nextNote].conflicted => ResolutionNote(op.applied[nextNote].change) \in Published
        /\ nextNote' = nextNote + 1 /\ UNCHANGED <<gitVars, journal, pc, op, histVars, boundVars>>
    BY DEF PublishApplication, RecordOf
  <1>1. /\ op \in Operation /\ nextNote \in 1..Len(op.applied) /\ Len(op.applied) \in Nat
        /\ journal = op /\ op.id \in 1..ops /\ Coherent(op) /\ op.next > Len(op.queue)
        /\ op.next \in Nat /\ Len(op.queue) \in Nat
    BY <1>0, JournalIsOperation, OperationParts DEF ReconcileIInv, TypeOK, Running, Finished
  <1>2. n \in Note /\ n.type = "application" /\ n.op = op.id /\ n.app = op.applied[nextNote]
    <2>1. op.applied[nextNote] \in Application /\ op.id \in Nat
      BY <1>1, OperationParts
    <2>2. QED
      BY <2>1 DEF Note, RecordOf
  <1>3. n \notin Published
    <2> SUFFICES ASSUME n \in Published PROVE FALSE
      OBVIOUS
    <2>1. PICK i \in 1..(nextNote - 1) : n = RecordOf(op, i)
      BY <1>0, <1>2 DEF ReconcileIInv, PublishingTrue
    <2>2. op.applied[nextNote] = op.applied[i]
      BY <1>2, <2>1 DEF RecordOf
    <2>3. /\ i \in 1..Len(op.applied) /\ i # nextNote
          /\ i \in 1..Len(op.queue) /\ nextNote \in 1..Len(op.queue)
      BY <1>1, <2>1 DEF Coherent
    <2>4. op.queue[i] = op.queue[nextNote]
      BY <1>1, <2>2, <2>3 DEF Coherent
    <2>5. QED
      BY <1>1, <2>3, <2>4 DEF Coherent, Distinct
  <1> HIDE DEF n
  <1>4. notes' \in Seq(Note) /\ Published' = Published \cup {n}
    BY <1>0, <1>2, PublishedGrows DEF ReconcileIInv, TypeOK
  <1>5. ReceiptsTrue' /\ NoRecordTwice' /\ PublishedWhole'
    BY <1>0, <1>1, <1>2, <1>3, RecordFollows DEF histVars
  <1>6. TypeOK' /\ Journaled' /\ Running' /\ PickTrue' /\ NothingToLose'
    <2>1. nextNote + 1 \in 1..(Len(op.applied) + 1)
      BY <1>1
    <2>2. QED
      BY <1>0, <1>4, <2>1, PublishLeaves
  <1>7. PublishingTrue'
    <2>1. \A i \in 1..nextNote : i = nextNote \/ i \in 1..(nextNote - 1)
      BY <1>1
    <2>2. nextNote \in 1..nextNote /\ nextNote' - 1 = nextNote /\ 1..(nextNote - 1) \subseteq 1..nextNote
      BY <1>0, <1>1
    <2>3. n = RecordOf(op, nextNote)
      BY DEF n
    <2>4. \A m \in Published : m.type # "resolution" /\ m.op = op.id =>
             \E i \in 1..(nextNote - 1) : m = RecordOf(op, i)
      BY <1>0 DEF ReconcileIInv, PublishingTrue
    <2>5. \A i \in 1..(nextNote - 1) : RecordOf(op, i) \in Published
      BY <1>0 DEF ReconcileIInv, PublishingTrue
    <2>6. \A m \in Published' : m.type # "resolution" /\ m.op = op.id =>
             \E i \in 1..nextNote : m = RecordOf(op, i)
      BY <1>4, <2>2, <2>3, <2>4
    <2>7. \A i \in 1..nextNote : RecordOf(op, i) \in Published'
      BY <1>4, <2>1, <2>3, <2>5
    <2>8. \A m \in Published' : m.type # "resolution" => m.op \in 1..ops
      BY <1>1, <1>2, <1>4 DEF ReconcileIInv, PublishingTrue
    <2>9. ~(journal.next <= Len(journal.queue))
      BY <1>1
    <2>10. QED
      BY <1>0, <1>1, <2>2, <2>6, <2>7, <2>8, <2>9 DEF ReconcileIInv, PublishingTrue, Pending, boundVars, RecordOf
  <1>8. QED
    BY <1>5, <1>6, <1>7 DEF ReconcileIInv

LEMMA PublishReceiptKeeps ==
    ASSUME ReconcileIInv, PublishReceipt
    PROVE  ReconcileIInv'
  <1> DEFINE c == tip[branch]
             n == [type |-> "reconciliation", op |-> op.id, result |-> c,
                   absorbed |-> Absorbed(op), applied |-> op.applied]
  <1>0. /\ pc = "publish" /\ nextNote > Len(op.applied) /\ notes' = Append(notes, n) /\ pc' = "clear"
        /\ UNCHANGED <<gitVars, journal, op, nextNote, histVars, boundVars>>
    BY DEF PublishReceipt, Go
  <1>1. /\ op \in Operation /\ nextNote = Len(op.applied) + 1 /\ Len(op.applied) \in Nat
        /\ journal = op /\ op.id \in 1..ops /\ Coherent(op) /\ op.next > Len(op.queue) /\ branch = op.branch
        /\ op.next \in Nat /\ Len(op.queue) \in Nat /\ op.before \in Commit /\ branch \in Branch /\ c \in Commit
        /\ op.id \in Nat /\ op.applied \in Seq(Application)
    <2>1. /\ op \in Operation /\ nextNote \in 1..(Len(op.applied) + 1) /\ op.next > Len(op.queue)
          /\ branch \in Branch /\ tip \in [Branch -> Commit]
      BY <1>0 DEF ReconcileIInv, TypeOK, Running, Finished
    <2>2. /\ Len(op.applied) \in Nat /\ op.next \in Nat /\ Len(op.queue) \in Nat /\ op.before \in Commit
          /\ op.id \in Nat /\ op.applied \in Seq(Application)
      BY <2>1, OperationParts
    <2>3. journal = op /\ op.id \in 1..ops /\ Coherent(op) /\ branch = op.branch
      BY <1>0, JournalIsOperation
    <2>4. nextNote = Len(op.applied) + 1
      <3>1. nextNote > Len(op.applied)
        BY <1>0
      <3>2. QED
        BY <2>1, <2>2, <3>1
    <2>5. c \in Commit
      BY <2>1
    <2> HIDE DEF c
    <2>6. QED
      BY <2>1, <2>2, <2>3, <2>4, <2>5
  <1>2. /\ n \in Note /\ n.type = "reconciliation" /\ n.op = op.id /\ n.result = c
        /\ n.absorbed = Absorbed(op) /\ n.applied = op.applied
    <2>1. Absorbed(op) \in SUBSET Change
      BY DEF Absorbed
    <2> HIDE DEF c
    <2>2. QED
      BY <1>1, <2>1 DEF Note
  <1> HIDE DEF n
  <1>3. nextNote - 1 = Len(op.applied)
    BY <1>1
  <1>4. n \notin Published
    BY <1>0, <1>2 DEF ReconcileIInv, PublishingTrue, RecordOf
  <1>5. ~redone => \A x \in n.absorbed : Holds(c, x)
    <2> SUFFICES ASSUME ~redone, NEW x \in Absorbed(op) PROVE Holds(c, x)
      BY <1>2
    <2>1. Founded(op, c, undoing) /\ ~undoing
      BY <1>0, <1>1 DEF ReconcileIInv, Journaled, PickTrue, Forward, Finished, Running
    <2>2. CASE Holds(op.before, x)
      BY <1>1, <2>1, <2>2, AncestorHolds DEF Founded
    <2>3. CASE \E i \in 1..Len(op.queue) : op.queue[i] = x
      <3>1. PICK i \in 1..Len(op.queue) : op.queue[i] = x
        BY <2>3
      <3>2. i \in 1..Len(op.applied)
        BY <1>1 DEF Coherent
      <3>3. op.applied[i].change = x /\ ~op.applied[i].fork
        BY <1>1, <3>1, <3>2 DEF Coherent, Absorbed
      <3>4. /\ op.applied[i].commit \in Commit /\ Holds(op.applied[i].commit, x)
            /\ Ancestor(op.applied[i].commit, c)
        BY <1>1, <2>1, <3>2, <3>3, OperationParts DEF Coherent, Founded
      <3>5. QED
        BY <1>1, <3>4, AncestorHolds
    <2>4. x \in Change
      BY DEF Absorbed
    <2>5. QED
      BY <2>1, <2>2, <2>3, <2>4 DEF Founded
  <1>6. \A k \in 1..Len(n.applied) :
           [type |-> "application", op |-> n.op, app |-> n.applied[k]] \in Published
    BY <1>0, <1>2, <1>3 DEF ReconcileIInv, PublishingTrue, RecordOf
  <1>7. notes' \in Seq(Note) /\ Published' = Published \cup {n}
    BY <1>0, <1>2, PublishedGrows DEF ReconcileIInv, TypeOK
  <1>8. ReceiptsTrue' /\ NoRecordTwice' /\ PublishedWhole'
    BY <1>0, <1>2, <1>4, <1>5, <1>6, RecordFollows DEF histVars
  <1>9. TypeOK' /\ Journaled' /\ Running' /\ PickTrue' /\ NothingToLose'
    <2>1. nextNote \in 1..(Len(op.applied) + 1)
      BY <1>1
    <2>2. QED
      BY <1>0, <1>7, <2>1, PublishLeaves
  <1>10. PublishingTrue'
    <2>1. \A m \in Published' : m.type # "resolution" => m.op \in 1..ops
      BY <1>1, <1>2, <1>7 DEF ReconcileIInv, PublishingTrue
    <2>2. ~(journal.next <= Len(journal.queue)) /\ journal.id \in 1..ops
      BY <1>1
    <2>3. QED
      BY <1>0, <2>1, <2>2 DEF PublishingTrue, Pending, boundVars
  <1>11. QED
    BY <1>8, <1>9, <1>10 DEF ReconcileIInv
-----------------------------------------------------------------------------
(* The inductive invariant, and what follows from it.                      *)

LEMMA ReconcileStart ==
    ASSUME Init
    PROVE  ReconcileIInv
  <1> USE DEF Init
  <1>1. TypeOK
    <2>1. /\ NoOperation \in Operation /\ <<>> \in Commit /\ <<>> \in Seq(Note)
          /\ NoOperation.next = 1 /\ NoOperation.queue = <<>>
      BY NoOperationKind DEF Commit, NoOperation
    <2>2. tip \in [Branch -> Commit] /\ "target" \in Branch
      BY <2>1 DEF Branch
    <2>3. journal.next <= Len(journal.queue) + 1
      BY <2>1
    <2>4. "clean" \in Worktree /\ "idle" \in PC
      BY DEF Worktree, PC
    <2>5. undoing \in BOOLEAN /\ redone \in BOOLEAN /\ ops \in Nat /\ events \in Nat
      OBVIOUS
    <2>6. QED
      BY <2>1, <2>2, <2>3, <2>4, <2>5 DEF TypeOK
  <1>2. Journaled
    BY DEF Journaled, Pending
  <1>3. Running
    BY DEF Running, Picking, Finished, Undoing
  <1>4. PickTrue /\ NothingToLose
    BY DEF PickTrue, NothingToLose, Forward, Picking, Finished, Undoing
  <1>5. Published = {} /\ Receipts = {}
    BY DEF Published, Receipts
  <1>6. PublishingTrue /\ ReceiptsTrue
    BY <1>5 DEF PublishingTrue, ReceiptsTrue, Pending, Unpublished
  <1>7. NoRecordTwice /\ PublishedWhole
    BY DEF NoRecordTwice, PublishedWhole
  <1>8. QED
    BY <1>1, <1>2, <1>3, <1>4, <1>6, <1>7 DEF ReconcileIInv

LEMMA ReconcileIdle ==
    ASSUME ReconcileIInv, UNCHANGED vars
    PROVE  ReconcileIInv'
  <1> USE DEF vars, gitVars, procVars, histVars, boundVars
  <1>1. TypeOK' /\ Journaled' /\ Running'
    BY DEF ReconcileIInv, TypeOK, Journaled, Running, Pending, Picking, Finished, Undoing
  <1>2. PickTrue' /\ NothingToLose'
    BY DEF ReconcileIInv, PickTrue, NothingToLose, Pending, Forward, Picking, Finished, Undoing
  <1>3. PublishingTrue'
    BY DEF ReconcileIInv, PublishingTrue, Pending, Unpublished, Published, RecordOf
  <1>4. QED
    BY <1>1, <1>2, <1>3, NotesStay DEF ReconcileIInv

LEMMA ReconcileStep ==
    ASSUME ReconcileIInv, [Next]_vars
    PROVE  ReconcileIInv'
  <1>1. CASE \E overlay \in Overlays \cup {None}, forecast \in Forecasts : Begin(overlay, forecast)
    BY <1>1, BeginKeeps
  <1>2. CASE \E fork \in BOOLEAN : Continue(fork)
    BY <1>2, ContinueKeeps
  <1>3. CASE Abort
    BY <1>3, AbortKeeps
  <1>4. CASE CommandStep
    BY <1>4, QuietKeeps, StopKeeps, NextChangeKeeps, PickGoesOnKeeps, PickStopsKeeps, ApplyForecastKeeps,
       AdvanceKeeps, RecordOverlayKeeps, PublishResolutionKeeps, PublishApplicationKeeps, PublishReceiptKeeps,
       AbortResetKeeps
    DEF CommandStep
  <1>5. CASE Crash
    BY <1>5, StopKeeps
  <1>6. CASE PersonStep
    BY <1>6, PersonKeeps
  <1>7. CASE UNCHANGED vars
    BY <1>7, ReconcileIdle
  <1>8. QED
    BY <1>1, <1>2, <1>3, <1>4, <1>5, <1>6, <1>7 DEF Next

LEMMA ReconcileInvariant == Spec => []ReconcileIInv
  <1>1. Init => ReconcileIInv
    BY ReconcileStart
  <1>2. ReconcileIInv /\ [Next]_vars => ReconcileIInv'
    BY ReconcileStep
  <1>3. QED
    BY <1>1, <1>2, PTL DEF Spec

(* The journal, the memory of the running command and the records are      *)
(* always what their types say, and the journal never points past its      *)
(* queue.                                                                  *)
THEOREM OperationTypes == Spec => []TypeOK
  <1>1. ReconcileIInv => TypeOK
    BY DEF ReconcileIInv
  <1>2. QED
    BY <1>1, ReconcileInvariant, PTL

(* "A journal never claims more progress than Git actually made": wherever *)
(* --continue would be accepted, the branch is where the journal says the  *)
(* pick started and has every application it lists.                        *)
THEOREM JournalNeverAhead == Spec => []JournalHonest
  <1>1. ReconcileIInv => JournalHonest
    <2> SUFFICES ASSUME ReconcileIInv, AtRest, Pending, ~redone, Resumable(journal)
                 PROVE  /\ tip[branch] = journal.current.before
                        /\ Len(journal.applied) = journal.next - 1
                        /\ \A i \in 1..Len(journal.applied) : Ancestor(journal.applied[i].commit, tip[branch])
      BY DEF JournalHonest
    <2>1. journal \in Operation /\ Coherent(journal) /\ Founded(journal, tip[journal.branch], undoing)
      BY DEF ReconcileIInv, TypeOK, Journaled
    <2>2. journal.current # NoCurrent /\ cp = journal.current.change
      BY DEF Resumable
    <2>3. cp # None
      BY <2>1, <2>2, OperationParts DEF Coherent
    <2>4. branch = journal.branch /\ ~undoing /\ tip[branch] = journal.current.before
      BY <2>3 DEF ReconcileIInv, PickTrue
    <2>5. QED
      BY <2>1, <2>4 DEF Coherent, Founded
  <1>2. QED
    BY <1>1, ReconcileInvariant, PTL

(* "No partial application receipts are shared before whole-operation      *)
(* success": records of an operation appear when its queue is done, and in *)
(* the order in which they refer to each other.                            *)
THEOREM PublicationIsWhole == Spec => []PublishedWhole
  <1>1. ReconcileIInv => PublishedWhole
    BY DEF ReconcileIInv
  <1>2. QED
    BY <1>1, ReconcileInvariant, PTL

(* "No record is ever duplicated", however publication is interrupted,     *)
(* aborted or taken up again.                                              *)
THEOREM RecordsAreUnique == Spec => []NoRecordTwice
  <1>1. ReconcileIInv => NoRecordTwice
    BY DEF ReconcileIInv
  <1>2. QED
    BY <1>1, ReconcileInvariant, PTL

(* "No unsafe coverage survives an abort": what a receipt reachable from a *)
(* branch calls absorbed is in that branch under its own identity, unless  *)
(* the person has rewound or redone a pick.                                *)
THEOREM CoverageIsTrue == Spec => []CoverageTrue
  <1>1. ReconcileIInv => CoverageTrue
    <2> SUFFICES ASSUME ReconcileIInv, ~redone, NEW b \in Branch, NEW r \in Receipts,
                        Ancestor(r.result, tip[b]), NEW x \in r.absorbed
                 PROVE  Holds(tip[b], x)
      BY DEF CoverageTrue, Truthful
    <2>1. Holds(r.result, x)
      BY DEF ReconcileIInv, ReceiptsTrue
    <2>2. r.result \in Commit
      BY NotesTyped DEF Receipts, Note
    <2>3. tip[b] \in Commit
      BY DEF ReconcileIInv, TypeOK
    <2>4. QED
      BY <2>1, <2>2, <2>3, AncestorHolds
  <1>2. QED
    BY <1>1, ReconcileInvariant, PTL

(* An abort that completes leaves the branch where the operation found it, *)
(* no pick pending, and the worktree clean or with the captured draft; and *)
(* no command discards edits the person made.                              *)
THEOREM AbortPutsBack == Spec => AbortRestores
  <1> DEFINE Restored == /\ tip[op.branch] = op.before /\ cp = None
                         /\ op.overlay = None => wt = "clean"
                         /\ op.overlay = "draft" => wt = "draft"
             Spared == wt = "edited" /\ ~journal.remat /\ wt' # "edited" => AtRest /\ pc' = "idle"
  <1>1. ASSUME ReconcileIInv, pc = "forget" PROVE Restored
    <2>1. branch = op.branch
      BY <1>1 DEF ReconcileIInv, Running
    <2>2. QED
      BY <1>1, <2>1 DEF ReconcileIInv, NothingToLose, Undoing
  <1>2. ASSUME ReconcileIInv, [Next]_vars PROVE Spared
    <2> SUFFICES ASSUME wt = "edited", ~journal.remat, wt' # "edited" PROVE AtRest /\ pc' = "idle"
      OBVIOUS
    <2>1. pc = "idle"
      <3>1. pc \notin Forward
        BY <1>2 DEF ReconcileIInv, NothingToLose
      <3>2. pc \notin Undoing
        <4> SUFFICES ASSUME pc \in Undoing PROVE FALSE
          OBVIOUS
        <4>1. op.remat = journal.remat
          BY <1>2, JournalIsOperation DEF Undoing
        <4>2. QED
          BY <1>2, <4>1 DEF ReconcileIInv, NothingToLose
      <3>3. QED
        BY <1>2, <3>1, <3>2 DEF ReconcileIInv, TypeOK, PC, Forward, Picking, Finished, Undoing
    <2>2. ~Abort
      BY <1>2 DEF ReconcileIInv, PickTrue, Abort, Disposable
    <2>3. ~CommandStep /\ ~Crash
      BY <2>1 DEF CommandStep, RemoveDraftFiles, ResetToHead, NextChange, PickApplies, PickConflicts, PickBlocked,
         Pause, ApplyForecast, ContinuePick, ContinuePickFails, Advance, QueueDone, Mismatch, Verified,
         MaterializeOverlay, RecordOverlay, OverlayMismatch, PublishResolution, PublishApplication, PublishReceipt,
         ClearJournal, AbortReset, AbortRestore, AbortClear, Crash
    <2>4. ASSUME NEW overlay, NEW forecast, Begin(overlay, forecast) PROVE FALSE
      BY <2>4 DEF Begin, gitVars
    <2>5. ASSUME NEW fork, Continue(fork) PROVE FALSE
      BY <2>5 DEF Continue, gitVars
    <2>6. CASE PersonStep
      BY <2>1, <2>6 DEF PersonStep, Resolve, GitContinue, GitAbandon, Checkout, CommitOwn, Edit, CaptureDraft,
         Rewind, PickAgain, CleanUp, GoBack, Acts, AtRest, procVars
    <2>7. CASE UNCHANGED vars
      BY <2>7 DEF vars, gitVars
    <2>8. QED
      BY <1>2, <2>1, <2>2, <2>3, <2>4, <2>5, <2>6, <2>7 DEF Next, AtRest
  <1>3. ReconcileIInv /\ [Next]_vars =>
           [/\ pc = "forget" /\ journal' = NoOperation => Restored
            /\ Spared]_vars
    BY <1>1, <1>2
  <1>4. QED
    BY <1>3, ReconcileInvariant, PTL DEF Spec, AbortRestores
=============================================================================
