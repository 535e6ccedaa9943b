---------------------------- MODULE RebaseProofs ----------------------------

(***************************************************************************)
(* Proofs about Rebase, for every history, every program and every bound:  *)
(* its types, what it publishes, its forecasts and its anchors.  More is   *)
(* in RebaseWorkProofs.                                                    *)
(***************************************************************************)
EXTENDS Rebase, SequenceTheorems, WellFoundedInduction, TLAPS

(* Where a command is within a step of the queue, and beyond it; where its *)
(* memory is what it has journaled; where it has the queue behind it, and  *)
(* where it undoes what an operation did.                                  *)
Stepping == {"pick", "merge", "join", "paused", "batch", "absorb", "cursor", "finish",
             "record", "record-join", "continue", "reword", "edit"}
Moving == {"anchor", "advance"}
Starting == {"reduce", "reduced", "reset", "queue"}
Sharing == {"publish", "release", "clear"}
Finishing == {"verify", "materialize", "remat"} \cup Sharing
Undoing == {"undo", "restore", "undone", "forget"}

(* A sequence, whatever of.                                                *)
Strung(s) == s \in Seq({s[i] : i \in 1..Len(s)})

(* An operation has these fields.                                          *)
Shaped(o) ==
    o = [id |-> o.id, branch |-> o.branch, orig |-> o.orig, onto |-> o.onto,
         queue |-> o.queue, next |-> o.next, rewritten |-> o.rewritten, applied |-> o.applied,
         joins |-> o.joins, amendments |-> o.amendments, absorptions |-> o.absorptions,
         current |-> o.current, state |-> o.state, overlay |-> o.overlay, remat |-> o.remat,
         forecast |-> o.forecast]

Sound(o) ==
    /\ Shaped(o) /\ o.id \in Nat /\ o.next \in Nat \ {0} /\ Len(o.queue) \in Nat
    /\ \A i \in 1..Len(o.queue) : o.queue[i].kind \in {"pick", "omit", "merge"}
    /\ Strung(o.applied) /\ Strung(o.amendments) /\ Strung(o.absorptions)

(* What an operation is about does not change as it goes on.               *)
Same(o, p) ==
    /\ p.id = o.id /\ p.branch = o.branch /\ p.orig = o.orig /\ p.onto = o.onto
    /\ p.queue = o.queue /\ p.overlay = o.overlay /\ p.forecast = o.forecast

Records == {"application", "amendment", "absorption", "rebase"}

RebaseKinds ==
    /\ Sound(journal) /\ Sound(op) /\ Strung(notes)
    /\ ops \in Nat /\ nextNote \in Nat

(* The journal and the running command's memory, by where the command is.  *)
Journaled ==
    /\ Pending => journal.id \in 1..ops
    /\ journal.state \notin {"applying", "blocked"} => journal.next <= Len(journal.queue)
    /\ pc # "idle" => Pending /\ Same(journal, op)
    /\ pc \in Starting \cup Finishing \cup Undoing => journal = op
    /\ pc \in Starting \cup Moving \cup Finishing => op.state = "applying"
    /\ pc \in Stepping => op.next <= Len(op.queue)
    /\ pc \in Finishing => op.next > Len(op.queue)

(* A forecast that a journal counts on stands as long as it does.          *)
ForecastTrue ==
    Pending /\ journal.forecast =>
        forecast.head = journal.orig /\ forecast.onto = journal.onto /\ forecast.queue = journal.queue

(* No record names an operation that has steps to run.                     *)
Unpublished(id) == \A n \in Published : n.op # id

PublishingTrue ==
    /\ \A n \in Published : n.op \in 1..ops
    /\ Pending /\ journal.next <= Len(journal.queue) => Unpublished(journal.id)
    /\ pc \in Starting \cup Stepping \cup Moving \cup {"verify", "materialize", "remat"} => Unpublished(op.id)
    /\ pc \in {"materialize", "remat"} => nextNote = 1
    /\ pc = "publish" =>
          /\ nextNote \in 1..Len(Publication(op))
          /\ \A i \in 1..Len(op.applied) : i < nextNote => Publication(op)[i] \in Published

RebaseIInv == RebaseKinds /\ Journaled /\ ForecastTrue /\ PublishingTrue /\ PublishedWhole

-----------------------------------------------------------------------------

(* Sequences.                                                              *)

LEMMA StrungTrue ==
    ASSUME NEW s, Strung(s)
    PROVE  Len(s) \in Nat
  BY LenProperties DEF Strung

LEMMA StrungWithin ==
    ASSUME NEW S, NEW s \in Seq(S)
    PROVE  Strung(s)
  <1>1. Len(s) \in Nat /\ s = [i \in 1..Len(s) |-> s[i]]
    BY LenProperties
  <1>2. s \in [1..Len(s) -> {s[i] : i \in 1..Len(s)}]
    BY <1>1
  <1>3. QED
    BY <1>1, <1>2, SeqDef DEF Strung

LEMMA StrungEmpty == Strung(<<>>)
  BY EmptySeq DEF Strung

LEMMA StrungAppend ==
    ASSUME NEW s, Strung(s), NEW e
    PROVE  /\ Strung(Append(s, e)) /\ Len(Append(s, e)) = Len(s) + 1
           /\ \A i \in 1..Len(s) : Append(s, e)[i] = s[i]
           /\ Append(s, e)[Len(s) + 1] = e
  <1> DEFINE S == {s[i] : i \in 1..Len(s)}
             T == S \cup {e}
  <1>1. s \in Seq(S) /\ S \subseteq T /\ e \in T
    BY DEF Strung
  <1> HIDE DEF S, T
  <1>2. Len(s) \in Nat /\ s \in [1..Len(s) -> S]
    BY <1>1, LenProperties
  <1>3. s \in [1..Len(s) -> T]
    BY <1>1, <1>2
  <1>4. s \in Seq(T)
    BY <1>2, <1>3, SeqDef
  <1>5. /\ Append(s, e) \in Seq(T) /\ Len(Append(s, e)) = Len(s) + 1
        /\ \A i \in 1..Len(s) : Append(s, e)[i] = s[i]
        /\ Append(s, e)[Len(s) + 1] = e
    BY <1>1, <1>4, AppendProperties
  <1>6. QED
    BY <1>5, StrungWithin

LEMMA FunctionSeq ==
    ASSUME NEW S, NEW n \in Nat, NEW f \in [1..n -> S]
    PROVE  f \in Seq(S) /\ Len(f) = n
  <1>1. f \in Seq(S)
    BY SeqDef
  <1>2. Len(f) \in Nat /\ DOMAIN f = 1..Len(f) /\ DOMAIN f = 1..n
    BY <1>1, LenProperties
  <1>3. QED
    BY <1>1, <1>2

(* A set of natural numbers that has a member has a least one: to prove    *)
(* something of every number, look at the least that lacks it.             *)
LEMMA LeastMember ==
    ASSUME NEW T \in SUBSET Nat, T # {}
    PROVE  \E k \in T : \A j \in T : k <= j
  <1>1. PICK k \in T : \A j \in T : ~ (<<j, k>> \in OpToRel(<, Nat))
    BY NatLessThanWellFounded, WFMin, Zenon
  <1>2. \A j \in T : ~ (j < k)
    BY <1>1 DEF OpToRel
  <1>3. QED
    BY <1>2

(* A sequence of some things is one of more.                               *)
LEMMA SeqWidens ==
    ASSUME NEW S, NEW T, S \subseteq T, NEW s \in Seq(S)
    PROVE  s \in Seq(T)
  <1>1. Len(s) \in Nat /\ s \in [1..Len(s) -> S]
    BY LenProperties
  <1>2. s \in [1..Len(s) -> T]
    BY <1>1
  <1>3. QED
    BY <1>1, <1>2, SeqDef

(* How the range of a plan grows along the repository.                     *)
Taken(S, upTo, n) ==
    [i \in 0..n |-> IF i = 0 THEN <<>>
                    ELSE IF i \in S THEN Append(upTo[i - 1], i) ELSE upTo[i - 1]]
UpTo(S, n) == CHOOSE upTo : upTo = Taken(S, upTo, n)

LEMMA InOrderExists ==
    ASSUME NEW S, NEW n \in Nat
    PROVE  UpTo(S, n) = Taken(S, UpTo(S, n), n)
  <1> DEFINE Bad == {k \in Nat : ~ \E g : g = Taken(S, g, k)}
  <1>1. Bad = {}
    <2>1. SUFFICES ASSUME Bad # {} PROVE FALSE
      OBVIOUS
    <2>2. PICK k \in Bad : \A j \in Bad : k <= j
      BY <2>1, LeastMember
    <2>3. CASE k = 0
      <3>1. [i \in 0..0 |-> <<>>] = Taken(S, [i \in 0..0 |-> <<>>], 0)
        BY DEF Taken
      <3>2. QED
        BY <2>2, <2>3, <3>1
    <2>4. CASE k # 0
      <3>1. k - 1 \in Nat /\ k - 1 \notin Bad
        BY <2>2, <2>4
      <3>2. PICK g : g = Taken(S, g, k - 1)
        BY <3>1
      <3> DEFINE f == [i \in 0..k |-> IF i < k THEN g[i]
                                      ELSE IF k \in S THEN Append(g[k - 1], k) ELSE g[k - 1]]
      <3>3. \A i \in 0..(k - 1) : g[i] = IF i = 0 THEN <<>>
                                        ELSE IF i \in S THEN Append(g[i - 1], i) ELSE g[i - 1]
        BY <3>1, <3>2 DEF Taken
      <3>4. \A i \in 0..k : f[i] = IF i = 0 THEN <<>>
                                  ELSE IF i \in S THEN Append(f[i - 1], i) ELSE f[i - 1]
        BY <2>2, <2>4, <3>3
      <3>5. f = Taken(S, f, k)
        BY <3>4 DEF Taken
      <3>6. QED
        BY <2>2, <3>5
    <2>5. QED
      BY <2>3, <2>4
  <1>2. \E g : g = Taken(S, g, n)
    BY <1>1
  <1>3. QED
    BY <1>2, Zenon DEF UpTo

(* What is taken is of the set, in order, and all of it.                   *)
Ordered(s, S) ==
    /\ s \in Seq(S) /\ \A i, j \in 1..Len(s) : i < j => s[i] < s[j]
    /\ \A x \in S : \E i \in 1..Len(s) : s[i] = x

LEMMA InOrderTrue ==
    ASSUME NEW S, Len(objs) \in Nat
    PROVE  Ordered(InOrder(S), S \cap 1..Len(objs))
  <1> DEFINE g == UpTo(S, Len(objs))
             Bad == {k \in Nat : k <= Len(objs) /\ ~Ordered(g[k], S \cap 1..k)}
  <1>1. \A i \in 0..Len(objs) : g[i] = IF i = 0 THEN <<>>
                                       ELSE IF i \in S THEN Append(g[i - 1], i) ELSE g[i - 1]
    <2>1. g = Taken(S, g, Len(objs))
      BY InOrderExists
    <2>2. QED
      BY <2>1 DEF Taken
  <1>2. InOrder(S) = g[Len(objs)]
    BY Zenon DEF InOrder, UpTo, Taken
  <1> HIDE DEF g
  <1>3. Bad = {}
    <2>1. SUFFICES ASSUME Bad # {} PROVE FALSE
      OBVIOUS
    <2>2. PICK k \in Bad : \A j \in Bad : k <= j
      BY <2>1, LeastMember
    <2>3. k # 0
      <3>1. 0 \in 0..Len(objs) /\ <<>> \in Seq(S \cap 1..0) /\ Len(<<>>) = 0
        BY EmptySeq
      <3>2. g[0] = <<>>
        BY <1>1, <3>1
      <3>3. Ordered(<<>>, S \cap 1..0)
        <4>1. S \cap 1..0 = {}
          OBVIOUS
        <4>2. QED
          BY <3>1, <4>1 DEF Ordered
      <3>4. ~Ordered(g[k], S \cap 1..k)
        BY <2>2, Zenon
      <3>5. QED
        BY <3>2, <3>3, <3>4
    <2>4. k \in Nat \ {0} /\ k - 1 \in Nat /\ Ordered(g[k - 1], S \cap 1..(k - 1)) /\ ~Ordered(g[k], S \cap 1..k)
      <3>1. k \in Nat \ {0} /\ k - 1 \in Nat /\ k - 1 <= Len(objs) /\ ~(k <= k - 1)
        BY <2>2, <2>3
      <3>2. k - 1 \notin Bad /\ ~Ordered(g[k], S \cap 1..k)
        BY <2>2, <3>1, Zenon
      <3>3. QED
        BY <3>1, <3>2, Zenon
    <2>5. g[k] = IF k \in S THEN Append(g[k - 1], k) ELSE g[k - 1]
      <3>1. k \in 0..Len(objs) /\ k # 0
        BY <2>2, <2>3
      <3>2. QED
        BY <1>1, <3>1
    <2> DEFINE s == g[k - 1]
    <2> HIDE DEF s
    <2>6. /\ s \in Seq(S \cap 1..(k - 1)) /\ s \in Seq(S \cap 1..k) /\ Len(s) \in Nat
          /\ \A i, j \in 1..Len(s) : i < j => s[i] < s[j]
          /\ \A x \in S \cap 1..k : x # k => \E i \in 1..Len(s) : s[i] = x
      <3>1. S \cap 1..(k - 1) \subseteq S \cap 1..k
        BY <2>4
      <3>2. /\ s \in Seq(S \cap 1..(k - 1)) /\ \A i, j \in 1..Len(s) : i < j => s[i] < s[j]
            /\ \A x \in S \cap 1..(k - 1) : \E i \in 1..Len(s) : s[i] = x
        BY <2>4 DEF Ordered, s
      <3>3. \A x \in S \cap 1..k : x # k => x \in S \cap 1..(k - 1)
        BY <2>4
      <3>4. s \in Seq(S \cap 1..k) /\ Len(s) \in Nat
        BY <3>1, <3>2, SeqWidens, LenProperties
      <3>5. QED
        BY <3>2, <3>3, <3>4
    <2>7. CASE k \in S
      <3>1. k \in S \cap 1..k
        BY <2>4, <2>7
      <3>2. /\ Append(s, k) \in Seq(S \cap 1..k) /\ Len(Append(s, k)) = Len(s) + 1
            /\ \A i \in 1..Len(s) : Append(s, k)[i] = s[i]
            /\ Append(s, k)[Len(s) + 1] = k
        BY <2>6, <3>1, AppendProperties
      <3>3. \A i \in 1..Len(s) : s[i] \in 1..(k - 1)
        BY <2>6, LenProperties
      <3> DEFINE t == Append(s, k)
      <3> HIDE DEF t
      <3>4. ASSUME NEW i \in 1..(Len(s) + 1), NEW j \in 1..(Len(s) + 1), i < j PROVE t[i] < t[j]
        <4>1. i \in 1..Len(s) /\ t[i] = s[i]
          BY <2>6, <3>2, <3>4 DEF t
        <4>2. CASE j = Len(s) + 1
          BY <2>4, <3>2, <3>3, <4>1, <4>2 DEF t
        <4>3. CASE j # Len(s) + 1
          <5>1. j \in 1..Len(s) /\ t[j] = s[j]
            BY <2>6, <3>2, <4>3 DEF t
          <5>2. QED
            BY <2>6, <3>4, <4>1, <5>1
        <4>4. QED
          BY <4>2, <4>3
      <3>7. ASSUME NEW x \in S \cap 1..k PROVE \E i \in 1..Len(t) : t[i] = x
        <4>1. Len(t) = Len(s) + 1 /\ t[Len(s) + 1] = k /\ \A i \in 1..Len(s) : t[i] = s[i]
          BY <3>2 DEF t
        <4> HIDE DEF t, s, g
        <4>2. CASE x = k
          <5>1. Len(s) + 1 \in 1..Len(t)
            BY <2>6, <4>1
          <5>2. QED
            BY <4>1, <4>2, <5>1
        <4>3. CASE x # k
          <5>1. PICK i \in 1..Len(s) : s[i] = x
            BY <2>6, <4>3
          <5>2. QED
            BY <2>6, <4>1, <5>1
        <4>4. QED
          BY <4>2, <4>3
      <3>5. Ordered(t, S \cap 1..k)
        BY <3>2, <3>4, <3>7 DEF Ordered, t
      <3>6. QED
        BY <2>4, <2>5, <2>7, <3>5 DEF s, t
    <2>8. CASE k \notin S
      <3>1. \A x \in S \cap 1..k : \E i \in 1..Len(s) : s[i] = x
        BY <2>6, <2>8
      <3>2. QED
        BY <2>4, <2>5, <2>6, <2>8, <3>1 DEF Ordered, s
    <2>9. QED
      BY <2>7, <2>8
  <1>4. Len(objs) <= Len(objs)
    OBVIOUS
  <1>5. Len(objs) \notin Bad
    BY <1>3, Zenon
  <1>6. QED
    BY <1>2, <1>4, <1>5, Zenon

(* Commits, each of which comes after its parents and its past.            *)
Fit(e, c) == e \in Commit /\ e.parents \in Seq(1..(c - 1)) /\ e.past \subseteq 1..c
Lineage(s) == Strung(s) /\ \A c \in 1..Len(s) : Fit(s[c], c)

LEMMA MadeFits ==
    ASSUME NEW s, Lineage(s), NEW parents \in Seq(1..Len(s)), NEW of \in Change \cup {None},
           NEW named \in BOOLEAN, NEW content \in SUBSET Content
    PROVE  Fit(Made(s, parents, of, named, content), Len(s) + 1)
  <1> DEFINE e == Made(s, parents, of, named, content)
             From == {parents[k] : k \in 1..Len(parents)}
  <1>1. Len(s) \in Nat
    BY StrungTrue DEF Lineage
  <1>2. From \subseteq 1..Len(s)
    BY LenProperties
  <1>3. \A p \in From : s[p].tree \subseteq Content /\ s[p].past \subseteq 1..Len(s)
    <2>1. \A p \in From : s[p].tree \subseteq Content /\ s[p].past \subseteq 1..p
      BY <1>2 DEF Lineage, Fit, Commit
    <2>2. QED
      BY <1>1, <1>2, <2>1
  <1>4. e.tree \subseteq Content /\ e.past \subseteq 1..(Len(s) + 1) /\ e.past \subseteq Nat
    <2>1. e.tree = content \cup UNION {s[p].tree : p \in From}
          /\ e.past = {Len(s) + 1} \cup UNION {s[p].past : p \in From}
      BY DEF Made
    <2> HIDE DEF e, From
    <2>2. \A x \in e.past : x = Len(s) + 1 \/ x \in 1..Len(s)
      BY <1>3, <2>1
    <2>3. \A x \in e.tree : x \in Content
      BY <1>3, <2>1
    <2>4. QED
      BY <1>1, <2>2, <2>3
  <1>5. parents \in Seq(Nat) /\ parents \in Seq(1..((Len(s) + 1) - 1))
    <2>1. 1..Len(s) \subseteq Nat /\ (Len(s) + 1) - 1 = Len(s)
      BY <1>1
    <2>2. QED
      BY <2>1, SeqWidens
  <1>6. e = [parents |-> parents, of |-> of, named |-> named, tree |-> e.tree, past |-> e.past]
    BY DEF Made
  <1> HIDE DEF e
  <1>7. e.parents = parents /\ e \in Commit
    BY <1>4, <1>5, <1>6 DEF Commit
  <1>8. QED
    BY <1>4, <1>5, <1>7 DEF Fit, e

LEMMA LineageGrows ==
    ASSUME NEW s, Lineage(s), NEW parents \in Seq(1..Len(s)), NEW of \in Change \cup {None},
           NEW named \in BOOLEAN, NEW content \in SUBSET Content
    PROVE  LET t == Append(s, Made(s, parents, of, named, content)) IN
           Lineage(t) /\ Len(s) \in Nat /\ Len(t) = Len(s) + 1
  <1> DEFINE e == Made(s, parents, of, named, content)
  <1>1. Fit(e, Len(s) + 1)
    BY MadeFits
  <1>2. Len(s) \in Nat /\ Strung(s)
    BY StrungTrue DEF Lineage
  <1> HIDE DEF e
  <1>3. /\ Strung(Append(s, e)) /\ Len(Append(s, e)) = Len(s) + 1
        /\ \A i \in 1..Len(s) : Append(s, e)[i] = s[i]
        /\ Append(s, e)[Len(s) + 1] = e
    BY <1>2, StrungAppend
  <1> DEFINE t == Append(s, e)
  <1> HIDE DEF t
  <1>4. ASSUME NEW c \in 1..Len(t) PROVE Fit(t[c], c)
    <2>1. CASE c = Len(s) + 1
      BY <1>1, <1>3, <2>1 DEF t
    <2>2. CASE c # Len(s) + 1
      <3>1. c \in 1..Len(s) /\ t[c] = s[c]
        BY <1>2, <1>3, <2>2 DEF t
      <3>2. QED
        BY <3>1 DEF Lineage
    <2>3. QED
      BY <2>1, <2>2
  <1>5. QED
    BY <1>2, <1>3, <1>4, Zenon DEF Lineage, t, e

(* Commits with two parents at most, whose past is theirs and themselves;  *)
(* and a repository that has these commits and perhaps more.               *)
Among(parents) == {parents[k] : k \in 1..Len(parents)}
Pasts(s, P) == UNION {s[p].past : p \in P}
Descent(s) ==
    \A c \in 1..Len(s) : Len(s[c].parents) <= 2 /\ s[c].past = {c} \cup Pasts(s, Among(s[c].parents))
Grows(s, z) == Len(s) <= Len(z) /\ \A c \in 1..Len(s) : z[c] = s[c]

LEMMA DescentGrows ==
    ASSUME NEW s, Lineage(s), Descent(s), NEW parents \in Seq(1..Len(s)), Len(parents) <= 2,
           NEW of, NEW named, NEW content
    PROVE  LET z == Append(s, Made(s, parents, of, named, content)) IN
           /\ Descent(z) /\ Grows(s, z) /\ Len(z) = Len(s) + 1
           /\ z[Len(s) + 1].past = {Len(s) + 1} \cup Pasts(s, Among(parents))
  <1> DEFINE e == Made(s, parents, of, named, content)
             z == Append(s, e)
  <1>1. Strung(s) /\ Len(s) \in Nat
    BY StrungTrue DEF Lineage
  <1>2. e.parents = parents /\ e.past = {Len(s) + 1} \cup Pasts(s, Among(parents))
    BY DEF Made, Among, Pasts
  <1>3. Among(parents) \subseteq 1..Len(s)
    BY LenProperties DEF Among
  <1> HIDE DEF e
  <1>4. Len(z) = Len(s) + 1 /\ z[Len(s) + 1] = e /\ \A c \in 1..Len(s) : z[c] = s[c]
    BY <1>1, StrungAppend
  <1> HIDE DEF z
  <1>5. ASSUME NEW P, P \subseteq 1..Len(s)
        PROVE  Pasts(z, P) = Pasts(s, P)
    BY <1>4, <1>5 DEF Pasts
  <1>6. ASSUME NEW c \in 1..Len(z)
        PROVE  Len(z[c].parents) <= 2 /\ z[c].past = {c} \cup Pasts(z, Among(z[c].parents))
    <2>1. CASE c = Len(s) + 1
      <3>1. z[c].parents = parents /\ z[c].past = {c} \cup Pasts(s, Among(parents))
        BY <1>2, <1>4, <2>1
      <3>2. Pasts(z, Among(parents)) = Pasts(s, Among(parents))
        BY <1>3, <1>5
      <3>3. QED
        BY <3>1, <3>2
    <2>2. CASE c # Len(s) + 1
      <3>1. c \in 1..Len(s) /\ z[c] = s[c]
        BY <1>1, <1>4, <2>2
      <3>2. Among(s[c].parents) \subseteq 1..Len(s)
        <4>1. s[c].parents \in Seq(1..(c - 1))
          BY <3>1 DEF Lineage, Fit
        <4>2. Among(s[c].parents) \subseteq 1..(c - 1)
          BY <4>1, LenProperties DEF Among
        <4>3. 1..(c - 1) \subseteq 1..Len(s)
          BY <1>1, <3>1
        <4>4. QED
          BY <4>2, <4>3
      <3>3. Len(s[c].parents) <= 2 /\ s[c].past = {c} \cup Pasts(s, Among(s[c].parents))
        BY <3>1 DEF Descent
      <3>4. Pasts(z, Among(s[c].parents)) = Pasts(s, Among(s[c].parents))
        BY <1>5, <3>2
      <3>5. QED
        BY <3>1, <3>3, <3>4
    <2>3. QED
      BY <2>1, <2>2
  <1>7. Descent(z)
    BY <1>6, Zenon DEF Descent
  <1>8. Grows(s, z)
    BY <1>1, <1>4 DEF Grows
  <1>9. QED
    BY <1>2, <1>4, <1>7, <1>8, Zenon DEF z, e

(* The past of a past.                                                     *)
LEMMA PastTrue ==
    ASSUME NEW s, Lineage(s), Descent(s)
    PROVE  \A c \in 1..Len(s) :
              /\ c \in s[c].past /\ s[c].past \subseteq 1..c
              /\ \A d \in s[c].past : d \in 1..Len(s) /\ s[d].past \subseteq s[c].past
  <1>1. Len(s) \in Nat
    BY StrungTrue DEF Lineage
  <1>2. \A c \in 1..Len(s) : c \in s[c].past /\ s[c].past \subseteq 1..c
    BY Zenon DEF Descent, Lineage, Fit
  <1> DEFINE Bad == {c \in Nat : c \in 1..Len(s) /\ \E d \in s[c].past : ~(s[d].past \subseteq s[c].past)}
  <1>3. Bad = {}
    <2>1. SUFFICES ASSUME Bad # {} PROVE FALSE
      OBVIOUS
    <2>2. PICK c \in Bad : \A b \in Bad : c <= b
      BY <2>1, LeastMember
    <2>3. PICK d \in s[c].past : ~(s[d].past \subseteq s[c].past)
      BY <2>2
    <2> DEFINE P == Among(s[c].parents)
    <2>4. c \in 1..Len(s) /\ s[c].past = {c} \cup UNION {s[p].past : p \in P}
      BY <2>2 DEF Descent, Pasts
    <2>5. P \subseteq 1..(c - 1)
      <3>1. s[c].parents \in Seq(1..(c - 1))
        BY <2>4 DEF Lineage, Fit
      <3>2. QED
        BY <3>1, LenProperties DEF Among
    <2> HIDE DEF P
    <2>6. PICK p \in P : d \in s[p].past
      BY <2>3, <2>4
    <2>7. p \in 1..Len(s) /\ p < c
      BY <1>1, <2>4, <2>5, <2>6
    <2>8. s[d].past \subseteq s[p].past
      BY <2>2, <2>6, <2>7
    <2>9. s[p].past \subseteq s[c].past
      BY <2>4, <2>6
    <2>10. QED
      BY <2>3, <2>8, <2>9
  <1>4. ASSUME NEW c \in 1..Len(s), NEW d \in s[c].past
        PROVE  d \in 1..Len(s) /\ s[d].past \subseteq s[c].past
    <2>1. d \in 1..Len(s)
      BY <1>1, <1>2
    <2>2. c \notin Bad
      BY <1>3, Zenon
    <2>3. QED
      BY <2>1, <2>2
  <1>5. QED
    BY <1>2, <1>4

(* The store a history starts from is one.                                 *)
Built(repo, built, n) ==
    [i \in 0..n |-> IF i = 0 THEN <<>>
                    ELSE Append(built[i - 1],
                           Made(built[i - 1], repo[i].parents, repo[i].of, repo[i].named,
                                IF repo[i].of = None THEN {} ELSE {AsWritten(repo[i].of)}))]

LEMMA StoreTrue ==
    ASSUME NEW repo \in Seq(Entry),
           \A i \in 1..Len(repo) :
              Len(repo[i].parents) <= 2 /\ \A k \in 1..Len(repo[i].parents) : repo[i].parents[k] \in 1..(i - 1)
    PROVE  Lineage(Store(repo)) /\ Descent(Store(repo)) /\ Len(Store(repo)) = Len(repo)
  <1> DEFINE Made1(s, i) == Made(s, repo[i].parents, repo[i].of, repo[i].named,
                                 IF repo[i].of = None THEN {} ELSE {AsWritten(repo[i].of)})
             Right(g, k) == g = Built(repo, g, k) /\ Lineage(g[k]) /\ Descent(g[k]) /\ Len(g[k]) = k
             Bad == {k \in Nat : k <= Len(repo) /\ ~ \E g : Right(g, k)}
  <1>a. Len(repo) \in Nat
    BY LenProperties
  <1>b. ASSUME NEW s, Lineage(s), Descent(s), NEW k \in 1..Len(repo), Len(s) = k - 1
        PROVE  /\ Lineage(Append(s, Made1(s, k))) /\ Descent(Append(s, Made1(s, k)))
               /\ Len(Append(s, Made1(s, k))) = k
    <2>1. repo[k] \in Entry
      BY LenProperties
    <2> DEFINE content == IF repo[k].of = None THEN {} ELSE {AsWritten(repo[k].of)}
    <2>2. /\ repo[k].of \in Change \cup {None} /\ repo[k].named \in BOOLEAN /\ content \in SUBSET Content
      <3>1. repo[k].of \in Change \cup {None} /\ repo[k].named \in BOOLEAN
        BY <2>1 DEF Entry
      <3>2. AsWritten(repo[k].of) \in Content
        BY <3>1 DEF Content, AsWritten
      <3>3. QED
        BY <3>1, <3>2
    <2>3. repo[k].parents \in Seq(1..Len(s))
      <3>1. repo[k].parents \in Seq(Nat)
        BY <2>1 DEF Entry
      <3>2. LET p == repo[k].parents IN Len(p) \in Nat /\ p = [i \in 1..Len(p) |-> p[i]]
        BY <3>1, LenProperties
      <3>3. repo[k].parents \in [1..Len(repo[k].parents) -> 1..Len(s)]
        BY <1>b, <3>2
      <3>4. QED
        BY <3>2, <3>3, SeqDef
    <2>4. Made1(s, k) = Made(s, repo[k].parents, repo[k].of, repo[k].named, content)
      OBVIOUS
    <2> HIDE DEF Made1, content
    <2> DEFINE t == Append(s, Made(s, repo[k].parents, repo[k].of, repo[k].named, content))
    <2>5. Lineage(t) /\ Len(t) = Len(s) + 1
      BY <1>b, <2>2, <2>3, LineageGrows
    <2>8. Descent(t)
      BY <1>b, <2>3, DescentGrows
    <2>6. t = Append(s, Made1(s, k))
      BY <2>4
    <2> HIDE DEF t
    <2>7. QED
      BY <1>a, <1>b, <2>5, <2>6, <2>8
  <1> HIDE DEF Made1
  <1>0. \A g, n : Built(repo, g, n) = [i \in 0..n |-> IF i = 0 THEN <<>> ELSE Append(g[i - 1], Made1(g[i - 1], i))]
    BY DEF Built, Made1
  <1>1. Bad = {}
    <2>1. SUFFICES ASSUME Bad # {} PROVE FALSE
      OBVIOUS
    <2>2. PICK k \in Bad : \A j \in Bad : k <= j
      BY <2>1, LeastMember
    <2>3. CASE k = 0
      <3>1. [i \in 0..0 |-> <<>>] = Built(repo, [i \in 0..0 |-> <<>>], 0)
        BY <1>0
      <3>2. QED
        <4>1. Lineage(<<>>) /\ Descent(<<>>) /\ Len(<<>>) = 0
          BY StrungEmpty DEF Lineage, Descent
        <4>2. Right([i \in 0..0 |-> <<>>], 0)
          BY <3>1, <4>1
        <4>3. QED
          BY <2>2, <2>3, <4>2
    <2>4. CASE k # 0
      <3>1. k - 1 \in Nat /\ k - 1 \notin Bad /\ k - 1 <= Len(repo) /\ k \in 1..Len(repo)
        BY <1>a, <2>2, <2>4
      <3>2. PICK g : Right(g, k - 1)
        BY <3>1
      <3> DEFINE f == [i \in 0..k |-> IF i < k THEN g[i] ELSE Append(g[k - 1], Made1(g[k - 1], k))]
      <3>3. \A i \in 0..(k - 1) : g[i] = IF i = 0 THEN <<>> ELSE Append(g[i - 1], Made1(g[i - 1], i))
        <4>1. Built(repo, g, k - 1) = [i \in 0..(k - 1) |-> IF i = 0 THEN <<>> ELSE Append(g[i - 1], Made1(g[i - 1], i))]
          BY <1>0, Zenon
        <4> DEFINE h == Built(repo, g, k - 1)
        <4> HIDE DEF h
        <4>2. \A i \in 0..(k - 1) : h[i] = IF i = 0 THEN <<>> ELSE Append(g[i - 1], Made1(g[i - 1], i))
          BY <4>1 DEF h
        <4>3. QED
          BY <3>2, <4>2, Zenon DEF h
      <3>4. \A i \in 0..k : f[i] = IF i = 0 THEN <<>> ELSE Append(f[i - 1], Made1(f[i - 1], i))
        BY <2>2, <2>4, <3>3
      <3>5. f = Built(repo, f, k)
        <4>1. Built(repo, f, k) = [i \in 0..k |-> IF i = 0 THEN <<>> ELSE Append(f[i - 1], Made1(f[i - 1], i))]
          BY <1>0, Zenon
        <4> DEFINE h == Built(repo, f, k)
        <4> HIDE DEF h
        <4>2. h = [i \in 0..k |-> IF i = 0 THEN <<>> ELSE Append(f[i - 1], Made1(f[i - 1], i))]
          BY <4>1 DEF h
        <4>3. h = f
          BY <3>4, <4>2
        <4>4. QED
          BY <4>3 DEF h
      <3>6. f[k] = Append(g[k - 1], Made1(g[k - 1], k))
        BY <2>2
      <3>7. Lineage(f[k]) /\ Descent(f[k]) /\ Len(f[k]) = k
        BY <1>b, <3>1, <3>2, <3>6
      <3>8. QED
        BY <2>2, <3>5, <3>7
    <2>5. QED
      BY <2>3, <2>4
  <1>2. \A g, f : g = Built(repo, g, Len(repo)) /\ f = Built(repo, f, Len(repo)) => g[Len(repo)] = f[Len(repo)]
    <2>1. TAKE g, f
    <2>2. SUFFICES ASSUME g = Built(repo, g, Len(repo)), f = Built(repo, f, Len(repo))
                   PROVE  g[Len(repo)] = f[Len(repo)]
      OBVIOUS
    <2> DEFINE Apart == {k \in Nat : k <= Len(repo) /\ g[k] # f[k]}
    <2>3. /\ \A i \in 0..Len(repo) : g[i] = IF i = 0 THEN <<>> ELSE Append(g[i - 1], Made1(g[i - 1], i))
          /\ \A i \in 0..Len(repo) : f[i] = IF i = 0 THEN <<>> ELSE Append(f[i - 1], Made1(f[i - 1], i))
      <3>1. ASSUME NEW h, h = Built(repo, h, Len(repo))
            PROVE  \A i \in 0..Len(repo) : h[i] = IF i = 0 THEN <<>> ELSE Append(h[i - 1], Made1(h[i - 1], i))
        <4>1. h = [i \in 0..Len(repo) |-> IF i = 0 THEN <<>> ELSE Append(h[i - 1], Made1(h[i - 1], i))]
          BY <1>0, <3>1, Zenon
        <4>2. QED
          BY <4>1
      <3>2. QED
        BY <2>2, <3>1
    <2>4. Apart = {}
      <3>1. SUFFICES ASSUME Apart # {} PROVE FALSE
        OBVIOUS
      <3>2. PICK k \in Apart : \A j \in Apart : k <= j
        BY <3>1, LeastMember
      <3>3. k \in 0..Len(repo) /\ (k # 0 => k - 1 \in 0..Len(repo) /\ g[k - 1] = f[k - 1])
        BY <3>2
      <3>4. QED
        BY <2>3, <3>2, <3>3
    <2>5. QED
      BY <2>4
  <1>3. \E g : Right(g, Len(repo))
    <2>1. Len(repo) <= Len(repo) /\ Len(repo) \notin Bad
      BY <1>1, <1>a
    <2>2. QED
      BY <1>a, <2>1
  <1> DEFINE store == CHOOSE g : g = Built(repo, g, Len(repo))
  <1>4. store = Built(repo, store, Len(repo))
    BY <1>3, Zenon
  <1>5. Store(repo) = store[Len(repo)]
    BY Zenon DEF Store, Built
  <1> HIDE DEF store
  <1>6. QED
    BY <1>2, <1>3, <1>4, <1>5

LEMMA QueueTrue ==
    ASSUME NEW head, NEW onto, NEW program, Len(objs) \in Nat
    PROVE  LET queue == Queue(head, onto, program) IN
           /\ Len(queue) \in Nat
           /\ \A i \in 1..Len(queue) : queue[i].kind \in {"pick", "omit", "merge"}
  <1> DEFINE range == ResolveRange(head, onto)
             queue == Queue(head, onto, program)
  <1>1. Len(range) \in Nat
    BY InOrderTrue, LenProperties DEF Ordered, ResolveRange
  <1>2. DOMAIN queue = 1..Len(range)
        /\ \A i \in 1..Len(range) : queue[i].kind = Kind(onto, program, range[i])
    BY DEF Queue
  <1>3. queue = [i \in 1..Len(range) |-> queue[i]]
    BY DEF Queue
  <1>4. Len(queue) = Len(range)
    <2>1. queue \in [1..Len(range) -> {queue[i] : i \in 1..Len(range)}]
      BY <1>3
    <2> HIDE DEF queue, range
    <2>2. QED
      BY <1>1, <2>1, FunctionSeq
  <1>5. \A c : Kind(onto, program, c) \in {"pick", "omit", "merge"}
    BY DEF Kind
  <1>6. QED
    BY <1>1, <1>2, <1>4, <1>5

(* A queue in which every step comes after those that its parents wait for.*)
Planned(q, n) ==
    /\ q \in Seq(Step)
    /\ \A i \in 1..Len(q) :
          /\ q[i].commit \in 1..n /\ Len(q[i].parents) >= 1
          /\ q[i].kind = "merge" => Len(q[i].parents) = 2
          /\ \A k \in 1..Len(q[i].parents) :
                q[i].parents[k] = NoCommit \/ \E j \in 1..(i - 1) : q[j].commit = q[i].parents[k]
          /\ \A k \in 1..Len(q[i].absorbs) : q[i].absorbs[k] \in 1..n

LEMMA QueuePlanned ==
    ASSUME Lineage(objs), NEW head, NEW onto, NEW program \in Program
    PROVE  Planned(Queue(head, onto, program), Len(objs))
  <1> DEFINE range == ResolveRange(head, onto)
             n == Len(objs)
             In == {range[i] : i \in 1..Len(range)}
             Absorbs(c) == IF objs[c].of # None /\ program.into = objs[c].of
                           THEN InOrder({d \in In : ~IsMerge(d) /\ Action(onto, program, d) = "absorbed"})
                           ELSE <<>>
             kind(c) == Kind(onto, program, c)
             action(c) == IF IsMerge(c) THEN "replay" ELSE Action(onto, program, c)
             absorbs(c) == IF kind(c) = "pick" THEN Absorbs(c) ELSE <<>>
             parents(c) == IF objs[c].parents = <<>> THEN <<NoCommit>>
                           ELSE [k \in 1..Len(objs[c].parents) |->
                                   IF objs[c].parents[k] \in In THEN objs[c].parents[k] ELSE NoCommit]
             queue == Queue(head, onto, program)
  <1>1. n \in Nat
    BY StrungTrue DEF Lineage
  <1>2. range \in Seq(1..n) /\ Len(range) \in Nat /\ \A i, j \in 1..Len(range) : i < j => range[i] < range[j]
    <2>1. Ordered(range, (objs[head].past \ objs[onto].past) \cap 1..n)
      BY <1>1, InOrderTrue DEF ResolveRange
    <2>2. range \in Seq(1..n)
      BY <2>1, SeqWidens DEF Ordered
    <2>3. QED
      BY <2>1, <2>2, LenProperties DEF Ordered
  <1>3. \A i \in 1..Len(range) : range[i] \in 1..n
    BY <1>2, LenProperties
  <1>4. queue = [i \in 1..Len(range) |->
                   [kind |-> kind(range[i]), commit |-> range[i], action |-> action(range[i]),
                    absorbs |-> absorbs(range[i]), parents |-> parents(range[i])]]
    BY Zenon DEF Queue
  <1> HIDE DEF range, queue, n
  <1>5. ASSUME NEW c \in 1..n
        PROVE  /\ kind(c) \in {"pick", "omit", "merge"} /\ (kind(c) = "merge" => IsMerge(c))
               /\ action(c) \in {"replay", "reword", "edit", "omit", "review", "absorbed"}
    <2>1. objs[c].of \in Change \cup {None}
      BY <1>5 DEF Lineage, Fit, Commit, n
    <2>2. \A x \in Change : program.action[x] \in {"replay", "reword", "edit", "absorbed"}
      BY DEF Program
    <2>3. Action(onto, program, c) \in {"replay", "reword", "edit", "omit", "review", "absorbed"}
      BY <2>1, <2>2 DEF Action
    <2>4. QED
      BY <2>3 DEF Kind
  <1>6. ASSUME NEW c \in 1..n
        PROVE  absorbs(c) \in Seq(Nat) /\ \A k \in 1..Len(absorbs(c)) : absorbs(c)[k] \in 1..n
    <2> DEFINE D == {d \in In : ~IsMerge(d) /\ Action(onto, program, d) = "absorbed"}
    <2> HIDE DEF D
    <2>1. absorbs(c) = InOrder(D) \/ absorbs(c) = <<>>
      BY DEF D
    <2>2. InOrder(D) \in Seq(1..n) /\ <<>> \in Seq(1..n)
      <3>1. Ordered(InOrder(D), D \cap 1..n)
        BY <1>1, InOrderTrue DEF n
      <3>2. QED
        BY <3>1, SeqWidens, EmptySeq DEF Ordered
    <2> HIDE DEF absorbs
    <2>3. absorbs(c) \in Seq(1..n)
      BY <2>1, <2>2
    <2>4. 1..n \subseteq Nat
      BY <1>1
    <2>5. QED
      BY <2>3, <2>4, SeqWidens, LenProperties
  <1>7. ASSUME NEW c \in 1..n
        PROVE  /\ parents(c) \in Seq(Nat) /\ Len(parents(c)) >= 1 /\ (IsMerge(c) => Len(parents(c)) = 2)
               /\ \A k \in 1..Len(parents(c)) : parents(c)[k] = NoCommit \/ (parents(c)[k] \in In /\ parents(c)[k] < c)
    <2> DEFINE P == objs[c].parents
    <2>1. P \in Seq(1..(c - 1)) /\ Len(P) \in Nat /\ (IsMerge(c) <=> Len(P) = 2)
      <3>1. P \in Seq(1..(c - 1))
        BY <1>7 DEF Lineage, Fit, n
      <3>2. QED
        BY <3>1, LenProperties DEF IsMerge
    <2>2. \A k \in 1..Len(P) : P[k] \in 1..(c - 1)
      BY <2>1, LenProperties
    <2>3. CASE P = <<>>
      <3>1. parents(c) = <<NoCommit>> /\ Len(P) = 0
        BY <2>3
      <3>2. <<NoCommit>> \in Seq(Nat) /\ Len(<<NoCommit>>) = 1 /\ <<NoCommit>>[1] = NoCommit
        BY DEF NoCommit
      <3> HIDE DEF parents, P
      <3>3. QED
        BY <2>1, <3>1, <3>2
    <2>4. CASE P # <<>>
      <3> DEFINE f == [k \in 1..Len(P) |-> IF P[k] \in In THEN P[k] ELSE NoCommit]
      <3>1. parents(c) = f
        BY <2>4
      <3>2. Len(P) # 0
        BY <2>1, <2>4, EmptySeq
      <3> HIDE DEF In, P
      <3>3. \A k \in 1..Len(P) : f[k] \in Nat /\ (f[k] = NoCommit \/ (f[k] \in In /\ f[k] < c))
        BY <1>1, <2>2 DEF NoCommit
      <3>4. f \in [1..Len(P) -> Nat]
        BY <3>3
      <3> HIDE DEF f, parents
      <3>5. f \in Seq(Nat) /\ Len(f) = Len(P)
        BY <2>1, <3>4, FunctionSeq
      <3>6. QED
        BY <2>1, <3>1, <3>2, <3>3, <3>5
    <2>5. QED
      BY <2>3, <2>4
  <1> HIDE DEF kind, action, absorbs, parents
  <1>8. \A i \in 1..Len(range) : /\ queue[i].kind = kind(range[i]) /\ queue[i].commit = range[i]
                                 /\ queue[i].absorbs = absorbs(range[i]) /\ queue[i].parents = parents(range[i])
    BY <1>4
  <1>9. queue \in Seq(Step) /\ Len(queue) = Len(range)
    <2>1. \A c \in 1..n : [kind |-> kind(c), commit |-> c, action |-> action(c), absorbs |-> absorbs(c),
                           parents |-> parents(c)] \in Step
      <3> TAKE c \in 1..n
      <3>1. c \in Nat
        BY <1>1
      <3>2. kind(c) \in {"pick", "omit", "merge"}
        BY <1>5
      <3>3. action(c) \in {"replay", "reword", "edit", "omit", "review", "absorbed"}
        BY <1>5
      <3>4. absorbs(c) \in Seq(Nat) /\ parents(c) \in Seq(Nat)
        BY <1>6, <1>7
      <3>5. QED
        BY <3>1, <3>2, <3>3, <3>4, Zenon DEF Step
    <2>2. queue \in [1..Len(range) -> Step]
      BY <1>3, <1>4, <2>1
    <2>3. QED
      BY <1>2, <2>2, FunctionSeq
  <1>10. ASSUME NEW i \in 1..Len(range), NEW k \in 1..Len(parents(range[i])), parents(range[i])[k] # NoCommit
         PROVE  \E j \in 1..(i - 1) : queue[j].commit = parents(range[i])[k]
    <2>1. PICK j \in 1..Len(range) : parents(range[i])[k] = range[j]
      BY <1>3, <1>7, <1>10
    <2>2. range[j] < range[i]
      BY <1>3, <1>7, <1>10, <2>1
    <2>3. j < i
      <3>1. i \in Nat /\ j \in Nat /\ range[i] \in Nat /\ range[j] \in Nat
        BY <1>1, <1>2, <1>3
      <3>2. ~(i < j) /\ i # j
        BY <1>2, <2>2, <3>1
      <3>3. QED
        BY <3>1, <3>2
    <2>4. j \in 1..(i - 1)
      BY <1>2, <2>3
    <2>5. QED
      BY <1>8, <2>1, <2>4
  <1>11. ASSUME NEW i \in 1..Len(queue)
         PROVE  /\ queue[i].commit \in 1..n /\ Len(queue[i].parents) >= 1
                /\ queue[i].kind = "merge" => Len(queue[i].parents) = 2
                /\ \A k \in 1..Len(queue[i].parents) :
                      queue[i].parents[k] = NoCommit \/ \E j \in 1..(i - 1) : queue[j].commit = queue[i].parents[k]
                /\ \A k \in 1..Len(queue[i].absorbs) : queue[i].absorbs[k] \in 1..n
    <2>1. i \in 1..Len(range) /\ range[i] \in 1..n
      BY <1>3, <1>9
    <2>2. QED
      BY <1>5, <1>6, <1>7, <1>8, <1>10, <2>1
  <1>12. QED
    BY <1>9, <1>11, Zenon DEF Planned, queue, n

(* What is published, and in which order, whatever the receipt.            *)
Chain(o, r) ==
    [i \in 1..Len(o.applied) |-> [type |-> "application", op |-> o.id, app |-> o.applied[i]]]
    \o [i \in 1..Len(o.amendments) |-> [type |-> "amendment", op |-> o.id, of |-> o.amendments[i].of,
            commit |-> o.amendments[i].commit, origin |-> o.amendments[i].origin]]
    \o [i \in 1..Len(o.absorptions) |-> [type |-> "absorption", op |-> o.id,
            survivor |-> o.absorptions[i].survivor, absorbed |-> o.absorptions[i].absorbed]]
    \o <<r>>

LEMMA ChainMade ==
    ASSUME NEW o, Sound(o), NEW r, r.op = o.id
    PROVE  LET p == Chain(o, r) IN
           /\ Len(p) \in Nat /\ Len(o.applied) \in Nat /\ Len(p) > Len(o.applied)
           /\ p[Len(p)] = r
           /\ \A i \in 1..Len(o.applied) :
                 p[i] = [type |-> "application", op |-> o.id, app |-> o.applied[i]]
           /\ \A i \in 1..Len(p) : p[i].op = o.id
           /\ \A i \in 1..Len(p) : i # Len(p) => p[i].type # "rebase"
           /\ \A j \in 1..Len(o.amendments) : \E i \in 1..Len(p) : i # Len(p) /\ p[i] =
                 [type |-> "amendment", op |-> o.id, of |-> o.amendments[j].of,
                  commit |-> o.amendments[j].commit, origin |-> o.amendments[j].origin]
           /\ \A j \in 1..Len(o.absorptions) : \E i \in 1..Len(p) : i # Len(p) /\ p[i] =
                 [type |-> "absorption", op |-> o.id, survivor |-> o.absorptions[j].survivor,
                  absorbed |-> o.absorptions[j].absorbed]
  <1> DEFINE A == [i \in 1..Len(o.applied) |-> [type |-> "application", op |-> o.id, app |-> o.applied[i]]]
             M == [i \in 1..Len(o.amendments) |-> [type |-> "amendment", op |-> o.id,
                      of |-> o.amendments[i].of, commit |-> o.amendments[i].commit,
                      origin |-> o.amendments[i].origin]]
             B == [i \in 1..Len(o.absorptions) |-> [type |-> "absorption", op |-> o.id,
                      survivor |-> o.absorptions[i].survivor, absorbed |-> o.absorptions[i].absorbed]]
             R == <<r>>
             S == {A[i] : i \in 1..Len(o.applied)} \cup {M[i] : i \in 1..Len(o.amendments)}
                  \cup {B[i] : i \in 1..Len(o.absorptions)} \cup {r}
  <1>1. Len(o.applied) \in Nat /\ Len(o.amendments) \in Nat /\ Len(o.absorptions) \in Nat
    BY StrungTrue DEF Sound
  <1>2. Chain(o, r) = A \o M \o B \o R
    BY DEF Chain
  <1>3. /\ \A i \in 1..Len(o.applied) : A[i].op = o.id /\ A[i].type # "rebase"
        /\ \A i \in 1..Len(o.amendments) : M[i].op = o.id /\ M[i].type # "rebase"
        /\ \A i \in 1..Len(o.absorptions) : B[i].op = o.id /\ B[i].type # "rebase"
    OBVIOUS
  <1>4. A \in Seq(S) /\ Len(A) = Len(o.applied)
    <2>1. A \in [1..Len(o.applied) -> S]
      OBVIOUS
    <2> HIDE DEF A, S
    <2>2. QED
      BY <1>1, <2>1, FunctionSeq
  <1>5. M \in Seq(S) /\ Len(M) = Len(o.amendments)
    <2>1. M \in [1..Len(o.amendments) -> S]
      OBVIOUS
    <2> HIDE DEF M, S
    <2>2. QED
      BY <1>1, <2>1, FunctionSeq
  <1>6. B \in Seq(S) /\ Len(B) = Len(o.absorptions)
    <2>1. B \in [1..Len(o.absorptions) -> S]
      OBVIOUS
    <2> HIDE DEF B, S
    <2>2. QED
      BY <1>1, <2>1, FunctionSeq
  <1>7. R \in Seq(S) /\ Len(R) = 1 /\ R[1] = r
    OBVIOUS
  <1>8. \A i \in 1..Len(o.applied) : A[i] = [type |-> "application", op |-> o.id, app |-> o.applied[i]]
    OBVIOUS
  <1> DEFINE AmendmentOf(j) == [type |-> "amendment", op |-> o.id, of |-> o.amendments[j].of,
                                commit |-> o.amendments[j].commit, origin |-> o.amendments[j].origin]
             AbsorptionOf(j) == [type |-> "absorption", op |-> o.id, survivor |-> o.absorptions[j].survivor,
                                 absorbed |-> o.absorptions[j].absorbed]
  <1>9. /\ \A j \in 1..Len(o.amendments) : M[j] = AmendmentOf(j)
        /\ \A j \in 1..Len(o.absorptions) : B[j] = AbsorptionOf(j)
    OBVIOUS
  <1> HIDE DEF A, M, B, R, S, AmendmentOf, AbsorptionOf
  <1>10. /\ A \o M \in Seq(S) /\ Len(A \o M) = Len(A) + Len(M)
         /\ \A i \in 1..(Len(A) + Len(M)) : (A \o M)[i] = IF i <= Len(A) THEN A[i] ELSE M[i - Len(A)]
    BY <1>4, <1>5, ConcatProperties
  <1> DEFINE AM == A \o M
  <1> HIDE DEF AM
  <1>11. AM \in Seq(S) /\ Len(AM) = Len(A) + Len(M)
         /\ \A i \in 1..(Len(A) + Len(M)) : AM[i] = IF i <= Len(A) THEN A[i] ELSE M[i - Len(A)]
    BY <1>10 DEF AM
  <1>12. /\ AM \o B \in Seq(S) /\ Len(AM \o B) = Len(AM) + Len(B)
         /\ \A i \in 1..(Len(AM) + Len(B)) : (AM \o B)[i] = IF i <= Len(AM) THEN AM[i] ELSE B[i - Len(AM)]
    <2>1. AM \in Seq(S) /\ B \in Seq(S)
      BY <1>6, <1>11
    <2>2. QED
      BY <2>1, ConcatProperties
  <1> DEFINE AMB == AM \o B
  <1> HIDE DEF AMB
  <1>13. AMB \in Seq(S) /\ Len(AMB) = Len(AM) + Len(B)
         /\ \A i \in 1..(Len(AM) + Len(B)) : AMB[i] = IF i <= Len(AM) THEN AM[i] ELSE B[i - Len(AM)]
    BY <1>12 DEF AMB
  <1>14. /\ Len(AMB \o R) = Len(AMB) + Len(R)
         /\ \A i \in 1..(Len(AMB) + Len(R)) : (AMB \o R)[i] = IF i <= Len(AMB) THEN AMB[i] ELSE R[i - Len(AMB)]
    <2>1. AMB \in Seq(S) /\ R \in Seq(S)
      BY <1>7, <1>13
    <2>2. QED
      BY <2>1, ConcatProperties
  <1> DEFINE P == AMB \o R
  <1>15. Chain(o, r) = P
    BY <1>2 DEF P, AMB, AM
  <1>16. /\ Len(P) = Len(AMB) + 1
         /\ \A i \in 1..(Len(AMB) + 1) : P[i] = IF i <= Len(AMB) THEN AMB[i] ELSE R[i - Len(AMB)]
    BY <1>7, <1>14
  <1> HIDE DEF P
  <1> DEFINE a == Len(o.applied)
             m == Len(o.amendments)
             b == Len(o.absorptions)
  <1>17. /\ Len(A) = a /\ Len(AM) = a + m /\ Len(AMB) = a + m + b /\ Len(P) = a + m + b + 1
         /\ a \in Nat /\ m \in Nat /\ b \in Nat
    BY <1>1, <1>4, <1>5, <1>6, <1>11, <1>13, <1>16
  <1> HIDE DEF a, m, b
  <1>18. ASSUME NEW i \in 1..Len(P)
         PROVE  \/ i <= a /\ P[i] = A[i]
                \/ i > a /\ i <= a + m /\ P[i] = M[i - a] /\ i - a \in 1..m
                \/ i > a + m /\ i <= a + m + b /\ P[i] = B[i - (a + m)] /\ i - (a + m) \in 1..b
                \/ i = a + m + b + 1 /\ P[i] = R[1]
    <2>1. CASE i = a + m + b + 1
      <3>1. i - Len(AMB) = 1 /\ ~(i <= Len(AMB)) /\ i \in 1..(Len(AMB) + 1)
        BY <1>17, <2>1
      <3>2. QED
        BY <1>16, <2>1, <3>1
    <2>2. CASE i # a + m + b + 1
      <3>1. i <= Len(AMB) /\ i \in 1..(Len(AMB) + 1) /\ i \in 1..(Len(AM) + Len(B))
        <4>1. i \in 1..(a + m + b + 1) /\ i # a + m + b + 1
          BY <1>17, <2>2
        <4>2. i <= a + m + b /\ i \in 1..(a + m + b + 1) /\ i \in 1..(a + m + b)
          BY <1>17, <4>1
        <4>3. Len(AM) + Len(B) = a + m + b /\ Len(AMB) = a + m + b
          BY <1>6, <1>17 DEF b
        <4>4. QED
          BY <4>2, <4>3
      <3>2. P[i] = IF i <= Len(AM) THEN AM[i] ELSE B[i - Len(AM)]
        BY <1>13, <1>16, <3>1
      <3>3. CASE i > a + m
        <4>1. i - (a + m) \in 1..b /\ i <= a + m + b /\ ~(i <= Len(AM))
          BY <1>17, <2>2, <3>3
        <4>2. P[i] = B[i - (a + m)]
          BY <1>17, <3>2, <4>1
        <4>3. QED
          BY <3>3, <4>1, <4>2
      <3>4. CASE i <= a + m
        <4>1. i <= Len(AM) /\ i \in 1..(Len(A) + Len(M))
          BY <1>11, <1>17, <3>4
        <4>2. P[i] = IF i <= Len(A) THEN A[i] ELSE M[i - Len(A)]
          BY <1>11, <3>2, <4>1
        <4>3. QED
          BY <1>17, <3>4, <4>2
      <3>5. QED
        BY <1>17, <3>3, <3>4
    <2>3. QED
      BY <2>1, <2>2
  <1>19. P[Len(P)] = r
    <2>1. Len(P) \in 1..Len(P) /\ ~(Len(P) <= a) /\ ~(Len(P) <= a + m) /\ ~(Len(P) <= a + m + b)
      BY <1>17
    <2>2. QED
      BY <1>7, <1>18, <2>1
  <1>20. ASSUME NEW i \in 1..a PROVE P[i] = A[i]
    <2>1. i \in 1..Len(P) /\ ~(i > a) /\ ~(i > a + m) /\ i # a + m + b + 1
      BY <1>17
    <2>2. QED
      BY <1>18, <2>1
  <1>21. ASSUME NEW i \in 1..Len(P) PROVE P[i].op = o.id /\ (i # Len(P) => P[i].type # "rebase")
    <2>1. i <= a => i \in 1..a
      BY <1>17
    <2>2. QED
      BY <1>3, <1>7, <1>17, <1>18, <2>1 DEF a, m, b
  <1>22. ASSUME NEW j \in 1..Len(o.amendments)
         PROVE  \E i \in 1..Len(P) : i # Len(P) /\ P[i] = AmendmentOf(j)
    <2>1. j \in 1..m /\ a + j \in 1..Len(P) /\ a + j # Len(P) /\ ~(a + j <= a) /\ a + j <= a + m
          /\ a + j # a + m + b + 1 /\ (a + j) - a = j
      BY <1>17 DEF m
    <2>2. P[a + j] = M[j]
      BY <1>17, <1>18, <2>1
    <2>3. QED
      BY <1>9, <2>1, <2>2
  <1>23. ASSUME NEW j \in 1..Len(o.absorptions)
         PROVE  \E i \in 1..Len(P) : i # Len(P) /\ P[i] = AbsorptionOf(j)
    <2>1. j \in 1..b
      BY DEF b
    <2> DEFINE k == (a + m) + j
    <2>2. /\ k \in 1..Len(P) /\ k # Len(P) /\ ~(k <= a) /\ ~(k <= a + m) /\ k # a + m + b + 1
          /\ k - (a + m) = j
      BY <1>17, <2>1
    <2> HIDE DEF k
    <2>3. P[k] = B[j]
      BY <1>17, <1>18, <2>2
    <2>4. QED
      BY <1>9, <2>1, <2>2, <2>3
  <1>24. Len(P) \in Nat /\ Len(P) > a
    BY <1>17
  <1>25. QED
    BY <1>8, <1>15, <1>19, <1>20, <1>21, <1>24, <1>22, <1>23 DEF a, AmendmentOf, AbsorptionOf

LEMMA ChainTrue ==
    ASSUME NEW o, Sound(o), NEW r, r.op = o.id
    PROVE  LET p == Chain(o, r) IN
           /\ Len(p) \in Nat /\ Len(o.applied) \in Nat /\ Len(p) > Len(o.applied)
           /\ p[Len(p)] = r
           /\ \A i \in 1..Len(o.applied) :
                 p[i] = [type |-> "application", op |-> o.id, app |-> o.applied[i]]
           /\ \A i \in 1..Len(p) : p[i].op = o.id
           /\ \A i \in 1..Len(p) : i # Len(p) => p[i].type # "rebase"
  BY ChainMade

LEMMA PublicationChain ==
    ASSUME NEW o
    PROVE  Publication(o) = Chain(o, Receipt(o)) /\ Receipt(o).op = o.id /\ Receipt(o).type = "rebase"
           /\ Receipt(o).applied = o.applied
  BY DEF Publication, Chain, Receipt

-----------------------------------------------------------------------------

(* What each action writes.                                                *)

Kept(o, p) == Sound(p) /\ Same(o, p) /\ p.next = o.next

(* An operation as an EXCEPT leaves it.                                    *)
LEMMA KeptByFields ==
    ASSUME NEW o, Sound(o), NEW p, Shaped(p), Same(o, p), p.next = o.next,
           p.applied = o.applied, p.absorptions = o.absorptions,
           p.amendments = o.amendments \/ \E e : p.amendments = Append(o.amendments, e)
    PROVE  Kept(o, p)
  <1>1. Strung(p.amendments)
    <2>1. \A e : Strung(Append(o.amendments, e))
      BY StrungAppend DEF Sound
    <2>2. QED
      BY <2>1 DEF Sound
  <1>2. QED
    BY <1>1 DEF Sound, Kept, Same

LEMMA Blocks ==
    ASSUME NEW o, Sound(o), NEW p, NEW v, p = [o EXCEPT !.state = v]
    PROVE  Kept(o, p) /\ p.state = v
  <1>1. Shaped(p) /\ Same(o, p) /\ p.next = o.next /\ p.applied = o.applied /\ p.state = v
        /\ p.absorptions = o.absorptions /\ p.amendments = o.amendments
    BY DEF Sound, Shaped, Same
  <1>2. QED
    BY <1>1, KeptByFields

LEMMA Remembers ==
    ASSUME NEW o, Sound(o), NEW p, NEW v, NEW c, p = [o EXCEPT !.state = v, !.current = c]
    PROVE  Kept(o, p) /\ p.state = v
  <1>1. Shaped(p) /\ Same(o, p) /\ p.next = o.next /\ p.applied = o.applied /\ p.state = v
        /\ p.absorptions = o.absorptions /\ p.amendments = o.amendments
    BY DEF Sound, Shaped, Same
  <1>2. QED
    BY <1>1, KeptByFields

LEMMA Updates ==
    ASSUME NEW o, Sound(o)
    PROVE  /\ \A p : p = [o EXCEPT !.current.cursor = 1] => Kept(o, p) /\ p.state = o.state
           /\ \A p : p = [o EXCEPT !.current.cursor = @ + 1] => Kept(o, p) /\ p.state = o.state
           /\ \A p, fork : p = [o EXCEPT !.current.fork = @ \/ fork] => Kept(o, p) /\ p.state = o.state
           /\ \A p : p = [o EXCEPT !.current.cursor = @ + 1, !.state = "applying"] =>
                        Kept(o, p) /\ p.state = "applying"
           /\ \A p : p = [o EXCEPT !.state = "conflicted", !.current.conflicted = TRUE] => Kept(o, p)
           /\ \A p, t, v : p = [o EXCEPT !.current.treeBefore = t, !.state = v] => Kept(o, p)
           /\ \A p : p = [o EXCEPT !.remat = TRUE] => Kept(o, p) /\ p.state = o.state
           /\ \A p : p = [o EXCEPT !.remat = TRUE, !.state = "blocked"] => Kept(o, p) /\ p.state = "blocked"
           /\ \A p, e : p = [o EXCEPT !.amendments = Append(@, e)] => Kept(o, p) /\ p.state = o.state
  <1> DEFINE Whole(p) == /\ Shaped(p) /\ Same(o, p) /\ p.next = o.next /\ p.applied = o.applied
                         /\ p.absorptions = o.absorptions /\ p.amendments = o.amendments
  <1>1. \A p : Whole(p) => Kept(o, p)
    BY KeptByFields
  <1>2. ASSUME NEW p, p = [o EXCEPT !.current.cursor = 1] PROVE Whole(p) /\ p.state = o.state
    BY <1>2 DEF Sound, Shaped, Same
  <1>3. ASSUME NEW p, p = [o EXCEPT !.current.cursor = @ + 1] PROVE Whole(p) /\ p.state = o.state
    BY <1>3 DEF Sound, Shaped, Same
  <1>4. ASSUME NEW p, NEW fork, p = [o EXCEPT !.current.fork = @ \/ fork] PROVE Whole(p) /\ p.state = o.state
    BY <1>4 DEF Sound, Shaped, Same
  <1>5. ASSUME NEW p, p = [o EXCEPT !.current.cursor = @ + 1, !.state = "applying"]
        PROVE  Whole(p) /\ p.state = "applying"
    BY <1>5 DEF Sound, Shaped, Same
  <1>6. ASSUME NEW p, p = [o EXCEPT !.state = "conflicted", !.current.conflicted = TRUE] PROVE Whole(p)
    BY <1>6 DEF Sound, Shaped, Same
  <1>7. ASSUME NEW p, NEW t, NEW v, p = [o EXCEPT !.current.treeBefore = t, !.state = v] PROVE Whole(p)
    BY <1>7 DEF Sound, Shaped, Same
  <1>8. ASSUME NEW p, p = [o EXCEPT !.remat = TRUE] PROVE Whole(p) /\ p.state = o.state
    BY <1>8 DEF Sound, Shaped, Same
  <1>9. ASSUME NEW p, p = [o EXCEPT !.remat = TRUE, !.state = "blocked"] PROVE Whole(p) /\ p.state = "blocked"
    BY <1>9 DEF Sound, Shaped, Same
  <1>10. ASSUME NEW p, NEW e, p = [o EXCEPT !.amendments = Append(@, e)] PROVE Kept(o, p) /\ p.state = o.state
    <2>1. Shaped(p) /\ Same(o, p) /\ p.next = o.next /\ p.applied = o.applied /\ p.state = o.state
          /\ p.absorptions = o.absorptions /\ p.amendments = Append(o.amendments, e)
      BY <1>10 DEF Sound, Shaped, Same
    <2>2. QED
      BY <2>1, KeptByFields
  <1> HIDE DEF Whole
  <1>11. QED
    BY <1>1, <1>2, <1>3, <1>4, <1>5, <1>6, <1>7, <1>8, <1>9, <1>10

(* A step of the queue that is done.                                       *)
LEMMA Completes ==
    ASSUME NEW o, Sound(o), NEW p, NEW c, NEW before, NEW joins,
           \/ p = [o EXCEPT !.rewritten[c] = before, !.next = @ + 1] /\ o.state = "applying"
           \/ p = [o EXCEPT !.joins = joins, !.rewritten[c] = before, !.next = @ + 1,
                            !.current = NoCurrent, !.state = "applying"]
    PROVE  Sound(p) /\ Same(o, p) /\ p.next = o.next + 1 /\ p.state = "applying"
  <1>1. Shaped(p) /\ Same(o, p) /\ p.next = o.next + 1 /\ p.applied = o.applied /\ p.state = "applying"
        /\ p.absorptions = o.absorptions /\ p.amendments = o.amendments
    BY DEF Sound, Shaped, Same
  <1>2. QED
    BY <1>1 DEF Sound, Same

LEMMA CompletesRecorded ==
    ASSUME NEW o, Sound(o)
    PROVE  LET p == Recorded(o) IN
           Sound(p) /\ Same(o, p) /\ p.next = o.next + 1 /\ p.state = "applying"
  <1> DEFINE app == [origin |-> o.current.commit, commit |-> HEAD, fork |-> o.current.fork]
             ab == [survivor |-> HEAD, absorbed |-> Elements(o.queue[o.next].absorbs)]
             abs == IF o.current.cursor = 0 THEN o.absorptions ELSE Append(o.absorptions, ab)
  <1>1. Recorded(o) = [o EXCEPT !.applied = Append(@, app), !.absorptions = abs,
                                !.rewritten[o.current.commit] = HEAD,
                                !.next = @ + 1, !.current = NoCurrent, !.state = "applying"]
    BY Zenon DEF Recorded
  <1>2. abs = o.absorptions \/ abs = Append(o.absorptions, ab)
    OBVIOUS
  <1>3. Strung(Append(o.applied, app)) /\ Strung(Append(o.absorptions, ab))
    BY StrungAppend DEF Sound
  <1> DEFINE p == Recorded(o)
  <1> HIDE DEF app, ab, abs
  <1>4. /\ Shaped(p) /\ Same(o, p) /\ p.next = o.next + 1 /\ p.state = "applying"
        /\ p.applied = Append(o.applied, app) /\ p.amendments = o.amendments /\ p.absorptions = abs
    BY <1>1 DEF Sound, Shaped, Same
  <1> HIDE DEF p
  <1>5. Strung(p.absorptions)
    BY <1>2, <1>3, <1>4 DEF Sound
  <1>6. Sound(p) /\ Same(o, p) /\ p.next = o.next + 1 /\ p.state = "applying"
    BY <1>3, <1>4, <1>5 DEF Sound, Same
  <1>7. QED
    BY <1>6 DEF p

-----------------------------------------------------------------------------

(* A running command takes the operation on.                               *)

Onward == Starting \cup Stepping \cup Moving \cup {"verify", "materialize", "remat"}

LEMMA GoesOn ==
    ASSUME RebaseIInv, pc # "idle", UNCHANGED <<notes, forecast, ops>>, nextNote' \in Nat,
           Sound(op'), Sound(journal'), Same(journal, journal'), pc' # "idle" => Same(op, op'),
           journal'.next = journal.next \/ Unpublished(op.id),
           pc' \in Onward => Unpublished(op.id),
           pc' \in {"materialize", "remat", "publish"} => nextNote' = 1,
           Journaled'
    PROVE  RebaseIInv'
  <1>1. Pending /\ Same(journal, op) /\ journal.id \in 1..ops
    BY DEF RebaseIInv, Journaled
  <1>2. ops \in Nat /\ Pending'
    <2>1. journal'.id # 0
      BY <1>1 DEF Same, RebaseIInv, RebaseKinds
    <2>2. QED
      BY <2>1 DEF Pending, NoOperation, RebaseIInv, RebaseKinds
  <1>3. RebaseKinds'
    BY DEF RebaseIInv, RebaseKinds
  <1>4. ForecastTrue'
    BY <1>1 DEF RebaseIInv, ForecastTrue, Same
  <1>5. Published' = Published /\ op.id = journal.id
    BY <1>1 DEF Published, Same
  <1>6. Unpublished(journal.id) \/ journal.next > Len(journal.queue)
    BY <1>1 DEF RebaseIInv, PublishingTrue, RebaseKinds, Sound
  <1>7. \A id : Unpublished(id)' <=> Unpublished(id)
    BY <1>5 DEF Unpublished
  <1>8. PublishedWhole'
    BY <1>1, <1>2, <1>5, <1>6 DEF RebaseIInv, PublishedWhole, Same, Unpublished, Published
  <1>9. PublishingTrue'
    <2>1. (\A n \in Published : n.op \in 1..ops)'
      BY <1>5 DEF RebaseIInv, PublishingTrue
    <2>2. journal'.next <= Len(journal'.queue) => Unpublished(journal.id)'
      <3>1. journal'.id = journal.id /\ journal'.queue = journal.queue
        BY DEF Same
      <3>2. journal.next > Len(journal.queue) => ~(journal.next <= Len(journal.queue))
        BY DEF RebaseIInv, RebaseKinds, Sound
      <3>3. journal'.next <= Len(journal'.queue) => Unpublished(journal.id)
        BY <1>5, <1>6, <3>1, <3>2
      <3>4. Unpublished(journal.id)' <=> \A n \in Published : n.op # journal.id
        BY <1>5, <3>1 DEF Unpublished
      <3>5. QED
        BY <3>3, <3>4 DEF Unpublished
    <2>3. pc' \in Onward => Unpublished(op.id)'
      <3>1. pc' \in Onward => op'.id = op.id
        BY DEF Same, Onward, Starting, Stepping, Moving
      <3>2. Unpublished(op.id)' <=> \A n \in Published : n.op # op'.id
        BY <1>5 DEF Unpublished
      <3>3. QED
        BY <3>1, <3>2 DEF Unpublished
    <2>4. pc' = "publish" => nextNote' \in 1..Len(Publication(op)')
                             /\ \A i \in 1..Len(op'.applied) : ~(i < nextNote')
      <3>1. Publication(op)' = Chain(op', Receipt(op)') /\ Receipt(op)'.op = op'.id
        BY DEF Publication, Chain, Receipt
      <3>2. Len(Publication(op)') \in Nat /\ Len(Publication(op)') > Len(op'.applied) /\ Len(op'.applied) \in Nat
        BY <3>1, ChainTrue
      <3>3. QED
        BY <3>2
    <2>5. (pc \in {"materialize", "remat"} => nextNote = 1)'
      OBVIOUS
    <2>6. (pc = "publish" =>
             /\ nextNote \in 1..Len(Publication(op))
             /\ \A i \in 1..Len(op.applied) : i < nextNote => Publication(op)[i] \in Published)'
      BY <2>4
    <2>7. QED
      BY <2>1, <2>2, <2>3, <2>5, <2>6 DEF PublishingTrue, Onward
  <1>10. QED
    BY <1>3, <1>4, <1>8, <1>9 DEF RebaseIInv

LEMMA Runs ==
    ASSUME RebaseIInv, pc # "idle"
    PROVE  /\ Pending /\ Same(journal, op) /\ journal.id \in 1..ops
           /\ Sound(op) /\ Sound(journal) /\ nextNote \in Nat
           /\ op.next \in Nat /\ Len(op.queue) \in Nat
           /\ pc \in Onward => Unpublished(op.id)
           /\ journal.state \notin {"applying", "blocked"} => journal.next <= Len(journal.queue)
           /\ pc \in Starting \cup Finishing \cup Undoing => journal = op
           /\ pc \in Starting \cup Moving \cup Finishing => op.state = "applying"
           /\ pc \in Stepping => op.next <= Len(op.queue)
           /\ pc \in Finishing => op.next > Len(op.queue)
           /\ pc \in {"materialize", "remat"} => nextNote = 1
  BY DEF RebaseIInv, RebaseKinds, Journaled, PublishingTrue, Sound, Onward

(* Within a step the command's own memory moves on.                        *)
LEMMA StepMoves ==
    ASSUME RebaseIInv, pc \in Stepping, pc' \in Stepping, Kept(op, op'),
           UNCHANGED <<notes, forecast, ops, nextNote, journal>>
    PROVE  RebaseIInv'
  <1> USE DEF Starting, Stepping, Moving, Sharing, Finishing, Undoing
  <1>1. pc # "idle" /\ pc \in Onward
    BY DEF Onward
  <1>2. Journaled'
    BY <1>1, Runs DEF Journaled, Kept, Same, Pending
  <1>3. QED
    BY <1>1, <1>2, Runs, GoesOn DEF Kept, Same

(* A step that is journaled as it begins or goes on.                       *)
LEMMA StepWrites ==
    ASSUME RebaseIInv, pc \in Onward, op.next <= Len(op.queue), pc' \in Stepping, Kept(op, op'),
           journal' = op' \/ (journal' = op /\ op' = op),
           UNCHANGED <<notes, forecast, ops, nextNote>>
    PROVE  RebaseIInv'
  <1> USE DEF Starting, Stepping, Moving, Sharing, Finishing, Undoing
  <1>1. pc # "idle" /\ journal' = op'
    BY DEF Onward
  <1>2. Pending'
    <2>1. journal'.id # 0
      BY <1>1, Runs DEF Kept, Same, RebaseIInv, RebaseKinds
    <2>2. QED
      BY <2>1 DEF Pending, NoOperation
  <1>3. Journaled'
    BY <1>1, <1>2, Runs DEF Journaled, Kept, Same
  <1>4. QED
    BY <1>1, <1>3, Runs, GoesOn DEF Kept, Same, Onward

(* A step is done, and the journal learns of it after its anchor.          *)
LEMMA StepEnds ==
    ASSUME RebaseIInv, pc \in Stepping \cup {"queue"}, pc' \in Moving, Sound(op'), Same(op, op'),
           op'.state = "applying", UNCHANGED <<notes, forecast, ops, nextNote, journal>>
    PROVE  RebaseIInv'
  <1> USE DEF Starting, Stepping, Moving, Sharing, Finishing, Undoing
  <1>1. pc # "idle" /\ pc \in Onward
    BY DEF Onward
  <1>2. Journaled'
    BY <1>1, Runs DEF Journaled, Same, Pending
  <1>3. QED
    BY <1>1, <1>2, Runs, GoesOn DEF Same

(* A command ends, with the journal as it is or with what stopped it.      *)
LEMMA CommandStops ==
    ASSUME RebaseIInv, pc # "idle", Stop, UNCHANGED <<notes, forecast, ops>>,
           \/ journal' = journal
           \/ /\ pc \in Onward /\ Kept(op, journal')
              /\ journal'.state \in {"applying", "blocked"} \/ journal'.next <= Len(journal'.queue)
    PROVE  RebaseIInv'
  <1> USE DEF Starting, Stepping, Moving, Sharing, Finishing, Undoing
  <1>1. pc' = "idle" /\ op' = NoOperation /\ nextNote' = 0
    BY DEF Stop, Go
  <1>2. Sound(NoOperation)
    BY StrungEmpty DEF Sound, Shaped, NoOperation
  <1>3. Sound(journal') /\ Same(journal, journal')
    BY Runs DEF Kept, Same
  <1>4. Pending'
    <2>1. journal'.id # 0
      BY <1>3, Runs DEF Same, RebaseIInv, RebaseKinds
    <2>2. QED
      BY <2>1 DEF Pending, NoOperation
  <1>5. Journaled'
    BY <1>1, <1>3, <1>4, Runs DEF Journaled, Same
  <1>6. QED
    BY <1>1, <1>2, <1>3, <1>5, Runs, GoesOn DEF Onward, Kept

LEMMA StepsMove ==
    ASSUME RebaseIInv,
           \/ PickApplies \/ PickConflicts \/ StepBlocked \/ MergeApplies \/ MergeConflicts \/ MergeJoinsNothing
           \/ ContinuePick \/ CommitJoin \/ AbsorbApplies \/ AbsorbConflicts \/ AbsorbBlocked \/ Meld
           \/ FinishStep \/ RewordStep \/ EditStep
    PROVE  RebaseIInv'
  <1> USE DEF Works, Thinks, Go
  <1>0. pc # "idle" /\ Sound(op)
    BY DEF PickApplies, PickConflicts, StepBlocked, MergeApplies, MergeConflicts, MergeJoinsNothing,
           ContinuePick, CommitJoin, AbsorbApplies, AbsorbConflicts, AbsorbBlocked, Meld,
           FinishStep, RewordStep, EditStep, RebaseIInv, RebaseKinds
  <1>1. Kept(op, op)
    BY <1>0 DEF Kept, Same
  <1>2. ASSUME NEW v, op' = [op EXCEPT !.state = v] PROVE Kept(op, op')
    BY <1>0, <1>2, Blocks
  <1>3. ASSUME op' = [op EXCEPT !.state = "conflicted", !.current.conflicted = TRUE] PROVE Kept(op, op')
    BY <1>0, <1>3, Updates
  <1>4. CASE PickApplies \/ MergeApplies \/ ContinuePick \/ CommitJoin \/ AbsorbApplies \/ Meld
    <2>1. pc \in Stepping /\ pc' \in Stepping /\ op' = op /\ UNCHANGED <<notes, forecast, ops, nextNote, journal>>
      BY <1>4 DEF PickApplies, MergeApplies, ContinuePick, CommitJoin, AbsorbApplies, Meld, Stepping, boundVars
    <2>2. QED
      BY <1>1, <2>1, StepMoves
  <1>5. CASE PickConflicts \/ MergeConflicts
    <2>1. pc \in Stepping /\ pc' \in Stepping /\ UNCHANGED <<notes, forecast, ops, nextNote, journal>>
          /\ op' = [op EXCEPT !.state = "conflicted", !.current.conflicted = TRUE]
      BY <1>5 DEF PickConflicts, MergeConflicts, Stepping, boundVars
    <2>2. QED
      BY <1>3, <2>1, StepMoves
  <1>6. CASE StepBlocked \/ MergeJoinsNothing \/ AbsorbConflicts \/ AbsorbBlocked
    <2>1. pc \in Stepping /\ pc' \in Stepping /\ UNCHANGED <<notes, forecast, ops, nextNote, journal>>
          /\ \E v : op' = [op EXCEPT !.state = v]
      BY <1>6 DEF StepBlocked, MergeJoinsNothing, AbsorbConflicts, AbsorbBlocked, Stepping, boundVars
    <2>2. QED
      BY <1>2, <2>1, StepMoves
  <1>7. CASE FinishStep
    <2>1. pc = "finish" /\ pc' \in {"paused", "record"} /\ UNCHANGED <<notes, forecast, ops, nextNote, journal>>
      BY <1>7 DEF FinishStep, boundVars
    <2>2. op' = op \/ \E t, v : op' = [op EXCEPT !.current.treeBefore = t, !.state = v]
      BY <1>7, Zenon DEF FinishStep
    <2>3. Kept(op, op')
      <3>1. ASSUME NEW t, NEW v, op' = [op EXCEPT !.current.treeBefore = t, !.state = v]
            PROVE  Kept(op, op')
        <4>1. Shaped(op') /\ Same(op, op') /\ op'.next = op.next /\ op'.applied = op.applied
              /\ op'.absorptions = op.absorptions /\ op'.amendments = op.amendments
          BY <1>0, <3>1 DEF Sound, Shaped, Same
        <4>2. QED
          BY <1>0, <4>1, KeptByFields
      <3>2. QED
        BY <1>1, <2>2, <3>1
    <2>4. QED
      BY <2>1, <2>3, StepMoves DEF Stepping
  <1>8. CASE RewordStep
    <2>1. pc = "reword" /\ pc' \in {"paused", "record"} /\ UNCHANGED <<notes, forecast, ops, nextNote, journal>>
          /\ (op' = op \/ op' = [op EXCEPT !.state = "blocked"])
      BY <1>8 DEF RewordStep, boundVars
    <2>2. QED
      BY <1>1, <1>2, <2>1, StepMoves DEF Stepping
  <1>9. CASE EditStep
    <2>1. pc = "edit" /\ pc' = "record" /\ UNCHANGED <<notes, forecast, ops, nextNote, journal>>
          /\ (op' = op \/ \E e : op' = [op EXCEPT !.amendments = Append(@, e)])
      BY <1>9 DEF EditStep, boundVars
    <2>2. Kept(op, op')
      BY <1>0, <1>1, <2>1, Updates
    <2>3. QED
      BY <2>1, <2>2, StepMoves DEF Stepping
  <1>10. QED
    BY <1>4, <1>5, <1>6, <1>7, <1>8, <1>9

LEMMA StepsWrite ==
    ASSUME RebaseIInv, BeginStep \/ BeginAbsorption \/ AdvanceCursor \/ ApplyForecast
    PROVE  RebaseIInv'
  <1> USE DEF Journals, Write, Go
  <1>0. pc # "idle" /\ Sound(op)
    BY DEF BeginStep, BeginAbsorption, AdvanceCursor, ApplyForecast, RebaseIInv, RebaseKinds
  <1>1. CASE BeginStep
    <2>1. pc = "queue" /\ op.next <= Len(op.queue) /\ pc' = NextStep.kind /\ journal' = op'
          /\ NextStep.kind # "omit" /\ UNCHANGED <<notes, forecast, ops, nextNote>>
      BY <1>1 DEF BeginStep, MoreSteps, boundVars
    <2>2. \E c : op' = [op EXCEPT !.state = "applying", !.current = c]
      BY <1>1, Zenon DEF BeginStep
    <2>3. Kept(op, op')
      BY <1>0, <2>2, Remembers
    <2>4. NextStep.kind \in {"pick", "merge"}
      <3>1. op.next \in 1..Len(op.queue)
        BY <1>0, <2>1 DEF Sound
      <3>2. QED
        BY <1>0, <2>1, <3>1 DEF Sound, NextStep
    <2>5. QED
      BY <2>1, <2>3, <2>4, StepWrites DEF Stepping, Onward, Starting
  <1>2. CASE BeginAbsorption \/ AdvanceCursor
    <2>1. pc \in {"absorb", "cursor"} /\ pc' = "absorb" /\ journal' = op' /\ UNCHANGED <<notes, forecast, ops, nextNote>>
      BY <1>2 DEF BeginAbsorption, AdvanceCursor, boundVars
    <2>2. op' = [op EXCEPT !.current.cursor = 1] \/ op' = [op EXCEPT !.current.cursor = @ + 1]
      BY <1>2 DEF BeginAbsorption, AdvanceCursor
    <2>3. Kept(op, op')
      BY <1>0, <2>2, Updates
    <2>4. QED
      BY <1>0, <2>1, <2>3, Runs, StepWrites DEF Stepping, Onward
  <1>3. CASE ApplyForecast
    <2>1. pc = "paused" /\ pc' = "batch" /\ journal' = op /\ op' = op /\ UNCHANGED <<notes, forecast, ops, nextNote>>
      BY <1>3 DEF ApplyForecast, boundVars
    <2>2. Kept(op, op')
      BY <1>0, <2>1 DEF Kept, Same
    <2>3. QED
      BY <1>0, <2>1, <2>2, Runs, StepWrites DEF Stepping, Onward
  <1>4. QED
    BY <1>1, <1>2, <1>3

LEMMA StepsEnd ==
    ASSUME RebaseIInv, OmitStep \/ RecordApplication \/ RecordJoin
    PROVE  RebaseIInv'
  <1> USE DEF Thinks, Keep, Go
  <1>0. pc # "idle" /\ Sound(op) /\ pc \in {"queue", "record", "record-join"}
        /\ UNCHANGED <<notes, forecast, ops, nextNote, journal>>
    BY DEF OmitStep, RecordApplication, RecordJoin, RebaseIInv, RebaseKinds, boundVars
  <1>1. CASE OmitStep
    <2>1. pc = "queue" /\ pc' \in Moving
      BY <1>1 DEF OmitStep, Moving
    <2>2. \E c, h : op' = [op EXCEPT !.rewritten[c] = h, !.next = @ + 1]
      BY <1>1, Zenon DEF OmitStep
    <2>3. op.state = "applying"
      BY <1>0, <2>1, Runs DEF Starting
    <2>4. Sound(op') /\ Same(op, op') /\ op'.state = "applying"
      BY <1>0, <2>2, <2>3, Completes
    <2>5. QED
      BY <1>0, <2>1, <2>4, StepEnds
  <1>2. CASE RecordJoin
    <2>1. pc' \in Moving /\ pc \in Stepping
      BY <1>2 DEF RecordJoin, Moving, Stepping
    <2>2. \E c, h, j : op' = [op EXCEPT !.joins = j, !.rewritten[c] = h, !.next = @ + 1,
                                       !.current = NoCurrent, !.state = "applying"]
      BY <1>2, Zenon DEF RecordJoin
    <2>3. Sound(op') /\ Same(op, op') /\ op'.state = "applying"
      BY <1>0, <2>2, Completes
    <2>4. QED
      BY <1>0, <2>1, <2>3, StepEnds
  <1>3. CASE RecordApplication
    <2>1. pc = "record" /\ \/ op' = Recorded(op) /\ pc' \in Moving
                           \/ op' = [op EXCEPT !.state = "blocked"] /\ pc' = "paused"
      BY <1>3 DEF RecordApplication, Moving
    <2>2. CASE op' = Recorded(op) /\ pc' \in Moving
      <3>1. Sound(op') /\ Same(op, op') /\ op'.state = "applying"
        BY <1>0, <2>2, CompletesRecorded
      <3>2. QED
        BY <1>0, <2>1, <2>2, <3>1, StepEnds DEF Stepping
    <2>3. CASE op' = [op EXCEPT !.state = "blocked"] /\ pc' = "paused"
      <3>1. Kept(op, op')
        BY <1>0, <2>3, Blocks
      <3>2. QED
        BY <1>0, <2>1, <2>3, <3>1, StepMoves DEF Stepping
    <2>4. QED
      BY <2>1, <2>2, <2>3
  <1>4. QED
    BY <1>1, <1>2, <1>3

LEMMA CommandsStop ==
    ASSUME RebaseIInv, Pause \/ Mismatch \/ OverlayMismatch \/ CommitFails \/ Crash
    PROVE  RebaseIInv'
  <1>0. pc # "idle" /\ Sound(op) /\ Stop /\ UNCHANGED <<notes, forecast, ops>>
    BY DEF Pause, Mismatch, OverlayMismatch, CommitFails, Crash, RebaseIInv, RebaseKinds, boundVars
  <1>1. CASE CommitFails \/ Crash
    BY <1>0, <1>1, CommandStops DEF CommitFails, Crash
  <1>2. CASE Pause
    <2>1. pc = "paused" /\ (journal' = op \/ journal' = [op EXCEPT !.state = "blocked"])
      BY <1>2 DEF Pause
    <2>2. Kept(op, journal') /\ pc \in Onward /\ pc \in Stepping
      BY <1>0, <2>1, Blocks DEF Kept, Same, Onward, Stepping
    <2>3. journal'.next <= Len(journal'.queue)
      BY <1>0, <2>2, Runs DEF Kept, Same
    <2>4. QED
      BY <1>0, <2>2, <2>3, CommandStops
  <1>3. CASE Mismatch
    <2>1. pc \in Onward /\ journal' = [op EXCEPT !.state = "blocked"]
      BY <1>3 DEF Mismatch, Onward, Stepping
    <2>2. Kept(op, journal') /\ journal'.state = "blocked"
      BY <1>0, <2>1, Blocks
    <2>3. QED
      BY <1>0, <2>1, <2>2, CommandStops
  <1>4. CASE OverlayMismatch
    <2>1. pc \in Onward /\ journal' = [op EXCEPT !.remat = TRUE, !.state = "blocked"]
      BY <1>4 DEF OverlayMismatch, Onward
    <2>2. Kept(op, journal') /\ journal'.state = "blocked"
      <3>1. Shaped(journal') /\ Same(op, journal') /\ journal'.next = op.next /\ journal'.applied = op.applied
            /\ journal'.absorptions = op.absorptions /\ journal'.amendments = op.amendments
            /\ journal'.state = "blocked"
        BY <1>0, <2>1 DEF Sound, Shaped, Same
      <3>2. QED
        BY <1>0, <3>1, KeptByFields
    <2>3. QED
      BY <1>0, <2>1, <2>2, CommandStops
  <1>5. QED
    BY <1>1, <1>2, <1>3, <1>4

(* The command goes from one part of the operation to the next.            *)
LEMMA PhasesMove ==
    ASSUME RebaseIInv, pc # "idle", UNCHANGED <<notes, forecast, ops>>, op' = op,
           nextNote' \in Nat, pc' \in {"materialize", "remat", "publish"} => nextNote' = 1,
           \/ pc \in Starting /\ pc' \in Starting /\ journal' = journal
           \/ pc = "queue" /\ pc' = "verify" /\ op.next > Len(op.queue) /\ journal' = journal
           \/ pc \in {"verify", "materialize"} /\ pc' \in {"publish", "materialize", "remat"} /\ journal' = journal
           \/ pc = "anchor" /\ pc' = "advance" /\ journal' = journal
           \/ pc = "advance" /\ pc' = "queue" /\ journal' = op
           \/ pc = "release" /\ pc' = "clear" /\ journal' = journal
           \/ pc \in Undoing /\ pc' \in Undoing /\ journal' = journal
    PROVE  RebaseIInv'
  <1> USE DEF Starting, Stepping, Moving, Sharing, Finishing, Undoing
  <1>1. Same(op, op') /\ Sound(op') /\ Sound(journal') /\ Same(journal, journal') /\ pc' # "idle"
    BY Runs DEF Same
  <1>2. Pending'
    <2>1. journal'.id # 0
      BY <1>1, Runs DEF Same, RebaseIInv, RebaseKinds
    <2>2. QED
      BY <2>1 DEF Pending, NoOperation
  <1>3. Journaled'
    BY <1>1, <1>2, Runs DEF Journaled, Same
  <1>4. journal'.next = journal.next \/ Unpublished(op.id)
    BY Runs DEF Onward
  <1>5. pc' \in Onward => Unpublished(op.id)
    BY Runs DEF Onward
  <1>6. QED
    BY <1>1, <1>3, <1>4, <1>5, GoesOn

LEMMA OthersMove ==
    ASSUME RebaseIInv,
           \/ RemoveDraftFiles \/ ReduceToHead \/ ResetOnto \/ PositionStep \/ AnchorStep \/ Advance
           \/ QueueDone \/ Verified \/ MaterializeOverlay \/ ReleaseAnchors \/ AbortReset \/ AbortRestore
    PROVE  RebaseIInv'
  <1> USE DEF Works, Thinks, Go, Starting, Undoing
  <1>0. pc # "idle" /\ op' = op /\ UNCHANGED <<notes, forecast, ops>> /\ nextNote \in Nat
    BY DEF RemoveDraftFiles, ReduceToHead, ResetOnto, PositionStep, AnchorStep, Advance, QueueDone, Verified,
           MaterializeOverlay, ReleaseAnchors, AbortReset, AbortRestore, RebaseIInv, RebaseKinds, boundVars
  <1>1. CASE RemoveDraftFiles \/ ReduceToHead \/ ResetOnto \/ PositionStep
    BY <1>0, <1>1, PhasesMove DEF RemoveDraftFiles, ReduceToHead, ResetOnto, PositionStep
  <1>2. CASE AnchorStep \/ Advance
    BY <1>0, <1>2, PhasesMove DEF AnchorStep, Advance
  <1>3. CASE QueueDone
    BY <1>0, <1>3, Runs, PhasesMove DEF QueueDone, MoreSteps
  <1>4. CASE Verified
    BY <1>0, <1>4, PhasesMove DEF Verified
  <1>5. CASE MaterializeOverlay
    BY <1>0, <1>5, Runs, PhasesMove DEF MaterializeOverlay
  <1>6. CASE ReleaseAnchors
    BY <1>0, <1>6, PhasesMove DEF ReleaseAnchors
  <1>7. CASE AbortReset \/ AbortRestore
    BY <1>0, <1>7, PhasesMove DEF AbortReset, AbortRestore
  <1>8. QED
    BY <1>1, <1>2, <1>3, <1>4, <1>5, <1>6, <1>7

LEMMA RecordsOverlay ==
    ASSUME RebaseIInv, RecordOverlay
    PROVE  RebaseIInv'
  <1> USE DEF Starting, Stepping, Moving, Sharing, Finishing, Undoing
  <1>1. /\ pc = "remat" /\ pc' = "publish" /\ journal' = op' /\ op' = [op EXCEPT !.remat = TRUE]
        /\ UNCHANGED <<notes, forecast, ops, nextNote>>
    BY DEF RecordOverlay, Write, Go, Journals, boundVars
  <1>2. Sound(op) /\ op.state = "applying" /\ journal = op /\ nextNote = 1 /\ Unpublished(op.id)
        /\ op.next > Len(op.queue)
    BY <1>1, Runs DEF Onward
  <1>3. Kept(op, op') /\ op'.state = "applying"
    BY <1>1, <1>2, Updates
  <1>4. Pending'
    <2>1. journal'.id # 0
      BY <1>1, <1>3, Runs DEF Kept, Same, RebaseIInv, RebaseKinds
    <2>2. QED
      BY <2>1 DEF Pending, NoOperation
  <1>5. Journaled'
    BY <1>1, <1>2, <1>3, <1>4, Runs DEF Journaled, Kept, Same
  <1>6. QED
    BY <1>1, <1>2, <1>3, <1>5, Runs, GoesOn DEF Kept, Same, Onward

(* One record more.                                                        *)
LEMMA PublishKeeps ==
    ASSUME RebaseIInv, Publish
    PROVE  RebaseIInv'
  <1> DEFINE record == Publication(op)[nextNote]
             app(i) == [type |-> "application", op |-> op.id, app |-> op.applied[i]]
             last == Len(Publication(op))
  <1>1. /\ pc = "publish" /\ notes' = Append(notes, record) /\ nextNote' = nextNote + 1
        /\ pc' = (IF nextNote = last THEN "release" ELSE "publish")
        /\ UNCHANGED <<objs, tip, branch, journal, op, forecast, ops>>
    BY DEF Publish, Go, gitVars, headVars, boundVars
  <1>2. /\ journal = op /\ Sound(op) /\ op.next > Len(op.queue) /\ op.state = "applying" /\ Pending
        /\ journal.id \in 1..ops /\ nextNote \in Nat
    BY <1>1, Runs DEF Finishing, Sharing
  <1>3. nextNote \in 1..last /\ \A i \in 1..Len(op.applied) : i < nextNote => Publication(op)[i] \in Published
    BY <1>1 DEF RebaseIInv, PublishingTrue
  <1>4. /\ last \in Nat /\ Len(op.applied) \in Nat /\ last > Len(op.applied)
        /\ Publication(op)[last] = Receipt(op)
        /\ \A i \in 1..Len(op.applied) : Publication(op)[i] = app(i)
        /\ \A i \in 1..last : Publication(op)[i].op = op.id
        /\ \A i \in 1..last : i # last => Publication(op)[i].type # "rebase"
        /\ Receipt(op).op = op.id /\ Receipt(op).applied = op.applied
    BY <1>2, ChainTrue, PublicationChain
  <1>5. record.op = op.id /\ (record.type = "rebase" => nextNote = last /\ record = Receipt(op))
    BY <1>3, <1>4
  <1>6. Publication(op)' = Publication(op)
    BY <1>1 DEF Publication, Receipt, Absorbed, IsMerge, Reviewed, HEAD
  <1>7. Strung(notes) /\ Len(notes) \in Nat
    BY StrungTrue DEF RebaseIInv, RebaseKinds
  <1> HIDE DEF record, last
  <1>8. /\ Strung(notes') /\ Len(notes') = Len(notes) + 1
        /\ \A i \in 1..Len(notes) : notes'[i] = notes[i]
        /\ notes'[Len(notes) + 1] = record
    BY <1>1, <1>7, StrungAppend
  <1>9. Published' = Published \cup {record}
    <2>1. \A i \in 1..Len(notes') : i = Len(notes) + 1 \/ i \in 1..Len(notes)
      BY <1>7, <1>8
    <2>2. \A i \in 1..Len(notes) : i \in 1..Len(notes')
      BY <1>7, <1>8
    <2>3. Len(notes) + 1 \in 1..Len(notes')
      BY <1>7, <1>8
    <2>4. QED
      BY <1>8, <2>1, <2>2, <2>3 DEF Published
  <1>10. RebaseKinds' /\ Journaled' /\ ForecastTrue'
    BY <1>1, <1>2, <1>8 DEF RebaseIInv, RebaseKinds, Journaled, ForecastTrue, Pending, Same,
       Starting, Stepping, Moving, Sharing, Finishing, Undoing
  <1>11. PublishingTrue'
    <2>1. \A n \in Published' : n.op \in 1..ops
      BY <1>2, <1>5, <1>9 DEF RebaseIInv, PublishingTrue
    <2>2. ~(journal.next <= Len(journal.queue)) /\ pc' \in {"publish", "release"}
      BY <1>1, <1>2 DEF Sound
    <2>3. pc' = "publish" => nextNote' \in 1..last
      BY <1>1, <1>3, <1>4
    <2>4. \A i \in 1..Len(op.applied) : i < nextNote' => Publication(op)[i] \in Published'
      <3> TAKE i \in 1..Len(op.applied)
      <3>1. CASE i = nextNote
        BY <1>9, <3>1 DEF record
      <3>2. CASE i # nextNote
        <4>1. i < nextNote' => i < nextNote
          BY <1>1, <1>2, <1>4, <3>2
        <4>2. QED
          BY <1>3, <1>9, <4>1
      <3>3. QED
        BY <3>1, <3>2
    <2>5. (pc = "publish" =>
             /\ nextNote \in 1..Len(Publication(op))
             /\ \A i \in 1..Len(op.applied) : i < nextNote => Publication(op)[i] \in Published)'
      BY <1>1, <1>6, <2>3, <2>4 DEF last
    <2>6. QED
      BY <1>1, <2>1, <2>2, <2>5 DEF PublishingTrue, Starting, Stepping, Moving
  <1>12. PublishedWhole'
    <2>1. ASSUME NEW i \in 1..Len(notes')
          PROVE  /\ journal.id = notes'[i].op => journal.next > Len(journal.queue)
                 /\ notes'[i].type = "rebase" => \A k \in 1..Len(notes'[i].applied) :
                       [type |-> "application", op |-> notes'[i].op, app |-> notes'[i].applied[k]]
                          \in {notes'[j] : j \in 1..(i - 1)}
      <3>1. CASE i # Len(notes) + 1
        <4>1. i \in 1..Len(notes) /\ \A j \in 1..(i - 1) : j \in 1..Len(notes)
          BY <1>7, <1>8, <3>1
        <4>2. notes'[i] = notes[i] /\ {notes'[j] : j \in 1..(i - 1)} = {notes[j] : j \in 1..(i - 1)}
          BY <1>8, <4>1
        <4>3. QED
          BY <1>2, <4>1, <4>2 DEF RebaseIInv, PublishedWhole
      <3>2. CASE i = Len(notes) + 1
        <4>1. notes'[i] = record /\ i - 1 = Len(notes)
          BY <1>7, <1>8, <3>2
        <4>2. {notes'[j] : j \in 1..(i - 1)} = Published
          BY <1>8, <4>1 DEF Published
        <4>3. ASSUME record.type = "rebase", NEW k \in 1..Len(op.applied)
              PROVE  app(k) \in Published
          <5>1. k < nextNote
            BY <1>4, <1>5, <4>3
          <5>2. QED
            BY <1>3, <1>4, <5>1
        <4>4. QED
          BY <1>2, <1>4, <1>5, <4>1, <4>2, <4>3
      <3>3. QED
        BY <3>1, <3>2
    <2>2. QED
      BY <1>1, <2>1 DEF PublishedWhole
  <1>13. QED
    BY <1>10, <1>11, <1>12 DEF RebaseIInv

(* Nothing of the operation is left in the journal.                        *)
LEMMA Forgets ==
    ASSUME RebaseIInv, ClearJournal \/ AbortClear
    PROVE  RebaseIInv'
  <1>1. /\ journal' = NoOperation /\ op' = NoOperation /\ nextNote' = 0 /\ pc' = "idle"
        /\ UNCHANGED <<notes, forecast, ops>>
    BY DEF ClearJournal, AbortClear, Stop, Go, boundVars
  <1>2. Sound(NoOperation) /\ NoOperation.state = "applying"
    <2>1. Strung(<<>>) /\ Len(<<>>) = 0
      BY StrungEmpty
    <2>2. QED
      BY <2>1 DEF Sound, Shaped, NoOperation
  <1>3. ~Pending'
    BY <1>1 DEF Pending
  <1>4. RebaseKinds' /\ Journaled' /\ ForecastTrue'
    BY <1>1, <1>2, <1>3 DEF RebaseIInv, RebaseKinds, Journaled, ForecastTrue,
       Starting, Stepping, Moving, Sharing, Finishing, Undoing
  <1>5. PublishingTrue' /\ PublishedWhole'
    BY <1>1, <1>3 DEF RebaseIInv, PublishingTrue, PublishedWhole, Published, Starting, Stepping, Moving
  <1>6. QED
    BY <1>4, <1>5 DEF RebaseIInv

(* A new operation, field by field.                                        *)
NewOperation(number, on, head, onto, queue, rewritten, draft, approved) ==
    [NoOperation EXCEPT
        !.id = number, !.branch = on, !.orig = head, !.onto = onto, !.queue = queue,
        !.rewritten = rewritten, !.overlay = draft, !.forecast = approved]

BegunAs(o, number, on, head, onto, queue, rewritten, draft, approved) ==
    /\ Shaped(o) /\ o.id = number /\ o.branch = on /\ o.orig = head /\ o.onto = onto /\ o.queue = queue
    /\ o.next = 1 /\ o.rewritten = rewritten /\ o.applied = <<>> /\ o.joins = <<>>
    /\ o.amendments = <<>> /\ o.absorptions = <<>> /\ o.current = NoCurrent
    /\ o.state = "applying" /\ o.overlay = draft /\ o.remat = FALSE /\ o.forecast = approved

LEMMA Begun ==
    ASSUME NEW number, NEW on, NEW head, NEW onto, NEW queue, NEW rewritten, NEW draft, NEW approved
    PROVE  BegunAs(NewOperation(number, on, head, onto, queue, rewritten, draft, approved),
                   number, on, head, onto, queue, rewritten, draft, approved)
  <1> DEFINE o == NewOperation(number, on, head, onto, queue, rewritten, draft, approved)
             written == [id |-> number, branch |-> on, orig |-> head, onto |-> onto, queue |-> queue,
                         next |-> 1, rewritten |-> rewritten, applied |-> <<>>, joins |-> <<>>,
                         amendments |-> <<>>, absorptions |-> <<>>, current |-> NoCurrent,
                         state |-> "applying", overlay |-> draft, remat |-> FALSE, forecast |-> approved]
  <1>1. \A p : p = o => p = written
    <2> TAKE p
    <2>1. SUFFICES ASSUME p = o
                   PROVE  p = written
      OBVIOUS
    <2>2. QED
      BY <2>1 DEF NewOperation, NoOperation
  <1> HIDE DEF o
  <1>2. o = written
    BY <1>1
  <1>3. /\ o.id = number /\ o.branch = on /\ o.orig = head /\ o.onto = onto /\ o.queue = queue
        /\ o.next = 1 /\ o.rewritten = rewritten /\ o.applied = <<>> /\ o.joins = <<>>
        /\ o.amendments = <<>> /\ o.absorptions = <<>> /\ o.current = NoCurrent
        /\ o.state = "applying" /\ o.overlay = draft /\ o.remat = FALSE /\ o.forecast = approved
    BY <1>2, Zenon
  <1>4. Shaped(o)
    BY <1>2, <1>3, Zenon DEF Shaped
  <1>5. QED
    BY <1>3, <1>4, Zenon DEF o, BegunAs

(* A new operation has a number no record has.                             *)
LEMMA BeginsRight ==
    ASSUME RebaseIInv, Len(objs) \in Nat, Begins
    PROVE  RebaseIInv'
  <1>1. PICK request, accept : Begin(request, accept)
    BY Zenon DEF Begins
  <1> DEFINE onto == tip["main"]
             queue == Queue(HEAD, onto, request.program)
             rewritten == [c \in {queue[i].commit : i \in 1..Len(queue)} |-> NoCommit]
             on == branch
             head == HEAD
             draft == request.overlay
             approved == request.forecasted
             number == ops + 1
             begun == NewOperation(number, on, head, onto, queue, rewritten, draft, approved)
  <1>2. /\ op' = begun /\ journal' = begun /\ pc' \in {"reset", "reduce"} /\ ops' = ops + 1
        /\ UNCHANGED <<notes, nextNote>> /\ pc = "idle"
        /\ request.forecasted => /\ forecast' = forecast /\ forecast.head = HEAD
                                 /\ forecast.onto = onto /\ forecast.queue = queue
    BY <1>1 DEF Begin, Write, Go, Approved, NewOperation
  <1>3. Len(queue) \in Nat /\ \A i \in 1..Len(queue) : queue[i].kind \in {"pick", "omit", "merge"}
    BY QueueTrue
  <1>4. ops \in Nat /\ Strung(notes) /\ nextNote \in Nat
    BY DEF RebaseIInv, RebaseKinds
  <1> HIDE DEF onto, queue, rewritten, on, head, draft, approved, number
  <1>5. /\ begun.id = ops + 1 /\ begun.orig = HEAD /\ begun.onto = onto /\ begun.queue = queue
        /\ begun.forecast = request.forecasted /\ begun.next = 1 /\ begun.state = "applying"
        /\ begun.applied = <<>> /\ begun.amendments = <<>> /\ begun.absorptions = <<>> /\ Shaped(begun)
    <2>1. BegunAs(begun, number, on, head, onto, queue, rewritten, draft, approved)
      BY Begun, Zenon
    <2>2. QED
      BY <2>1, Zenon DEF BegunAs, head, approved, number
  <1> HIDE DEF begun
  <1>6. Sound(begun)
    BY <1>3, <1>4, <1>5, StrungEmpty DEF Sound
  <1>7. Pending'
    <2>1. begun.id # 0
      BY <1>4, <1>5
    <2>2. QED
      BY <1>2, <2>1 DEF Pending, NoOperation
  <1>8. RebaseKinds' /\ Journaled'
    BY <1>2, <1>4, <1>5, <1>6, <1>7 DEF RebaseKinds, Journaled, Same,
       Starting, Stepping, Moving, Sharing, Finishing, Undoing
  <1>9. ForecastTrue'
    BY <1>2, <1>5 DEF ForecastTrue
  <1>10. Published' = Published /\ \A n \in Published : n.op \in 1..ops /\ n.op # ops + 1
    BY <1>2, <1>4 DEF RebaseIInv, PublishingTrue, Published
  <1>11. PublishingTrue'
    <2>1. \A n \in Published' : n.op \in 1..ops' /\ n.op # begun.id
      BY <1>2, <1>4, <1>5, <1>10
    <2>2. QED
      BY <1>2, <2>1 DEF PublishingTrue, Unpublished, Starting, Stepping, Moving
  <1>12. PublishedWhole'
    <2>1. \A i \in 1..Len(notes) : notes[i].op # begun.id
      BY <1>5, <1>10 DEF Published
    <2>2. QED
      BY <1>2, <2>1 DEF RebaseIInv, PublishedWhole
  <1>13. QED
    BY <1>8, <1>9, <1>11, <1>12 DEF RebaseIInv

(* Nothing is forecast while an operation is pending.                      *)
LEMMA ForecastsRight ==
    ASSUME RebaseIInv, Forecasts
    PROVE  RebaseIInv'
  <1>1. PICK request : Forecast(request)
    BY Zenon DEF Forecasts
  <1>2. pc = "idle" /\ ~Pending /\ UNCHANGED <<journal, pc, op, nextNote, notes, ops>>
    BY <1>1 DEF Forecast, procVars, boundVars
  <1>3. RebaseKinds' /\ Journaled'
    BY <1>2 DEF RebaseIInv, RebaseKinds, Journaled, Pending, Same
  <1>4. ForecastTrue'
    BY <1>2 DEF ForecastTrue, Pending
  <1>5. PublishingTrue' /\ PublishedWhole'
    BY <1>2 DEF RebaseIInv, PublishingTrue, PublishedWhole, Published, Pending, Unpublished,
       Starting, Stepping, Moving
  <1>6. QED
    BY <1>3, <1>4, <1>5 DEF RebaseIInv

(* What the person does touches neither the journal nor a command.         *)
LEMMA Rests ==
    ASSUME RebaseIInv, UNCHANGED <<journal, pc, op, nextNote, notes, forecast, ops>>,
           pc = "idle" \/ UNCHANGED <<objs, branch, tip>>
    PROVE  RebaseIInv'
  <1>1. RebaseKinds' /\ Journaled'
    BY DEF RebaseIInv, RebaseKinds, Journaled, Pending, Same
  <1>2. ForecastTrue' /\ PublishedWhole'
    BY DEF RebaseIInv, ForecastTrue, PublishedWhole, Pending
  <1>3. pc = "publish" => Publication(op)' = Publication(op)
    BY DEF Publication, Receipt, Absorbed, IsMerge, Reviewed, HEAD
  <1>4. PublishingTrue'
    <2>1. Published' = Published /\ (Pending' <=> Pending)
      BY DEF Published, Pending
    <2>2. /\ Unpublished(journal.id)' <=> Unpublished(journal.id)
          /\ Unpublished(op.id)' <=> Unpublished(op.id)
      BY <2>1 DEF Unpublished
    <2>3. QED
      BY <1>3, <2>1, <2>2 DEF RebaseIInv, PublishingTrue
  <1>5. QED
    BY <1>1, <1>2, <1>4 DEF RebaseIInv

LEMMA PersonRests ==
    ASSUME RebaseIInv, PersonStep
    PROVE  RebaseIInv'
  <1> USE DEF Outside, Acts, ActsIf, AtRest, procVars
  <1>1. ASSUME Resolve \/ GitContinue \/ GitAbandon \/ CommitAbsorbed \/ ThrowAway
        PROVE  pc = "idle" /\ UNCHANGED <<journal, pc, op, nextNote, notes, forecast, ops>>
    BY <1>1 DEF Resolve, GitContinue, GitAbandon, CommitAbsorbed, ThrowAway
  <1>2. ASSUME NEW b \in Branch, Checkout(b) \/ Land(b)
        PROVE  pc = "idle" /\ UNCHANGED <<journal, pc, op, nextNote, notes, forecast, ops>>
    BY <1>2 DEF Checkout, Land
  <1>3. ASSUME CommitOwn \/ Edit \/ CaptureDraft \/ MainMoves \/ CleanUp \/ GoBack
        PROVE  pc = "idle" /\ UNCHANGED <<journal, pc, op, nextNote, notes, forecast, ops>>
    BY <1>3 DEF CommitOwn, Edit, CaptureDraft, MainMoves, CleanUp, GoBack
  <1>4. pc = "idle" /\ UNCHANGED <<journal, pc, op, nextNote, notes, forecast, ops>>
    BY <1>1, <1>2, <1>3, Zenon DEF PersonStep
  <1>5. QED
    BY <1>4, Rests

(* A later process takes the operation up where the journal left it.       *)
LEMMA TakesUp ==
    ASSUME RebaseIInv, pc = "idle", Pending, UNCHANGED <<notes, forecast, ops, nextNote>>,
           journal' = op', Kept(journal, op'),
           \/ pc' \in Stepping /\ journal.next <= Len(journal.queue)
           \/ pc' = "undo" /\ journal' = journal
    PROVE  RebaseIInv'
  <1> USE DEF Starting, Stepping, Moving, Sharing, Finishing, Undoing
  <1>1. journal.id \in 1..ops /\ ops \in Nat /\ Sound(op')
    BY DEF RebaseIInv, RebaseKinds, Journaled, Kept
  <1>2. Same(journal, op') /\ op'.next = journal.next
    BY DEF Kept
  <1>3. Pending'
    <2>1. journal'.id # 0
      BY <1>1, <1>2 DEF Same
    <2>2. QED
      BY <2>1 DEF Pending, NoOperation
  <1>4. RebaseKinds'
    BY <1>1 DEF RebaseIInv, RebaseKinds
  <1>5. Journaled'
    BY <1>1, <1>2, <1>3 DEF RebaseIInv, Journaled, Same
  <1>6. ForecastTrue'
    BY <1>2 DEF RebaseIInv, ForecastTrue, Same
  <1>7. Published' = Published /\ op'.id = journal.id /\ op'.queue = journal.queue
    BY <1>2 DEF Published, Same
  <1>8. PublishedWhole'
    BY <1>2, <1>7 DEF RebaseIInv, PublishedWhole
  <1>9. PublishingTrue'
    <2>1. journal.next <= Len(journal.queue) => \A n \in Published : n.op # journal.id
      BY DEF RebaseIInv, PublishingTrue, Unpublished
    <2>2. journal.next <= Len(journal.queue) => Unpublished(op.id)' /\ Unpublished(journal.id)'
      BY <1>7, <2>1 DEF Unpublished
    <2>3. \A n \in Published' : n.op \in 1..ops'
      BY <1>7 DEF RebaseIInv, PublishingTrue
    <2>4. pc' \notin {"materialize", "remat", "publish", "verify"} /\ pc' \notin Starting \cup Moving
      OBVIOUS
    <2>5. pc' \in Stepping => journal.next <= Len(journal.queue)
      OBVIOUS
    <2>6. QED
      BY <1>2, <1>7, <2>2, <2>3, <2>4, <2>5 DEF PublishingTrue
  <1>10. QED
    BY <1>4, <1>5, <1>6, <1>8, <1>9 DEF RebaseIInv

LEMMA ContinuesRight ==
    ASSUME RebaseIInv, Continues
    PROVE  RebaseIInv'
  <1> USE DEF Resumes, Write, Go
  <1>0. Sound(journal) /\ Kept(journal, journal)
        /\ (journal.state \notin {"applying", "blocked"} => journal.next <= Len(journal.queue))
    BY DEF RebaseIInv, RebaseKinds, Journaled, Kept, Same
  <1>1. ASSUME NEW fork \in BOOLEAN, ContinueConflict(fork)
        PROVE  RebaseIInv'
    <2>1. /\ pc = "idle" /\ Pending /\ pc' = "continue" /\ journal.state = "conflicted"
          /\ journal' = op' /\ UNCHANGED <<notes, forecast, ops, nextNote>>
      BY <1>1 DEF ContinueConflict, boundVars
    <2>2. op' = [journal EXCEPT !.current.fork = @ \/ fork]
      BY <1>1 DEF ContinueConflict
    <2>3. Kept(journal, op')
      <3>1. Shaped(op') /\ Same(journal, op') /\ op'.next = journal.next /\ op'.applied = journal.applied
            /\ op'.absorptions = journal.absorptions /\ op'.amendments = journal.amendments
        BY <1>0, <2>2 DEF Sound, Shaped, Same
      <3>2. QED
        BY <1>0, <3>1, KeptByFields
    <2>4. QED
      BY <1>0, <2>1, <2>3, TakesUp DEF Stepping
  <1>2. CASE ContinueMessage \/ ContinueContent
    <2>1. /\ pc = "idle" /\ Pending /\ pc' \in Stepping /\ op' = journal /\ journal' = journal
          /\ journal.state \in {"awaiting-message", "awaiting-content"}
          /\ UNCHANGED <<notes, forecast, ops, nextNote>>
      BY <1>2 DEF ContinueMessage, ContinueContent, Stepping, boundVars
    <2>2. QED
      BY <1>0, <2>1, TakesUp
  <1>3. CASE ContinueAbsorption
    <2>1. /\ pc = "idle" /\ Pending /\ pc' = "absorb" /\ journal.state = "awaiting-absorption"
          /\ journal' = op' /\ UNCHANGED <<notes, forecast, ops, nextNote>>
      BY <1>3 DEF ContinueAbsorption, boundVars
    <2>2. op' = [journal EXCEPT !.current.cursor = @ + 1, !.state = "applying"]
      BY <1>3 DEF ContinueAbsorption
    <2>3. Kept(journal, op')
      BY <1>0, <2>2, Updates
    <2>4. QED
      BY <1>0, <2>1, <2>3, TakesUp DEF Stepping
  <1>4. QED
    BY <1>1, <1>2, <1>3, Zenon DEF Continues

LEMMA AbortRight ==
    ASSUME RebaseIInv, Abort
    PROVE  RebaseIInv'
  <1>1. /\ pc = "idle" /\ Pending /\ pc' = "undo" /\ op' = journal /\ journal' = journal
        /\ UNCHANGED <<notes, forecast, ops, nextNote>>
    BY DEF Abort, Go, boundVars
  <1>2. Kept(journal, journal)
    BY DEF RebaseIInv, RebaseKinds, Kept, Same
  <1>3. QED
    BY <1>1, <1>2, TakesUp

-----------------------------------------------------------------------------

(* The invariant.                                                          *)

LEMMA RebaseStarts == Init => RebaseIInv
  <1> SUFFICES ASSUME Init PROVE RebaseIInv
    OBVIOUS
  <1>1. /\ journal = NoOperation /\ op = NoOperation /\ pc = "idle" /\ notes = <<>> /\ ops = 0 /\ nextNote = 0
    BY DEF Init
  <1>2. Strung(<<>>) /\ Len(<<>>) = 0
    BY StrungEmpty
  <1>3. Sound(NoOperation) /\ NoOperation.state = "applying"
    BY <1>2 DEF Sound, Shaped, NoOperation
  <1>4. Published = {}
    BY <1>1, <1>2 DEF Published
  <1>5. QED
    BY <1>1, <1>2, <1>3, <1>4 DEF RebaseIInv, RebaseKinds, Journaled, ForecastTrue, PublishingTrue,
       PublishedWhole, Pending, Starting, Stepping, Moving, Sharing, Finishing, Undoing

LEMMA RebaseStep ==
    ASSUME RebaseIInv, Strung(objs), [Next]_vars
    PROVE  RebaseIInv'
  <1>0. Len(objs) \in Nat
    BY StrungTrue
  <1>1. CASE Begins
    BY <1>0, <1>1, BeginsRight
  <1>2. CASE Forecasts
    BY <1>2, ForecastsRight
  <1>3. CASE Continues
    BY <1>3, ContinuesRight
  <1>4. CASE Abort
    BY <1>4, AbortRight
  <1>5. CASE CommandStep
    BY <1>5, StepsMove, StepsWrite, StepsEnd, CommandsStop, OthersMove, RecordsOverlay, PublishKeeps, Forgets, Zenon
       DEF CommandStep
  <1>6. CASE Crash
    BY <1>6, CommandsStop
  <1>7. CASE PersonStep
    BY <1>7, PersonRests
  <1>8. CASE UNCHANGED vars
    BY <1>8, Rests DEF vars, gitVars, headVars, procVars, boundVars
  <1>9. QED
    BY <1>1, <1>2, <1>3, <1>4, <1>5, <1>6, <1>7, <1>8, Zenon DEF Next

(* What adds commits to the repository.                                    *)
Commits ==
    \/ PickApplies \/ ContinuePick \/ CommitJoin \/ Meld \/ RewordStep \/ EditStep
    \/ GitContinue \/ CommitAbsorbed \/ CommitOwn \/ MainMoves

LEMMA ObjectsKept ==
    ASSUME [Next]_vars
    PROVE  objs' = objs \/ Commits
  <1> USE DEF Works, Thinks, Journals, gitVars, headVars
  <1>1. CASE PickApplies \/ ContinuePick \/ CommitJoin \/ Meld \/ RewordStep \/ EditStep
    BY <1>1 DEF Commits
  <1>2. CASE GitContinue \/ CommitAbsorbed \/ CommitOwn \/ MainMoves
    BY <1>2 DEF Commits
  <1>3. CASE \/ RemoveDraftFiles \/ ReduceToHead \/ ResetOnto \/ OmitStep \/ PositionStep \/ BeginStep
             \/ PickConflicts \/ StepBlocked \/ MergeApplies \/ MergeConflicts \/ MergeJoinsNothing
             \/ Pause \/ ApplyForecast \/ Mismatch
    BY <1>3 DEF RemoveDraftFiles, ReduceToHead, ResetOnto, OmitStep, PositionStep, BeginStep, PickConflicts,
       StepBlocked, MergeApplies, MergeConflicts, MergeJoinsNothing, Pause, ApplyForecast, Mismatch
  <1>4. CASE \/ BeginAbsorption \/ AbsorbApplies \/ AbsorbConflicts \/ AbsorbBlocked \/ AdvanceCursor
             \/ FinishStep \/ RecordApplication \/ RecordJoin \/ AnchorStep \/ Advance
             \/ QueueDone \/ Verified \/ MaterializeOverlay \/ RecordOverlay \/ OverlayMismatch
    BY <1>4 DEF BeginAbsorption, AbsorbApplies, AbsorbConflicts, AbsorbBlocked, AdvanceCursor, FinishStep,
       RecordApplication, RecordJoin, AnchorStep, Advance, QueueDone, Verified, MaterializeOverlay,
       RecordOverlay, OverlayMismatch
  <1>5. CASE \/ Publish \/ ReleaseAnchors \/ ClearJournal \/ CommitFails \/ AbortReset \/ AbortRestore
             \/ AbortClear \/ Abort \/ Crash
    BY <1>5 DEF Publish, ReleaseAnchors, ClearJournal, CommitFails, AbortReset, AbortRestore, AbortClear,
       Abort, Crash
  <1>6. CASE Begins \/ Forecasts
    BY <1>6 DEF Begins, Forecasts, Begin, Forecast
  <1>7. CASE Continues
    BY <1>7 DEF Continues, ContinueConflict, ContinueMessage, ContinueContent, ContinueAbsorption, Resumes
  <1>8. CASE Resolve \/ GitAbandon \/ ThrowAway \/ Edit \/ CaptureDraft \/ CleanUp \/ GoBack
    BY <1>8 DEF Resolve, GitAbandon, ThrowAway, Edit, CaptureDraft, CleanUp, GoBack
  <1>9. CASE \E b \in Branch : Checkout(b) \/ Land(b)
    BY <1>9 DEF Checkout, Land
  <1>10. CASE UNCHANGED vars
    BY <1>10 DEF vars
  <1>11. QED
    BY <1>1, <1>2, <1>3, <1>4, <1>5, <1>6, <1>7, <1>8, <1>9, <1>10, Zenon DEF Next, CommandStep, PersonStep

(* Commits are only added.                                                 *)
LEMMA ObjectsStep ==
    ASSUME Strung(objs), [Next]_vars
    PROVE  Strung(objs')
  <1>1. CASE objs' = objs
    BY <1>1
  <1>2. CASE Commits
    <2>1. \E e : objs' = Append(objs, e)
      BY <1>2, Zenon DEF Commits, PickApplies, ContinuePick, CommitJoin, Meld, RewordStep, EditStep,
         GitContinue, CommitAbsorbed, CommitOwn, MainMoves, AddCommit, Amend
    <2>2. QED
      BY <2>1, StrungAppend
  <1>3. QED
    BY <1>1, <1>2, ObjectsKept

LEMMA ObjectsStart == Init => Strung(objs)
  <1> SUFFICES ASSUME Init PROVE Strung(objs)
    OBVIOUS
  <1>1. PICK case \in Cases : objs = Store(case.repo)
    BY Zenon DEF Init
  <1>2. Lineage(Store(case.repo))
    BY CasesAssumption, StoreTrue
  <1>3. QED
    BY <1>1, <1>2 DEF Lineage

LEMMA RebaseInvariant == Spec => [](RebaseIInv /\ Strung(objs))
  <1>1. Init => RebaseIInv /\ Strung(objs)
    BY RebaseStarts, ObjectsStart
  <1>2. RebaseIInv /\ Strung(objs) /\ [Next]_vars => RebaseIInv' /\ Strung(objs)'
    BY RebaseStep, ObjectsStep
  <1>3. QED
    BY <1>1, <1>2, PTL DEF Spec

(* Only this writes a record.                                              *)
LEMMA OnlyPublish ==
    ASSUME [Next]_vars, notes' # notes
    PROVE  Publish
  <1> USE DEF Works, Thinks, Journals
  <1>1. SUFFICES ASSUME ~Publish PROVE notes' = notes
    OBVIOUS
  <1>2. CASE PickApplies \/ ContinuePick \/ CommitJoin \/ Meld \/ RewordStep \/ EditStep
    BY <1>2 DEF PickApplies, ContinuePick, CommitJoin, Meld, RewordStep, EditStep
  <1>3. CASE \/ RemoveDraftFiles \/ ReduceToHead \/ ResetOnto \/ OmitStep \/ PositionStep \/ BeginStep
             \/ PickConflicts \/ StepBlocked \/ MergeApplies \/ MergeConflicts \/ MergeJoinsNothing
             \/ Pause \/ ApplyForecast \/ Mismatch
    BY <1>3 DEF RemoveDraftFiles, ReduceToHead, ResetOnto, OmitStep, PositionStep, BeginStep, PickConflicts,
       StepBlocked, MergeApplies, MergeConflicts, MergeJoinsNothing, Pause, ApplyForecast, Mismatch
  <1>4. CASE \/ BeginAbsorption \/ AbsorbApplies \/ AbsorbConflicts \/ AbsorbBlocked \/ AdvanceCursor
             \/ FinishStep \/ RecordApplication \/ RecordJoin \/ AnchorStep \/ Advance
             \/ QueueDone \/ Verified \/ MaterializeOverlay \/ RecordOverlay \/ OverlayMismatch
    BY <1>4 DEF BeginAbsorption, AbsorbApplies, AbsorbConflicts, AbsorbBlocked, AdvanceCursor, FinishStep,
       RecordApplication, RecordJoin, AnchorStep, Advance, QueueDone, Verified, MaterializeOverlay,
       RecordOverlay, OverlayMismatch
  <1>5. CASE \/ ReleaseAnchors \/ ClearJournal \/ CommitFails \/ AbortReset \/ AbortRestore
             \/ AbortClear \/ Abort \/ Crash
    BY <1>5 DEF ReleaseAnchors, ClearJournal, CommitFails, AbortReset, AbortRestore, AbortClear, Abort, Crash
  <1>6. CASE Begins \/ Forecasts
    BY <1>6 DEF Begins, Forecasts, Begin, Forecast
  <1>7. CASE Continues
    BY <1>7 DEF Continues, ContinueConflict, ContinueMessage, ContinueContent, ContinueAbsorption, Resumes
  <1>8. CASE PersonStep
    BY <1>8 DEF PersonStep, Outside, Acts, ActsIf, Resolve, GitContinue, GitAbandon, CommitAbsorbed, ThrowAway,
       Checkout, Land, CommitOwn, Edit, CaptureDraft, MainMoves, CleanUp, GoBack
  <1>9. CASE UNCHANGED vars
    BY <1>9 DEF vars
  <1>10. QED
    BY <1>1, <1>2, <1>3, <1>4, <1>5, <1>6, <1>7, <1>8, <1>9, Zenon DEF Next, CommandStep

-----------------------------------------------------------------------------

(* Types.  What an operation is made of, in a repository of n commits; its *)
(* mapping has every commit of the queue, and those behind it rewritten.   *)
Mapping(o, n) ==
    /\ \A i \in 1..Len(o.queue) : o.queue[i].commit \in DOMAIN o.rewritten
    /\ \A c \in DOMAIN o.rewritten : c \in 1..n /\ o.rewritten[c] \in 0..n
    /\ \A i \in 1..Len(o.queue) : i < o.next => o.rewritten[o.queue[i].commit] # NoCommit

Typed(o, n) ==
    /\ o.branch \in Branch /\ o.orig \in 0..n /\ o.onto \in 0..n
    /\ o.id # 0 => o.orig # NoCommit /\ o.onto # NoCommit
    /\ Planned(o.queue, n) /\ o.next \in 1..(Len(o.queue) + 1) /\ Mapping(o, n)
    /\ o.applied \in Seq(Application) /\ o.joins \in Seq(Join)
    /\ o.amendments \in Seq(Amendment) /\ o.absorptions \in Seq(Absorption)
    /\ o.current \in Current /\ o.current.joins \in 0..n /\ o.state \in State
    /\ o.overlay \in {"draft", None} /\ o.remat \in BOOLEAN /\ o.forecast \in BOOLEAN

LEMMA TypedIsOperation ==
    ASSUME NEW o, Sound(o), Typed(o, Len(objs)), o.id \in 0..ops
    PROVE  IsOperation(o)
  <1>1. DOMAIN o = DOMAIN NoOperation
    BY DEF Sound, Shaped, NoOperation
  <1>2. o.queue \in Seq(Step) /\ \A c \in DOMAIN o.rewritten : c \in Objects /\ o.rewritten[c] \in 0..Len(objs)
    BY DEF Typed, Planned, Mapping, Objects
  <1>3. QED
    BY <1>1, <1>2 DEF Typed, IsOperation

LEMMA TypedGrows ==
    ASSUME NEW o, NEW n \in Nat, NEW m \in Nat, n <= m, Typed(o, n)
    PROVE  Typed(o, m)
  <1>1. \A x : (x \in 0..n => x \in 0..m) /\ (x \in 1..n => x \in 1..m)
    OBVIOUS
  <1>2. Planned(o.queue, m)
    BY <1>1 DEF Typed, Planned
  <1>3. Mapping(o, m)
    BY <1>1 DEF Typed, Mapping
  <1>4. QED
    BY <1>1, <1>2, <1>3 DEF Typed

LEMMA NothingTyped ==
    ASSUME NEW n \in Nat
    PROVE  Typed(NoOperation, n) /\ Sound(NoOperation)
  <1>1. NoCurrent \in Current
    BY DEF NoCurrent, Current, NoCommit
  <1>2. Strung(<<>>) /\ Len(<<>>) = 0 /\ DOMAIN <<>> = {}
    BY StrungEmpty
  <1>3. Planned(<<>>, n)
    BY <1>2, EmptySeq DEF Planned
  <1> DEFINE o == NoOperation
  <1>4. /\ o.id = 0 /\ o.branch = "source" /\ o.orig = NoCommit /\ o.onto = NoCommit
        /\ o.queue = <<>> /\ o.next = 1 /\ o.rewritten = <<>> /\ o.applied = <<>> /\ o.joins = <<>>
        /\ o.amendments = <<>> /\ o.absorptions = <<>> /\ o.current = NoCurrent
        /\ o.state = "applying" /\ o.overlay = None /\ o.remat = FALSE /\ o.forecast = FALSE
    BY DEF NoOperation
  <1>5. Sound(o)
    BY <1>2 DEF Sound, Shaped, NoOperation
  <1> HIDE DEF o
  <1>6. Mapping(o, n)
    BY <1>2, <1>4 DEF Mapping
  <1>7. Typed(o, n)
    <2>1. o.branch \in Branch /\ o.state \in State /\ o.overlay \in {"draft", None}
          /\ o.remat \in BOOLEAN /\ o.forecast \in BOOLEAN
      BY <1>4, Zenon DEF Branch, State
    <2>2. o.orig \in 0..n /\ o.onto \in 0..n /\ o.next \in 1..(Len(o.queue) + 1)
      BY <1>2, <1>4 DEF NoCommit
    <2>3. /\ o.applied \in Seq(Application) /\ o.joins \in Seq(Join)
          /\ o.amendments \in Seq(Amendment) /\ o.absorptions \in Seq(Absorption)
      BY <1>4, EmptySeq, Zenon
    <2>4. o.current \in Current /\ o.current.joins \in 0..n
      BY <1>1, <1>4 DEF NoCurrent, NoCommit
    <2>5. Planned(o.queue, n) /\ ~(o.id # 0)
      BY <1>3, <1>4, Zenon
    <2>6. QED
      BY <1>6, <2>1, <2>2, <2>3, <2>4, <2>5, Zenon DEF Typed
  <1>8. QED
    BY <1>5, <1>7 DEF o

(* The parent of a step is on the new base or was rewritten before.        *)
LEMMA MappedTrue ==
    ASSUME NEW o, NEW n \in Nat, Typed(o, n), o.id # 0, o.next <= Len(o.queue),
           NEW k \in 1..Len(o.queue[o.next].parents)
    PROVE  Mapped(o, o.queue[o.next].parents[k]) \in 1..n
  <1> DEFINE p == o.queue[o.next].parents[k]
  <1>1. o.next \in 1..Len(o.queue) /\ Len(o.queue) \in Nat
    BY LenProperties DEF Typed, Planned
  <1>2. CASE p = NoCommit
    BY <1>2 DEF Mapped, Typed, NoCommit
  <1>3. CASE p # NoCommit
    <2>1. PICK j \in 1..(o.next - 1) : o.queue[j].commit = p
      BY <1>1, <1>3 DEF Typed, Planned
    <2>2. j \in 1..Len(o.queue) /\ j < o.next
      BY <1>1
    <2>3. p \in DOMAIN o.rewritten /\ o.rewritten[p] # NoCommit /\ o.rewritten[p] \in 0..n
      BY <2>1, <2>2 DEF Typed, Mapping
    <2>4. Mapped(o, p) = o.rewritten[p]
      BY <1>3, Zenon DEF Mapped
    <2> HIDE DEF p
    <2>5. o.rewritten[p] \in 1..n
      BY <2>3 DEF NoCommit
    <2>6. QED
      BY <2>4, <2>5 DEF p
  <1>4. QED
    BY <1>2, <1>3

LEMMA TypedKept ==
    ASSUME NEW o, NEW n, Typed(o, n), NEW p, Same(o, p), p.next = o.next, p.rewritten = o.rewritten,
           p.applied = o.applied, p.joins = o.joins, p.absorptions = o.absorptions,
           p.amendments \in Seq(Amendment), p.current \in Current, p.current.joins \in 0..n, p.state \in State, p.remat \in BOOLEAN
    PROVE  Typed(p, n)
  <1>1. Mapping(p, n)
    BY DEF Typed, Mapping, Same
  <1>2. QED
    BY <1>1 DEF Typed, Same

(* A step that is done: the next one, and its commit mapped.               *)
DoneAs(o, p, c, h) ==
    /\ Same(o, p) /\ p.next = o.next + 1 /\ p.rewritten = [o.rewritten EXCEPT ![c] = h]
    /\ p.applied \in Seq(Application) /\ p.joins \in Seq(Join) /\ p.absorptions \in Seq(Absorption)
    /\ p.amendments = o.amendments /\ p.current \in Current /\ p.state \in State /\ p.remat = o.remat

LEMMA TypedCompleted ==
    ASSUME NEW o, NEW n \in Nat, Typed(o, n), o.next <= Len(o.queue), NEW c, c = o.queue[o.next].commit,
           NEW h \in 1..n, NEW p, DoneAs(o, p, c, h), p.current.joins \in 0..n
    PROVE  Typed(p, n) /\ p.next > 1
  <1>0. /\ Same(o, p) /\ p.next = o.next + 1 /\ p.rewritten = [o.rewritten EXCEPT ![c] = h]
        /\ p.applied \in Seq(Application) /\ p.joins \in Seq(Join) /\ p.absorptions \in Seq(Absorption)
        /\ p.amendments = o.amendments /\ p.current \in Current /\ p.state \in State /\ p.remat = o.remat
    BY DEF DoneAs
  <1>1. o.next \in 1..Len(o.queue) /\ Len(o.queue) \in Nat
    BY LenProperties DEF Typed, Planned
  <1>2. c \in DOMAIN o.rewritten /\ DOMAIN p.rewritten = DOMAIN o.rewritten /\ p.rewritten[c] = h
        /\ \A d \in DOMAIN o.rewritten : d # c => p.rewritten[d] = o.rewritten[d]
    BY <1>0, <1>1 DEF Typed, Mapping
  <1>3. h # NoCommit /\ h \in 0..n
    BY DEF NoCommit
  <1>4. Mapping(p, n)
    <2>1. \A d \in DOMAIN p.rewritten : d \in 1..n /\ p.rewritten[d] \in 0..n
      BY <1>2, <1>3 DEF Typed, Mapping
    <2>2. ASSUME NEW i \in 1..Len(o.queue)
          PROVE  o.queue[i].commit \in DOMAIN p.rewritten
                 /\ (i < p.next => p.rewritten[o.queue[i].commit] # NoCommit)
      <3>1. i < p.next => i < o.next \/ i = o.next
        BY <1>0, <1>1
      <3>2. QED
        BY <1>0, <1>2, <1>3, <3>1 DEF Typed, Mapping
    <2>3. p.queue = o.queue
      BY <1>0 DEF Same
    <2>4. QED
      BY <2>1, <2>2, <2>3 DEF Mapping
  <1>5. p.queue = o.queue /\ Planned(o.queue, n)
    BY <1>0 DEF Typed, Same
  <1>6. p.next \in 1..(Len(p.queue) + 1) /\ p.next > 1
    BY <1>0, <1>1, <1>5
  <1>7. QED
    BY <1>0, <1>4, <1>5, <1>6 DEF Typed, Same

-----------------------------------------------------------------------------

(* What the type invariant needs: commits that come after their parents,   *)
(* operations that name such commits, a command within a step of the queue *)
(* that remembers which, and a join that has a second parent.              *)
Repository ==
    /\ Lineage(objs) /\ branch \in Branch /\ tip \in [Branch -> Objects]
    /\ cp \in 0..Len(objs) /\ mh \in 0..Len(objs) /\ wt \in Worktree /\ index \in SUBSET Content

Memory ==
    /\ Typed(journal, Len(objs)) /\ Typed(op, Len(objs))
    /\ pc = "idle" => op = NoOperation

AtStep(o) == o.current.commit = o.queue[o.next].commit

Standing ==
    /\ journal.state \notin {"applying", "blocked"} => AtStep(journal)
    /\ pc \in Stepping => AtStep(op)
    /\ pc \in {"pick", "merge"} => NextStep.kind = pc
    /\ pc = "merge" => op.current.joins # NoCommit
    /\ pc \in {"join", "batch", "continue"} /\ NextStep.kind = "merge" => mh # NoCommit
    /\ pc = "paused" /\ op.state = "conflicted" /\ NextStep.kind = "merge" => mh # NoCommit
    /\ pc = "anchor" => op.next > 1

Bounded ==
    /\ pc \in PC /\ forecast.queue \in Seq(Step)
    /\ anchors \subseteq (1..ops) \X Objects \X Objects
    /\ undoing \in BOOLEAN /\ meddled \in BOOLEAN /\ dropped \subseteq 1..ops
    /\ asks \in Seq(SUBSET Request) /\ ops \in 0..Len(asks) /\ events \in 0..MaxEvents

TypesIInv == RebaseIInv /\ Repository /\ Memory /\ Standing /\ Bounded

(* What a step says of itself as it goes on.                               *)
LEMMA CurrentUpdates ==
    ASSUME NEW cur \in Current
    PROVE  /\ \A q : q = [cur EXCEPT !.cursor = 1] => q \in Current /\ q.commit = cur.commit /\ q.joins = cur.joins
           /\ \A q : q = [cur EXCEPT !.cursor = @ + 1] => q \in Current /\ q.commit = cur.commit /\ q.joins = cur.joins
           /\ \A q, fork : fork \in BOOLEAN /\ q = [cur EXCEPT !.fork = @ \/ fork] =>
                 q \in Current /\ q.commit = cur.commit /\ q.joins = cur.joins
           /\ \A q : q = [cur EXCEPT !.conflicted = TRUE] => q \in Current /\ q.commit = cur.commit /\ q.joins = cur.joins
  <1>1. ASSUME NEW q, q = [cur EXCEPT !.cursor = 1]
        PROVE  q \in Current /\ q.commit = cur.commit /\ q.joins = cur.joins
    BY <1>1 DEF Current
  <1>2. ASSUME NEW q, q = [cur EXCEPT !.cursor = @ + 1]
        PROVE  q \in Current /\ q.commit = cur.commit /\ q.joins = cur.joins
    BY <1>2 DEF Current
  <1>3. ASSUME NEW q, NEW fork \in BOOLEAN, q = [cur EXCEPT !.fork = @ \/ fork]
        PROVE  q \in Current /\ q.commit = cur.commit /\ q.joins = cur.joins
    BY <1>3 DEF Current
  <1>4. ASSUME NEW q, q = [cur EXCEPT !.conflicted = TRUE]
        PROVE  q \in Current /\ q.commit = cur.commit /\ q.joins = cur.joins
    BY <1>4 DEF Current
  <1>5. QED
    BY <1>1, <1>2, <1>3, <1>4, Zenon

(* The same step of the same operation, retyped.                           *)
Steady(o, p) == Same(o, p) /\ p.next = o.next /\ p.current.commit = o.current.commit

Unmoved(o, p) ==
    /\ Same(o, p) /\ p.next = o.next /\ p.rewritten = o.rewritten /\ p.applied = o.applied
    /\ p.joins = o.joins /\ p.absorptions = o.absorptions

LEMMA Retyped ==
    ASSUME NEW o, NEW n, Typed(o, n), NEW p, Unmoved(o, p), p.current \in Current,
           p.current.commit = o.current.commit, p.current.joins = o.current.joins,
           p.state \in State, p.remat \in BOOLEAN, p.amendments \in Seq(Amendment)
    PROVE  Typed(p, n) /\ Steady(o, p)
  <1>1. p.current.joins \in 0..n
    BY DEF Typed
  <1>2. QED
    BY <1>1, TypedKept DEF Steady, Unmoved

LEMMA RetypedCursor ==
    ASSUME NEW o, Sound(o), NEW n, Typed(o, n), NEW p, 
           p = [o EXCEPT !.current.cursor = 1] \/ p = [o EXCEPT !.current.cursor = @ + 1]
    PROVE  Typed(p, n) /\ Steady(o, p) /\ p.state = o.state
  <1>1. /\ Unmoved(o, p) /\ p.state = o.state /\ p.remat = o.remat /\ p.amendments = o.amendments
        /\ p.current = [o.current EXCEPT !.cursor = 1] \/ p.current = [o.current EXCEPT !.cursor = @ + 1]
    BY DEF Sound, Shaped, Same, Unmoved
  <1>2. o.current \in Current /\ p.state \in State /\ p.remat \in BOOLEAN /\ o.amendments \in Seq(Amendment)
    BY <1>1 DEF Typed, State
  <1>3. p.current \in Current /\ p.current.commit = o.current.commit /\ p.current.joins = o.current.joins
    BY <1>1, <1>2, CurrentUpdates
  <1>4. QED
    BY <1>1, <1>2, <1>3, Retyped

LEMMA RetypedFork ==
    ASSUME NEW o, Sound(o), NEW n, Typed(o, n), NEW p, NEW fork \in BOOLEAN, 
           p = [o EXCEPT !.current.fork = @ \/ fork]
    PROVE  Typed(p, n) /\ Steady(o, p) /\ p.state = o.state
  <1>1. /\ Unmoved(o, p) /\ p.state = o.state /\ p.remat = o.remat /\ p.amendments = o.amendments
        /\ p.current = [o.current EXCEPT !.fork = @ \/ fork]
    BY DEF Sound, Shaped, Same, Unmoved
  <1>2. o.current \in Current /\ p.state \in State /\ p.remat \in BOOLEAN /\ o.amendments \in Seq(Amendment)
    BY <1>1 DEF Typed, State
  <1>3. p.current \in Current /\ p.current.commit = o.current.commit /\ p.current.joins = o.current.joins
    BY <1>1, <1>2, CurrentUpdates
  <1>4. QED
    BY <1>1, <1>2, <1>3, Retyped

LEMMA RetypedTakenUp ==
    ASSUME NEW o, Sound(o), NEW n, Typed(o, n), NEW p, 
           p = [o EXCEPT !.current.cursor = @ + 1, !.state = "applying"]
    PROVE  Typed(p, n) /\ Steady(o, p) /\ p.state = "applying"
  <1>1. /\ Unmoved(o, p) /\ p.state = "applying" /\ p.remat = o.remat /\ p.amendments = o.amendments
        /\ p.current = [o.current EXCEPT !.cursor = @ + 1]
    BY DEF Sound, Shaped, Same, Unmoved
  <1>2. o.current \in Current /\ p.state \in State /\ p.remat \in BOOLEAN /\ o.amendments \in Seq(Amendment)
    BY <1>1 DEF Typed, State
  <1>3. p.current \in Current /\ p.current.commit = o.current.commit /\ p.current.joins = o.current.joins
    BY <1>1, <1>2, CurrentUpdates
  <1>4. QED
    BY <1>1, <1>2, <1>3, Retyped

LEMMA RetypedConflict ==
    ASSUME NEW o, Sound(o), NEW n, Typed(o, n), NEW p, 
           p = [o EXCEPT !.state = "conflicted", !.current.conflicted = TRUE]
    PROVE  Typed(p, n) /\ Steady(o, p) /\ p.state = "conflicted"
  <1>1. /\ Unmoved(o, p) /\ p.state = "conflicted" /\ p.remat = o.remat /\ p.amendments = o.amendments
        /\ p.current = [o.current EXCEPT !.conflicted = TRUE]
    BY DEF Sound, Shaped, Same, Unmoved
  <1>2. o.current \in Current /\ p.state \in State /\ p.remat \in BOOLEAN /\ o.amendments \in Seq(Amendment)
    BY <1>1 DEF Typed, State
  <1>3. p.current \in Current /\ p.current.commit = o.current.commit /\ p.current.joins = o.current.joins
    BY <1>1, <1>2, CurrentUpdates
  <1>4. QED
    BY <1>1, <1>2, <1>3, Retyped

LEMMA RetypedState ==
    ASSUME NEW o, Sound(o), NEW n, Typed(o, n), NEW p, NEW v \in State, 
           p = [o EXCEPT !.state = v]
    PROVE  Typed(p, n) /\ Steady(o, p) /\ p.state = v
  <1>1. /\ Unmoved(o, p) /\ p.state = v /\ p.remat = o.remat /\ p.amendments = o.amendments
        /\ p.current = o.current
    BY DEF Sound, Shaped, Same, Unmoved
  <1>2. o.current \in Current /\ p.state \in State /\ p.remat \in BOOLEAN /\ o.amendments \in Seq(Amendment)
    BY <1>1 DEF Typed, State
  <1>3. p.current \in Current /\ p.current.commit = o.current.commit /\ p.current.joins = o.current.joins
    BY <1>1, <1>2
  <1>4. QED
    BY <1>1, <1>2, <1>3, Retyped

LEMMA RetypedDraft ==
    ASSUME NEW o, Sound(o), NEW n, Typed(o, n), NEW p, 
           p = [o EXCEPT !.remat = TRUE]
    PROVE  Typed(p, n) /\ Steady(o, p) /\ p.state = o.state
  <1>1. /\ Unmoved(o, p) /\ p.state = o.state /\ p.remat = TRUE /\ p.amendments = o.amendments
        /\ p.current = o.current
    BY DEF Sound, Shaped, Same, Unmoved
  <1>2. o.current \in Current /\ p.state \in State /\ p.remat \in BOOLEAN /\ o.amendments \in Seq(Amendment)
    BY <1>1 DEF Typed, State
  <1>3. p.current \in Current /\ p.current.commit = o.current.commit /\ p.current.joins = o.current.joins
    BY <1>1, <1>2
  <1>4. QED
    BY <1>1, <1>2, <1>3, Retyped

LEMMA RetypedMismatch ==
    ASSUME NEW o, Sound(o), NEW n, Typed(o, n), NEW p, 
           p = [o EXCEPT !.remat = TRUE, !.state = "blocked"]
    PROVE  Typed(p, n) /\ Steady(o, p) /\ p.state = "blocked"
  <1>1. /\ Unmoved(o, p) /\ p.state = "blocked" /\ p.remat = TRUE /\ p.amendments = o.amendments
        /\ p.current = o.current
    BY DEF Sound, Shaped, Same, Unmoved
  <1>2. o.current \in Current /\ p.state \in State /\ p.remat \in BOOLEAN /\ o.amendments \in Seq(Amendment)
    BY <1>1 DEF Typed, State
  <1>3. p.current \in Current /\ p.current.commit = o.current.commit /\ p.current.joins = o.current.joins
    BY <1>1, <1>2
  <1>4. QED
    BY <1>1, <1>2, <1>3, Retyped

LEMMA RetypedAmended ==
    ASSUME NEW o, Sound(o), NEW n, Typed(o, n), NEW p, NEW e \in Amendment, 
           p = [o EXCEPT !.amendments = Append(@, e)]
    PROVE  Typed(p, n) /\ Steady(o, p) /\ p.state = o.state
  <1>1. /\ Unmoved(o, p) /\ p.state = o.state /\ p.remat = o.remat /\ p.amendments = Append(o.amendments, e)
        /\ p.current = o.current
    BY DEF Sound, Shaped, Same, Unmoved
  <1>2. o.current \in Current /\ p.state \in State /\ p.remat \in BOOLEAN /\ o.amendments \in Seq(Amendment)
    BY <1>1 DEF Typed, State
  <1>3. p.current \in Current /\ p.current.commit = o.current.commit /\ p.current.joins = o.current.joins
    BY <1>1, <1>2
  <1>4. p.amendments \in Seq(Amendment)
    BY <1>1, <1>2, AppendProperties
  <1>5. QED
    BY <1>1, <1>2, <1>3, <1>4, Retyped

-----------------------------------------------------------------------------

(* The repository: what its commits are, and one commit more.              *)

LEMMA CommitsTrue ==
    ASSUME Repository
    PROVE  /\ Len(objs) \in Nat /\ HEAD \in Objects /\ tip["main"] \in Objects
           /\ \A c \in Objects : /\ objs[c].of \in Change \cup {None} /\ objs[c].named \in BOOLEAN
                                 /\ objs[c].tree \subseteq Content /\ objs[c].parents \in Seq(Objects)
                                 /\ Delta(c) \subseteq Content /\ Adds(c) \subseteq Content
                                 /\ Staged(c) \subseteq Content
           /\ \A c \in Objects : <<c>> \in Seq(Objects)
           /\ \A c, d \in Objects : <<c, d>> \in Seq(Objects)
           /\ {} \subseteq Content /\ {AsWritten(None)} \subseteq Content /\ None \in Change \cup {None}
  <1>1. Len(objs) \in Nat
    BY StrungTrue DEF Repository, Lineage
  <1>2. HEAD \in Objects /\ tip["main"] \in Objects
    BY DEF Repository, HEAD, Branch
  <1>3. ASSUME NEW c \in Objects
        PROVE  /\ objs[c].of \in Change \cup {None} /\ objs[c].named \in BOOLEAN
               /\ objs[c].tree \subseteq Content /\ objs[c].parents \in Seq(Objects)
    <2>1. Fit(objs[c], c)
      BY DEF Repository, Lineage, Objects
    <2>2. objs[c].of \in Change \cup {None} /\ objs[c].named \in BOOLEAN /\ objs[c].tree \subseteq Content
      BY <2>1 DEF Fit, Commit
    <2>3. 1..(c - 1) \subseteq Objects
      BY <1>1 DEF Objects
    <2>4. objs[c].parents \in Seq(Objects)
      BY <2>1, <2>3, SeqWidens DEF Fit
    <2>5. QED
      BY <2>2, <2>4
  <1>4. ASSUME NEW c \in Objects
        PROVE  Delta(c) \subseteq Content /\ Adds(c) \subseteq Content
    <2>1. Delta(c) \subseteq objs[c].tree
      BY Zenon DEF Delta
    <2>2. Adds(c) \subseteq Delta(c)
      BY Zenon DEF Adds
    <2>3. QED
      BY <1>3, <2>1, <2>2
  <1>5. ASSUME NEW c \in Objects
        PROVE  Staged(c) \subseteq Content
    <2>1. Edited(objs[c].of) \in Content
      BY <1>3, Zenon DEF Edited, Content
    <2>2. QED
      BY <2>1, Zenon DEF Staged
  <1>6. AsWritten(None) \in Content
    BY Zenon DEF AsWritten, Content
  <1>7. QED
    BY <1>1, <1>2, <1>3, <1>4, <1>5, <1>6

LEMMA RepositoryAdds ==
    ASSUME Repository, NEW parents \in Seq(Objects), NEW of \in Change \cup {None},
           NEW named \in BOOLEAN, NEW content \in SUBSET Content, NEW b \in Branch,
           objs' = Append(objs, Made(objs, parents, of, named, content)),
           tip' = [tip EXCEPT ![b] = New], branch' \in Branch,
           cp' \in {cp, NoCommit}, mh' \in {mh, NoCommit}, wt' \in Worktree, index' \in SUBSET Content
    PROVE  Repository' /\ Len(objs) <= Len(objs')
  <1>1. Lineage(objs') /\ Len(objs) \in Nat /\ Len(objs') = Len(objs) + 1
    BY LineageGrows DEF Repository, Objects
  <1>2. tip' \in [Branch -> Objects']
    <2>1. New \in 1..Len(objs') /\ \A c \in 1..Len(objs) : c \in 1..Len(objs')
      BY <1>1 DEF New
    <2>2. QED
      BY <2>1 DEF Repository, Objects
  <1>3. cp' \in 0..Len(objs') /\ mh' \in 0..Len(objs')
    BY <1>1 DEF Repository, NoCommit
  <1>4. QED
    BY <1>1, <1>2, <1>3 DEF Repository

LEMMA AddsOnHead ==
    ASSUME Repository, NEW parents \in Seq(Objects), NEW of \in Change \cup {None},
           NEW named \in BOOLEAN, NEW content \in SUBSET Content, AddCommit(parents, of, named, content),
           branch' = branch, cp' \in {cp, NoCommit}, mh' \in {mh, NoCommit},
           wt' \in Worktree, index' \in SUBSET Content
    PROVE  Repository' /\ Len(objs) <= Len(objs')
  <1>1. branch \in Branch
    BY DEF Repository
  <1>2. objs' = Append(objs, Made(objs, parents, of, named, content)) /\ tip' = [tip EXCEPT ![branch] = New]
    BY DEF AddCommit
  <1>3. QED
    BY <1>1, <1>2, RepositoryAdds

LEMMA AmendsHead ==
    ASSUME Repository, NEW of \in Change \cup {None}, NEW named \in BOOLEAN, NEW content \in SUBSET Content,
           Amend(of, named, content), branch' = branch, cp' \in {cp, NoCommit}, mh' \in {mh, NoCommit},
           wt' \in Worktree, index' \in SUBSET Content
    PROVE  Repository' /\ Len(objs) <= Len(objs')
  <1>1. objs[HEAD].parents \in Seq(Objects) /\ objs[HEAD].tree \cup content \in SUBSET Content
    BY CommitsTrue
  <1>2. QED
    BY <1>1, AddsOnHead DEF Amend

(* HEAD or main is put somewhere else, and the worktree with it.           *)
LEMMA RepositoryMoves ==
    ASSUME Repository, objs' = objs, branch' \in Branch,
           tip' = tip \/ \E b \in Branch, c \in Objects : tip' = [tip EXCEPT ![b] = c],
           cp' = cp \/ cp' \in 0..Len(objs), mh' = mh \/ mh' \in 0..Len(objs),
           wt' \in Worktree, index' \in SUBSET Content
    PROVE  Repository' /\ Len(objs) <= Len(objs')
  <1>1. Len(objs) \in Nat
    BY CommitsTrue
  <1>2. tip' \in [Branch -> Objects]
    BY DEF Repository
  <1>3. QED
    BY <1>1, <1>2 DEF Repository, Objects

(* What a running command works with.                                      *)
LEMMA OperationTrue ==
    ASSUME TypesIInv, pc # "idle"
    PROVE  /\ op.id \in 1..ops /\ op.onto \in Objects /\ op.orig \in Objects /\ Sound(op) /\ Typed(op, Len(objs))
           /\ pc \in Stepping => MoreSteps /\ AtStep(op)
           /\ MoreSteps =>
                 /\ op.next \in 1..Len(op.queue) /\ NextStep.commit \in Objects
                 /\ NextStep.kind \in {"pick", "omit", "merge"} /\ NextStep.absorbs \in Seq(Nat)
                 /\ Mapped(op, NextStep.parents[1]) \in Objects
                 /\ NextStep.kind = "merge" => Mapped(op, NextStep.parents[2]) \in Objects
                 /\ \A k \in 1..Len(NextStep.absorbs) : NextStep.absorbs[k] \in Objects
                 /\ AtStep(op) => op.current.commit \in Objects
  <1>1. op.id \in 1..ops /\ op.id # 0 /\ Sound(op) /\ (pc \in Stepping => op.next <= Len(op.queue))
    <2>1. journal.id \in 1..ops /\ op.id = journal.id
      BY Runs DEF TypesIInv, Same
    <2>2. ops \in Nat
      BY DEF TypesIInv, RebaseIInv, RebaseKinds
    <2>3. QED
      BY <2>1, <2>2, Runs DEF TypesIInv
  <1>2. Typed(op, Len(objs)) /\ Len(objs) \in Nat
    BY CommitsTrue DEF TypesIInv, Memory
  <1>3. op.onto \in Objects /\ op.orig \in Objects
    BY <1>1, <1>2 DEF Typed, Objects, NoCommit
  <1>4. ASSUME MoreSteps
        PROVE  /\ op.next \in 1..Len(op.queue) /\ NextStep.commit \in Objects
               /\ NextStep.kind \in {"pick", "omit", "merge"} /\ NextStep.absorbs \in Seq(Nat)
               /\ Mapped(op, NextStep.parents[1]) \in Objects
               /\ NextStep.kind = "merge" => Mapped(op, NextStep.parents[2]) \in Objects
               /\ \A k \in 1..Len(NextStep.absorbs) : NextStep.absorbs[k] \in Objects
               /\ AtStep(op) => op.current.commit \in Objects
    <2>1. op.next \in 1..Len(op.queue) /\ op.next <= Len(op.queue)
      BY <1>1, <1>4 DEF Sound, MoreSteps
    <2>2. Planned(op.queue, Len(objs)) /\ NextStep \in Step
      <3>1. Planned(op.queue, Len(objs)) /\ op.queue \in Seq(Step)
        BY <1>2 DEF Typed, Planned
      <3>2. QED
        BY <2>1, <3>1, LenProperties DEF NextStep
    <2>3. /\ NextStep.commit \in Objects /\ Len(NextStep.parents) >= 1
          /\ NextStep.kind = "merge" => Len(NextStep.parents) = 2
          /\ \A k \in 1..Len(NextStep.absorbs) : NextStep.absorbs[k] \in Objects
      BY <2>1, <2>2 DEF Planned, NextStep, Objects
    <2>4. NextStep.kind \in {"pick", "omit", "merge"} /\ NextStep.absorbs \in Seq(Nat) /\ Len(NextStep.parents) \in Nat
      BY <2>2, LenProperties DEF Step
    <2>5. \A k \in 1..Len(NextStep.parents) : Mapped(op, NextStep.parents[k]) \in Objects
      BY <1>1, <1>2, <2>1, MappedTrue DEF NextStep, Objects
    <2>6. 1 \in 1..Len(NextStep.parents) /\ (NextStep.kind = "merge" => 2 \in 1..Len(NextStep.parents))
      <3>1. \A m \in Nat : (m >= 1 => 1 \in 1..m) /\ (m = 2 => 2 \in 1..m)
        OBVIOUS
      <3>2. QED
        BY <2>3, <2>4, <3>1
    <2>7. AtStep(op) => op.current.commit \in Objects
      BY <2>3 DEF AtStep, NextStep
    <2>8. QED
      BY <2>1, <2>3, <2>4, <2>5, <2>6, <2>7
  <1>5. QED
    BY <1>1, <1>2, <1>3, <1>4 DEF TypesIInv, Standing, MoreSteps

(* The type of the repository, action by action.                           *)
LEMMA CommandCommits ==
    ASSUME TypesIInv, PickApplies \/ ContinuePick \/ CommitJoin \/ Meld \/ RewordStep \/ EditStep
    PROVE  Repository' /\ Len(objs) <= Len(objs')
  <1> DEFINE c == op.current.commit
  <1>0. Repository /\ index \in SUBSET Content /\ wt \in Worktree /\ mh \in 0..Len(objs)
    BY DEF TypesIInv, Repository
  <1>1. pc # "idle" /\ pc \in Stepping
    BY DEF PickApplies, ContinuePick, CommitJoin, Meld, RewordStep, EditStep, Stepping
  <1>2. HEAD \in Objects /\ c \in Objects /\ MoreSteps
    BY <1>0, <1>1, OperationTrue, CommitsTrue
  <1>3. /\ objs[c].of \in Change \cup {None} /\ objs[c].named \in BOOLEAN /\ Delta(c) \in SUBSET Content
        /\ Staged(c) \in SUBSET Content /\ <<HEAD>> \in Seq(Objects)
        /\ objs[HEAD].of \in Change \cup {None} /\ objs[HEAD].named \in BOOLEAN
        /\ (objs[c].named /\ ~op.current.fork) \in BOOLEAN
    <2>1. (objs[c].named /\ ~op.current.fork) \in BOOLEAN
      OBVIOUS
    <2>2. QED
      BY <1>0, <1>2, <2>1, CommitsTrue
  <1>4. "clean" \in Worktree /\ {} \in SUBSET Content /\ FALSE \in BOOLEAN /\ None \in Change \cup {None}
    BY DEF Worktree
  <1> HIDE DEF c
  <1>5. CASE PickApplies
    <2>1. AddCommit(<<HEAD>>, objs[c].of, objs[c].named, Delta(c)) /\ UNCHANGED <<branch, cp, mh, wt, index>>
      BY <1>5 DEF PickApplies, treeVars, c
    <2>2. QED
      BY <1>0, <1>3, <2>1, AddsOnHead
  <1>6. CASE ContinuePick
    <2>1. /\ AddCommit(<<HEAD>>, objs[c].of, objs[c].named /\ ~op.current.fork, index)
          /\ cp' = NoCommit /\ wt' = "clean" /\ index' = {} /\ UNCHANGED <<branch, mh>>
      BY <1>6 DEF ContinuePick, c
    <2>2. QED
      BY <1>0, <1>3, <1>4, <2>1, AddsOnHead
  <1>7. CASE CommitJoin
    <2>1. /\ AddCommit(<<HEAD, mh>>, None, FALSE, index)
          /\ mh' = NoCommit /\ wt' = "clean" /\ index' = {} /\ UNCHANGED <<branch, cp>>
      BY <1>7 DEF CommitJoin
    <2>2. mh # NoCommit
      BY <1>7 DEF CommitJoin, TypesIInv, Standing
    <2>3. mh \in Objects
      BY <1>0, <2>2, CommitsTrue DEF Objects, NoCommit
    <2>4. <<HEAD, mh>> \in Seq(Objects)
      BY <1>0, <1>2, <2>3, CommitsTrue
    <2>5. QED
      BY <1>0, <1>4, <2>1, <2>4, AddsOnHead
  <1>8. CASE Meld
    <2>1. /\ Amend(objs[c].of, objs[c].named, index)
          /\ wt' = "clean" /\ index' = {} /\ UNCHANGED <<branch, cp, mh>>
      BY <1>8 DEF Meld, c
    <2>2. QED
      BY <1>0, <1>3, <1>4, <2>1, AmendsHead
  <1>9. CASE RewordStep
    <2>1. /\ Amend(objs[c].of, objs[c].named, Staged(c))
          /\ wt' \in {"clean", wt} /\ UNCHANGED <<branch, cp, mh, index>>
      BY <1>9 DEF RewordStep, c
    <2>2. QED
      BY <1>0, <1>3, <1>4, <2>1, AmendsHead
  <1>10. CASE EditStep
    <2>1. /\ Amend(objs[HEAD].of, objs[HEAD].named, Staged(c))
          /\ wt' \in {"clean", wt} /\ UNCHANGED <<branch, cp, mh, index>>
      BY <1>10 DEF EditStep, c
    <2>2. QED
      BY <1>0, <1>3, <1>4, <2>1, AmendsHead
  <1>11. QED
    BY <1>5, <1>6, <1>7, <1>8, <1>9, <1>10

LEMMA PersonCommits ==
    ASSUME TypesIInv, GitContinue \/ CommitAbsorbed \/ CommitOwn \/ MainMoves
    PROVE  Repository' /\ Len(objs) <= Len(objs')
  <1>0. Repository /\ index \in SUBSET Content /\ wt \in Worktree /\ mh \in 0..Len(objs) /\ cp \in 0..Len(objs)
    BY DEF TypesIInv, Repository
  <1>1. /\ HEAD \in Objects /\ <<HEAD>> \in Seq(Objects) /\ <<tip["main"]>> \in Seq(Objects)
        /\ {AsWritten(None)} \in SUBSET Content
    BY <1>0, CommitsTrue
  <1>2. "clean" \in Worktree /\ {} \in SUBSET Content /\ FALSE \in BOOLEAN /\ None \in Change \cup {None}
        /\ "main" \in Branch
    BY DEF Worktree, Branch
  <1>3. CASE GitContinue
    <2>1. /\ cp' = NoCommit /\ mh' = NoCommit /\ wt' = "clean" /\ index' = {} /\ UNCHANGED branch
          /\ \/ cp # NoCommit /\ AddCommit(<<HEAD>>, objs[cp].of, objs[cp].named, index)
             \/ mh # NoCommit /\ AddCommit(<<HEAD, mh>>, None, FALSE, index)
      BY <1>3 DEF GitContinue
    <2>2. (cp # NoCommit => cp \in Objects) /\ (mh # NoCommit => mh \in Objects)
      BY <1>0, CommitsTrue DEF Objects, NoCommit
    <2>3. /\ cp # NoCommit => objs[cp].of \in Change \cup {None} /\ objs[cp].named \in BOOLEAN
          /\ mh # NoCommit => <<HEAD, mh>> \in Seq(Objects)
      BY <1>0, <1>1, <2>2, CommitsTrue
    <2>4. QED
      BY <1>0, <1>1, <1>2, <2>1, <2>3, AddsOnHead
  <1>4. CASE CommitAbsorbed
    <2>1. /\ AddCommit(<<HEAD>>, None, FALSE, index) /\ wt' = "clean" /\ index' = {} /\ UNCHANGED <<branch, cp, mh>>
      BY <1>4 DEF CommitAbsorbed
    <2>2. QED
      BY <1>0, <1>1, <1>2, <2>1, AddsOnHead
  <1>5. CASE CommitOwn
    <2>1. AddCommit(<<HEAD>>, None, FALSE, {AsWritten(None)}) /\ UNCHANGED <<branch, cp, mh, wt, index>>
      BY <1>5 DEF CommitOwn, treeVars
    <2>2. QED
      BY <1>0, <1>1, <1>2, <2>1, AddsOnHead
  <1>6. CASE MainMoves
    <2>1. /\ objs' = Append(objs, Made(objs, <<tip["main"]>>, None, FALSE, {}))
          /\ tip' = [tip EXCEPT !["main"] = New] /\ UNCHANGED <<branch, cp, mh, wt, index>>
      BY <1>6 DEF MainMoves, treeVars
    <2>2. branch \in Branch
      BY <1>0 DEF Repository
    <2>3. QED
      BY <1>0, <1>1, <1>2, <2>1, <2>2, RepositoryAdds
  <1>7. QED
    BY <1>3, <1>4, <1>5, <1>6

LEMMA RepositoryStep ==
    ASSUME TypesIInv, [Next]_vars
    PROVE  Repository' /\ Len(objs) <= Len(objs')
  <1> USE DEF Works, Thinks, Journals, gitVars, headVars, treeVars
  <1>0. Repository /\ index \in SUBSET Content /\ wt \in Worktree /\ branch \in Branch
    BY DEF TypesIInv, Repository
  <1>1. {"clean", "conflict", "staged", "edited", "draft", "merged", "torn"} \subseteq Worktree /\ {} \in SUBSET Content
    BY DEF Worktree
  <1>2. CASE PickApplies \/ ContinuePick \/ CommitJoin \/ Meld \/ RewordStep \/ EditStep
    BY <1>2, CommandCommits
  <1>3. CASE GitContinue \/ CommitAbsorbed \/ CommitOwn \/ MainMoves
    BY <1>3, PersonCommits
  <1>4. CASE \/ RemoveDraftFiles \/ ReduceToHead \/ ApplyForecast \/ MaterializeOverlay \/ AbortRestore
    <2>1. /\ pc # "idle" /\ UNCHANGED <<objs, branch, tip, cp, mh, index>>
          /\ wt' \in {"torn", "clean", "staged", "merged", wt} \/ (op.overlay # None /\ wt' = op.overlay)
      BY <1>4 DEF RemoveDraftFiles, ReduceToHead, ApplyForecast, MaterializeOverlay, AbortRestore
    <2>2. wt' \in Worktree
      BY <1>0, <1>1, <2>1, OperationTrue DEF Typed
    <2>3. QED
      BY <1>0, <2>1, <2>2, RepositoryMoves
  <1>5. CASE ResetOnto \/ PositionStep \/ AbortReset
    <2>1. pc # "idle" /\ UNCHANGED <<objs, branch, cp, mh>> /\ index' \in {index, {}} /\ wt' \in {wt, "clean", "torn"}
          /\ \/ tip' = tip \/ tip' = [tip EXCEPT ![branch] = op.onto] \/ tip' = [tip EXCEPT ![branch] = op.orig]
             \/ MoreSteps /\ tip' = [tip EXCEPT ![branch] = Mapped(op, NextStep.parents[1])]
      BY <1>5 DEF ResetOnto, PositionStep, AbortReset
    <2>2. tip' = tip \/ \E b \in Branch, c \in Objects : tip' = [tip EXCEPT ![b] = c]
      BY <1>0, <2>1, OperationTrue
    <2>3. wt' \in Worktree /\ index' \in SUBSET Content
      BY <1>0, <1>1, <2>1
    <2>4. QED
      BY <1>0, <2>1, <2>2, <2>3, RepositoryMoves
  <1>6. CASE PickConflicts \/ StepBlocked
    <2>1. pc \in {"pick", "merge"} /\ UNCHANGED <<objs, branch, tip, mh>> /\ cp' \in {cp, op.current.commit}
          /\ wt' \in {wt, "conflict"} /\ index' \in {index, Adds(op.current.commit)}
      BY <1>6 DEF PickConflicts, StepBlocked
    <2>2. op.current.commit \in Objects
      BY <2>1, OperationTrue DEF Stepping
    <2>3. Adds(op.current.commit) \in SUBSET Content /\ op.current.commit \in 0..Len(objs)
      BY <1>0, <2>2, CommitsTrue DEF Objects
    <2>4. wt' \in Worktree /\ index' \in SUBSET Content
      BY <1>0, <1>1, <2>1, <2>3
    <2>5. QED
      BY <1>0, <2>1, <2>3, <2>4, RepositoryMoves
  <1>7. CASE MergeApplies \/ MergeConflicts
    <2>1. pc = "merge" /\ UNCHANGED <<objs, branch, tip, cp>> /\ mh' = op.current.joins
          /\ wt' \in {"staged", "conflict"} /\ index' = objs[op.current.joins].tree \ objs[HEAD].tree
      BY <1>7 DEF MergeApplies, MergeConflicts
    <2>2. op.current.joins \in 0..Len(objs) /\ op.current.joins # NoCommit
      BY <2>1, OperationTrue DEF Typed, TypesIInv, Standing
    <2>3. op.current.joins \in Objects
      BY <1>0, <2>2, CommitsTrue DEF Objects, NoCommit
    <2>4. index' \in SUBSET Content
      BY <1>0, <2>1, <2>3, CommitsTrue
    <2>5. QED
      BY <1>0, <1>1, <2>1, <2>2, <2>4, RepositoryMoves
  <1>8. CASE AbsorbApplies \/ AbsorbConflicts
    <2>1. pc = "absorb" /\ op.current.cursor > 0 /\ Outstanding /\ UNCHANGED <<objs, branch, tip, cp, mh>>
          /\ wt' \in {wt, "staged", "conflict"} /\ index' = index \cup Adds(Item)
      BY <1>8 DEF AbsorbApplies, AbsorbConflicts
    <2>2. NextStep.absorbs \in Seq(Nat) /\ op.current.cursor \in Nat
          /\ \A k \in 1..Len(NextStep.absorbs) : NextStep.absorbs[k] \in Objects
      BY <2>1, OperationTrue DEF Stepping, Typed, Current
    <2>3. op.current.cursor \in 1..Len(NextStep.absorbs)
      BY <2>1, <2>2, LenProperties DEF Outstanding
    <2>4. Item \in Objects
      BY <2>2, <2>3 DEF Item
    <2>5. index' \in SUBSET Content
      BY <1>0, <2>1, <2>4, CommitsTrue
    <2>6. QED
      BY <1>0, <1>1, <2>1, <2>5, RepositoryMoves
  <1>9. CASE Abort
    <2>1. UNCHANGED <<objs, branch, tip>> /\ cp' = NoCommit /\ mh' = NoCommit /\ wt' \in {wt, "clean"} /\ index' \in {index, {}}
      BY <1>9 DEF Abort
    <2>2. NoCommit \in 0..Len(objs)
      BY <1>0, CommitsTrue DEF NoCommit
    <2>3. QED
      BY <1>0, <1>1, <2>1, <2>2, RepositoryMoves
  <1>10. CASE Resolve \/ GitAbandon \/ ThrowAway \/ Edit \/ CaptureDraft \/ CleanUp \/ GoBack
    <2>1. UNCHANGED <<objs, tip>> /\ cp' \in {cp, NoCommit} /\ mh' \in {mh, NoCommit} /\ index' \in {index, {}}
          /\ wt' \in {wt, "clean", "staged", "edited", "draft"} /\ branch' \in {branch, journal.branch}
      BY <1>10 DEF Resolve, GitAbandon, ThrowAway, Edit, CaptureDraft, CleanUp, GoBack
    <2>2. NoCommit \in 0..Len(objs) /\ journal.branch \in Branch
      BY <1>0, CommitsTrue DEF NoCommit, TypesIInv, Memory, Typed
    <2>3. branch' \in Branch /\ wt' \in Worktree /\ index' \in SUBSET Content
      BY <1>0, <1>1, <2>1, <2>2
    <2>4. QED
      BY <1>0, <2>1, <2>2, <2>3, RepositoryMoves
  <1>11. CASE \E b \in Branch : Checkout(b) \/ Land(b)
    <2>1. PICK b \in Branch : Checkout(b) \/ Land(b)
      BY <1>11
    <2>2. objs' = objs /\ branch' \in {branch, b} /\ wt' \in {wt, "clean"} /\ index' \in {index, {}}
          /\ cp' \in {cp, NoCommit} /\ mh' \in {mh, NoCommit} /\ tip' \in {tip, [tip EXCEPT !["main"] = tip[b]]}
      BY <2>1 DEF Checkout, Land
    <2>3. tip[b] \in Objects /\ "main" \in Branch /\ NoCommit \in 0..Len(objs)
      BY <1>0, CommitsTrue DEF Repository, Branch, NoCommit
    <2>4. tip' = tip \/ \E d \in Branch, c \in Objects : tip' = [tip EXCEPT ![d] = c]
      BY <2>2, <2>3
    <2>5. QED
      BY <1>0, <1>1, <2>2, <2>3, <2>4, RepositoryMoves
  <1>12. CASE UNCHANGED gitVars
    BY <1>0, <1>12, RepositoryMoves
  <1>13. CASE OmitStep \/ BeginStep \/ MergeJoinsNothing \/ Pause \/ Mismatch \/ BeginAbsorption \/ AbsorbBlocked
    <2>1. UNCHANGED gitVars
      BY <1>13 DEF OmitStep, BeginStep, MergeJoinsNothing, Pause, Mismatch, BeginAbsorption, AbsorbBlocked
    <2>2. QED
      BY <1>12, <2>1
  <1>14. CASE \/ AdvanceCursor \/ FinishStep \/ RecordApplication \/ RecordJoin \/ AnchorStep \/ Advance
              \/ QueueDone \/ Verified \/ RecordOverlay \/ OverlayMismatch \/ CommitFails
    <2>1. UNCHANGED gitVars
      BY <1>14 DEF AdvanceCursor, FinishStep, RecordApplication, RecordJoin, AnchorStep, Advance,
         QueueDone, Verified, RecordOverlay, OverlayMismatch, CommitFails
    <2>2. QED
      BY <1>12, <2>1
  <1>15. CASE Publish \/ ReleaseAnchors \/ ClearJournal \/ AbortClear \/ Crash \/ Begins \/ Forecasts
    <2>1. UNCHANGED gitVars
      BY <1>15 DEF Publish, ReleaseAnchors, ClearJournal, AbortClear, Crash, Begins, Forecasts, Begin, Forecast
    <2>2. QED
      BY <1>12, <2>1
  <1>16. CASE Continues
    <2>1. UNCHANGED gitVars
      BY <1>16 DEF Continues, ContinueConflict, ContinueMessage, ContinueContent, ContinueAbsorption, Resumes
    <2>2. QED
      BY <1>12, <2>1
  <1>17. CASE UNCHANGED vars
    BY <1>12, <1>17 DEF vars
  <1>18. QED
    BY <1>2, <1>3, <1>4, <1>5, <1>6, <1>7, <1>8, <1>9, <1>10, <1>11, <1>13, <1>14, <1>15, <1>16, <1>17, Zenon
       DEF Next, CommandStep, PersonStep

-----------------------------------------------------------------------------

(* The operation in the journal and in memory, step by step.               *)

MemoryHolds ==
    /\ Typed(op', Len(objs)) /\ Typed(journal', Len(objs))
    /\ pc' = "idle" => op' = NoOperation
    /\ Standing'

LEMMA StepStands ==
    ASSUME TypesIInv, pc \in Stepping, pc' \in Stepping \ {"pick", "merge"}, Typed(op', Len(objs)), Steady(op, op'),
           journal' = journal \/ journal' = op',
           NextStep.kind = "merge" /\ (pc' \in {"join", "batch", "continue"} \/ (pc' = "paused" /\ op'.state = "conflicted"))
              => mh' # NoCommit
    PROVE  MemoryHolds
  <1>1. AtStep(op') /\ NextStep' = NextStep
    BY DEF TypesIInv, Standing, Steady, Same, AtStep, NextStep
  <1>2. (journal'.state \notin {"applying", "blocked"} => AtStep(journal')) /\ Typed(journal', Len(objs))
    BY <1>1 DEF TypesIInv, Standing, Memory
  <1>3. pc' # "idle" /\ pc' # "anchor"
    BY DEF Stepping
  <1>4. Standing'
    BY <1>1, <1>2, <1>3 DEF Standing, AtStep
  <1>5. QED
    BY <1>2, <1>3, <1>4 DEF MemoryHolds

LEMMA PhaseStands ==
    ASSUME TypesIInv, pc' \notin Stepping \cup {"idle"}, Typed(op', Len(objs)),
           \/ journal' = journal
           \/ journal' = op' /\ op'.state \in {"applying", "blocked"},
           pc' = "anchor" => op'.next > 1
    PROVE  MemoryHolds
  <1>1. (journal'.state \notin {"applying", "blocked"} => AtStep(journal')) /\ Typed(journal', Len(objs))
    BY DEF TypesIInv, Standing, Memory
  <1>2. Standing'
    BY <1>1 DEF Standing, Stepping, AtStep
  <1>3. QED
    BY <1>1, <1>2 DEF MemoryHolds

LEMMA StopStands ==
    ASSUME TypesIInv, Stop,
           \/ journal' = journal \/ journal' = NoOperation
           \/ /\ Typed(journal', Len(objs)) /\ Steady(op, journal')
              /\ journal'.state \in {"applying", "blocked"} \/ pc \in Stepping
    PROVE  MemoryHolds
  <1>1. pc' = "idle" /\ op' = NoOperation
    BY DEF Stop, Go
  <1>2. Len(objs) \in Nat
    BY CommitsTrue DEF TypesIInv
  <1>3. Typed(NoOperation, Len(objs)) /\ NoOperation.state = "applying"
    BY <1>2, NothingTyped DEF NoOperation
  <1>4. (journal'.state \notin {"applying", "blocked"} => AtStep(journal')) /\ Typed(journal', Len(objs))
    <2>1. CASE journal' = journal \/ journal' = NoOperation
      BY <1>3, <2>1 DEF TypesIInv, Standing, Memory
    <2>2. CASE /\ Typed(journal', Len(objs)) /\ Steady(op, journal')
               /\ journal'.state \in {"applying", "blocked"} \/ pc \in Stepping
      BY <2>2 DEF TypesIInv, Standing, Steady, Same, AtStep
    <2>3. QED
      BY <2>1, <2>2
  <1>5. Standing'
    BY <1>1, <1>4 DEF Standing, Stepping, AtStep
  <1>6. QED
    BY <1>1, <1>3, <1>4, <1>5 DEF MemoryHolds

LEMMA RestStands ==
    ASSUME TypesIInv, UNCHANGED <<journal, pc, op>>, pc = "idle" \/ mh' = mh
    PROVE  MemoryHolds
  <1>1. NextStep' = NextStep /\ (AtStep(op') <=> AtStep(op)) /\ (AtStep(journal') <=> AtStep(journal))
    BY DEF NextStep, AtStep
  <1>2. Standing'
    BY <1>1 DEF TypesIInv, Standing, Stepping, AtStep
  <1>3. QED
    BY <1>2 DEF MemoryHolds, TypesIInv, Memory

(* Within a step.                                                          *)
LEMMA MemoryInStep ==
    ASSUME TypesIInv,
           \/ PickApplies \/ PickConflicts \/ StepBlocked \/ MergeApplies \/ MergeConflicts \/ MergeJoinsNothing
           \/ ContinuePick \/ CommitJoin \/ AbsorbApplies \/ AbsorbConflicts \/ AbsorbBlocked \/ Meld
           \/ FinishStep \/ RewordStep \/ EditStep \/ BeginAbsorption \/ AdvanceCursor \/ ApplyForecast
    PROVE  MemoryHolds
  <1> USE DEF Works, Thinks, Journals, Write, Go
  <1> DEFINE n == Len(objs)
  <1>0. /\ pc \in Stepping /\ pc' \in Stepping \ {"pick", "merge"} /\ (journal' = journal \/ journal' = op')
    BY DEF PickApplies, PickConflicts, StepBlocked, MergeApplies, MergeConflicts, MergeJoinsNothing,
           ContinuePick, CommitJoin, AbsorbApplies, AbsorbConflicts, AbsorbBlocked, Meld,
           FinishStep, RewordStep, EditStep, BeginAbsorption, AdvanceCursor, ApplyForecast, Stepping
  <1>1. Sound(op) /\ Typed(op, n) /\ Steady(op, op) /\ pc # "idle"
    BY <1>0 DEF TypesIInv, RebaseIInv, RebaseKinds, Memory, Steady, Same, Stepping
  <1>2. {"conflicted", "blocked", "awaiting-message", "awaiting-content", "awaiting-absorption"} \subseteq State
    BY DEF State
  <1> HIDE DEF n
  <1>3. CASE PickApplies \/ ContinuePick \/ CommitJoin \/ AbsorbApplies \/ Meld
    <2>1. op' = op /\ pc' \in {"finish", "absorb", "record", "record-join", "cursor"}
      BY <1>3 DEF PickApplies, ContinuePick, CommitJoin, AbsorbApplies, Meld
    <2>2. QED
      BY <1>0, <1>1, <2>1, StepStands DEF n
  <1>4. CASE MergeApplies
    <2>1. op' = op /\ pc' = "join" /\ pc = "merge" /\ mh' = op.current.joins
      BY <1>4 DEF MergeApplies
    <2>2. mh' # NoCommit
      BY <2>1 DEF TypesIInv, Standing
    <2>3. QED
      BY <1>0, <1>1, <2>1, <2>2, StepStands DEF n
  <1>5. CASE PickConflicts \/ MergeConflicts
    <2>1. op' = [op EXCEPT !.state = "conflicted", !.current.conflicted = TRUE]
      BY <1>5 DEF PickConflicts, MergeConflicts
    <2>2. Typed(op', n) /\ Steady(op, op')
      BY <1>1, <2>1, RetypedConflict
    <2>3. NextStep.kind = "merge" => mh' # NoCommit
      BY <1>5 DEF PickConflicts, MergeConflicts, TypesIInv, Standing
    <2>4. QED
      BY <1>0, <2>2, <2>3, StepStands DEF n
  <1>6. CASE StepBlocked \/ MergeJoinsNothing \/ AbsorbConflicts \/ AbsorbBlocked
    <2>1. /\ op' = [op EXCEPT !.state = "blocked"] \/ op' = [op EXCEPT !.state = "awaiting-absorption"]
          /\ pc' = "paused"
      BY <1>6 DEF StepBlocked, MergeJoinsNothing, AbsorbConflicts, AbsorbBlocked
    <2>2. Typed(op', n) /\ Steady(op, op') /\ op'.state \in {"blocked", "awaiting-absorption"}
      BY <1>1, <1>2, <2>1, RetypedState
    <2>3. QED
      BY <1>0, <2>1, <2>2, StepStands DEF n
  <1>7. CASE FinishStep
    <2>1. pc' \in {"paused", "record"}
      BY <1>7 DEF FinishStep
    <2> DEFINE t == objs[HEAD].tree
    <2>2. \/ op' = op /\ pc' = "record"
          \/ \E v \in {"awaiting-message", "awaiting-content"} : op' = [op EXCEPT !.current.treeBefore = t, !.state = v]
      BY <1>7, Zenon DEF FinishStep
    <2>3. t \in SUBSET Content
      BY CommitsTrue DEF TypesIInv
    <2> HIDE DEF t
    <2>4. CASE op' = op /\ pc' = "record"
      BY <1>0, <1>1, <2>4, StepStands DEF n
    <2>5. ASSUME NEW v \in {"awaiting-message", "awaiting-content"}, op' = [op EXCEPT !.current.treeBefore = t, !.state = v]
          PROVE  MemoryHolds
      <3>1. v \in State /\ v # "conflicted"
        BY <1>2
      <3>2. Typed(op', n) /\ Steady(op, op') /\ op'.state = v
        <4>1. /\ Unmoved(op, op') /\ op'.state = v /\ op'.remat = op.remat /\ op'.amendments = op.amendments
              /\ op'.current = [op.current EXCEPT !.treeBefore = t]
          BY <1>1, <2>5 DEF Sound, Shaped, Same, Unmoved
        <4>2. op.current \in Current /\ op.remat \in BOOLEAN /\ op.amendments \in Seq(Amendment)
          BY <1>1 DEF Typed
        <4>3. op'.current \in Current /\ op'.current.commit = op.current.commit /\ op'.current.joins = op.current.joins
          BY <2>3, <4>1, <4>2 DEF Current
        <4>4. QED
          BY <1>1, <3>1, <4>1, <4>2, <4>3, Retyped
      <3>3. QED
        BY <1>0, <2>1, <3>1, <3>2, StepStands DEF n
    <2>6. QED
      BY <2>2, <2>4, <2>5
  <1>8. CASE RewordStep
    <2>1. \/ op' = op /\ pc' = "record"
          \/ op' = [op EXCEPT !.state = "blocked"] /\ pc' = "paused"
      BY <1>8 DEF RewordStep
    <2>2. Typed(op', n) /\ Steady(op, op') /\ (pc' = "paused" => op'.state = "blocked")
      BY <1>1, <1>2, <2>1, RetypedState
    <2>3. QED
      BY <1>0, <2>1, <2>2, StepStands DEF n
  <1>9. CASE EditStep
    <2> DEFINE e == [of |-> objs[op.current.commit].of, commit |-> New, origin |-> op.current.commit]
    <2>1. pc' = "record" /\ (op' = op \/ op' = [op EXCEPT !.amendments = Append(@, e)])
      BY <1>9, Zenon DEF EditStep
    <2>2. op.current.commit \in Objects /\ Len(objs) \in Nat
      BY <1>0, <1>1, OperationTrue, CommitsTrue DEF TypesIInv
    <2>3. objs[op.current.commit].of \in Change \cup {None} /\ New \in Nat /\ op.current.commit \in Nat
      BY <2>2, CommitsTrue DEF TypesIInv, New, Objects
    <2>4. e \in Amendment
      BY <2>3 DEF Amendment
    <2> HIDE DEF e
    <2>5. Typed(op', n) /\ Steady(op, op')
      BY <1>1, <2>1, <2>4, RetypedAmended
    <2>6. QED
      BY <1>0, <2>1, <2>5, StepStands DEF n
  <1>10. CASE BeginAbsorption \/ AdvanceCursor
    <2>1. /\ op' = [op EXCEPT !.current.cursor = 1] \/ op' = [op EXCEPT !.current.cursor = @ + 1]
          /\ pc' = "absorb"
      BY <1>10 DEF BeginAbsorption, AdvanceCursor
    <2>2. Typed(op', n) /\ Steady(op, op')
      BY <1>1, <2>1, RetypedCursor
    <2>3. QED
      BY <1>0, <2>1, <2>2, StepStands DEF n
  <1>11. CASE ApplyForecast
    <2>1. op' = op /\ pc' = "batch" /\ mh' = mh /\ pc = "paused" /\ op.state = "conflicted"
      BY <1>11 DEF ApplyForecast
    <2>2. NextStep.kind = "merge" => mh' # NoCommit
      BY <2>1 DEF TypesIInv, Standing
    <2>3. QED
      BY <1>0, <1>1, <2>1, <2>2, StepStands DEF n
  <1>12. QED
    BY <1>3, <1>4, <1>5, <1>6, <1>7, <1>8, <1>9, <1>10, <1>11

(* A step of the queue that is done.                                       *)
LEMMA MemoryEndsStep ==
    ASSUME TypesIInv, OmitStep \/ RecordApplication \/ RecordJoin
    PROVE  MemoryHolds
  <1> USE DEF Thinks, Keep, Go
  <1> DEFINE n == Len(objs)
             c == op.current.commit
             h == HEAD
  <1>1. /\ pc # "idle" /\ journal' = journal /\ pc' \notin {"pick", "merge"}
        /\ MoreSteps /\ (pc = "queue" \/ pc \in Stepping)
    <2>1. /\ journal' = journal /\ pc' \notin {"pick", "merge"}
          /\ (pc = "queue" /\ MoreSteps) \/ pc \in {"record", "record-join"}
      BY DEF OmitStep, RecordApplication, RecordJoin
    <2>2. QED
      BY <2>1, OperationTrue DEF Stepping
  <1>2. Sound(op) /\ Typed(op, n) /\ n \in Nat /\ op.next <= Len(op.queue) /\ h \in 1..n
    BY <1>1, OperationTrue, CommitsTrue DEF TypesIInv, MoreSteps, Objects
  <1>3. pc \in Stepping => c \in 1..n /\ c = op.queue[op.next].commit
    BY <1>1, OperationTrue DEF AtStep, Objects
  <1>4. /\ op.current \in Current /\ op.applied \in Seq(Application) /\ op.joins \in Seq(Join)
        /\ op.absorptions \in Seq(Absorption) /\ op.current.joins \in 0..n /\ op.state \in State /\ op.remat \in BOOLEAN
    BY <1>2 DEF Typed
  <1>5. NoCurrent \in Current /\ NoCurrent.joins \in 0..n /\ "applying" \in State /\ "blocked" \in State
    BY <1>2 DEF NoCurrent, Current, NoCommit, State
  <1> HIDE DEF n, c, h
  <1>6. ASSUME Typed(op', n), op'.next > 1, pc' \in {"anchor", "advance"}
        PROVE  MemoryHolds
    BY <1>1, <1>6, PhaseStands DEF n, Stepping
  <1>7. CASE OmitStep
    <2> DEFINE m == Mapped(op, NextStep.parents[1])
               d == NextStep.commit
    <2>1. op' = [op EXCEPT !.rewritten[d] = m, !.next = @ + 1] /\ pc' \in {"anchor", "advance"}
      BY <1>7 DEF OmitStep
    <2>2. m \in 1..n /\ d = op.queue[op.next].commit
      BY <1>1, OperationTrue DEF n, Objects, NextStep
    <2> HIDE DEF m, d
    <2>3. /\ Same(op, op') /\ op'.next = op.next + 1 /\ op'.rewritten = [op.rewritten EXCEPT ![d] = m]
          /\ op'.applied = op.applied /\ op'.joins = op.joins /\ op'.absorptions = op.absorptions
          /\ op'.amendments = op.amendments /\ op'.current = op.current /\ op'.state = op.state /\ op'.remat = op.remat
      BY <1>2, <2>1 DEF Sound, Shaped, Same
    <2>4. DoneAs(op, op', d, m) /\ op'.current.joins \in 0..n
      BY <1>4, <2>3, Zenon DEF DoneAs
    <2>5. Typed(op', n) /\ op'.next > 1
      BY <1>2, <2>2, <2>4, TypedCompleted, Zenon
    <2>6. QED
      BY <1>6, <2>1, <2>5
  <1>8. CASE RecordJoin
    <2> DEFINE j == [origin |-> c, commit |-> h, parents |-> <<op.current.before, op.current.joins>>]
    <2>1. /\ op' = [op EXCEPT !.joins = Append(@, j), !.rewritten[c] = h, !.next = @ + 1,
                              !.current = NoCurrent, !.state = "applying"]
          /\ pc' \in {"anchor", "advance"} /\ pc \in Stepping
      BY <1>8 DEF RecordJoin, c, h, Stepping
    <2>2. j \in Join
      <3>1. op.current.before \in Nat /\ op.current.joins \in Nat /\ c \in Nat /\ h \in Nat
        BY <1>2, <1>3, <1>4, <2>1 DEF Current
      <3>2. <<op.current.before, op.current.joins>> \in Seq(Nat)
        BY <3>1
      <3>3. QED
        BY <3>1, <3>2 DEF Join
    <2> HIDE DEF j
    <2>3. Append(op.joins, j) \in Seq(Join)
      BY <1>4, <2>2, AppendProperties
    <2>4. /\ Same(op, op') /\ op'.next = op.next + 1 /\ op'.rewritten = [op.rewritten EXCEPT ![c] = h]
          /\ op'.applied = op.applied /\ op'.joins = Append(op.joins, j) /\ op'.absorptions = op.absorptions
          /\ op'.amendments = op.amendments /\ op'.current = NoCurrent /\ op'.state = "applying" /\ op'.remat = op.remat
      BY <1>2, <2>1 DEF Sound, Shaped, Same
    <2>5. DoneAs(op, op', c, h) /\ op'.current.joins \in 0..n
      BY <1>4, <1>5, <2>3, <2>4, Zenon DEF DoneAs
    <2>6. Typed(op', n) /\ op'.next > 1
      BY <1>2, <1>3, <2>1, <2>5, TypedCompleted, Zenon
    <2>7. QED
      BY <1>6, <2>1, <2>6
  <1>9. CASE RecordApplication
    <2>1. pc = "record" /\ pc \in Stepping /\ \/ op' = Recorded(op) /\ pc' \in {"anchor", "advance"}
                                              \/ op' = [op EXCEPT !.state = "blocked"] /\ pc' = "paused"
      BY <1>9 DEF RecordApplication, Stepping
    <2>2. CASE op' = Recorded(op) /\ pc' \in {"anchor", "advance"}
      <3> DEFINE app == [origin |-> c, commit |-> h, fork |-> op.current.fork]
                 ab == [survivor |-> h, absorbed |-> Elements(op.queue[op.next].absorbs)]
                 abs == IF op.current.cursor = 0 THEN op.absorptions ELSE Append(op.absorptions, ab)
      <3>1. op' = [op EXCEPT !.applied = Append(@, app), !.absorptions = abs, !.rewritten[c] = h,
                             !.next = @ + 1, !.current = NoCurrent, !.state = "applying"]
        BY <2>2, Zenon DEF Recorded, c, h
      <3>2. app \in Application /\ ab \in Absorption
        <4>1. c \in Nat /\ h \in Nat /\ op.current.fork \in BOOLEAN
          BY <1>2, <1>3, <1>4, <2>1 DEF Current
        <4>2. Elements(op.queue[op.next].absorbs) \in SUBSET Nat
          <5>1. NextStep.absorbs \in Seq(Nat)
            BY <1>1, OperationTrue
          <5>2. QED
            BY <5>1, LenProperties DEF NextStep, Elements
        <4>3. QED
          BY <4>1, <4>2 DEF Application, Absorption
      <3> HIDE DEF app, ab
      <3>3. Append(op.applied, app) \in Seq(Application) /\ abs \in Seq(Absorption)
        BY <1>4, <3>2, AppendProperties
      <3> HIDE DEF abs
      <3>4. /\ Same(op, op') /\ op'.next = op.next + 1 /\ op'.rewritten = [op.rewritten EXCEPT ![c] = h]
            /\ op'.applied = Append(op.applied, app) /\ op'.joins = op.joins /\ op'.absorptions = abs
            /\ op'.amendments = op.amendments /\ op'.current = NoCurrent /\ op'.state = "applying" /\ op'.remat = op.remat
        BY <1>2, <3>1 DEF Sound, Shaped, Same
      <3>5. DoneAs(op, op', c, h) /\ op'.current.joins \in 0..n
        BY <1>4, <1>5, <3>3, <3>4, Zenon DEF DoneAs
      <3>6. Typed(op', n) /\ op'.next > 1
        BY <1>2, <1>3, <2>1, <3>5, TypedCompleted, Zenon
      <3>7. QED
        BY <1>6, <2>2, <3>6
    <2>3. CASE op' = [op EXCEPT !.state = "blocked"] /\ pc' = "paused"
      <3>1. Typed(op', n) /\ Steady(op, op') /\ op'.state = "blocked"
        BY <1>2, <1>5, <2>3, RetypedState
      <3>2. QED
        BY <1>1, <2>1, <2>3, <3>1, StepStands DEF n, Stepping
    <2>4. QED
      BY <2>1, <2>2, <2>3
  <1>10. QED
    BY <1>7, <1>8, <1>9

(* A step that begins says which it is and, for a join, what it joins.     *)
LEMMA MemoryBeginsStep ==
    ASSUME TypesIInv, BeginStep
    PROVE  MemoryHolds
  <1> DEFINE n == Len(objs)
             c == NextStep.commit
             j == IF NextStep.kind = "merge" THEN Mapped(op, NextStep.parents[2]) ELSE NoCommit
             cur == [NoCurrent EXCEPT !.commit = c, !.before = HEAD, !.joins = j]
  <1>1. /\ pc = "queue" /\ MoreSteps /\ NextStep.kind # "omit" /\ journal' = op' /\ pc' = NextStep.kind
        /\ op' = [op EXCEPT !.state = "applying", !.current = cur]
    BY DEF BeginStep, Write, Go
  <1>2. Sound(op) /\ Typed(op, n) /\ n \in Nat /\ c \in Objects /\ HEAD \in Objects /\ op.next \in 1..Len(op.queue)
        /\ pc' \in {"pick", "merge"}
    BY <1>1, OperationTrue, CommitsTrue DEF TypesIInv
  <1>3. j \in 0..n /\ (NextStep.kind = "merge" => j # NoCommit)
    BY <1>1, <1>2, OperationTrue DEF Objects, NoCommit
  <1>4. cur \in Current /\ cur.commit = c /\ cur.joins = j
    <2>1. c \in Nat /\ HEAD \in Nat /\ j \in Nat
      BY <1>2, <1>3 DEF Objects
    <2> HIDE DEF c, j
    <2>2. QED
      BY <2>1 DEF NoCurrent, Current, NoCommit
  <1> HIDE DEF n, c, j, cur
  <1>5. /\ Unmoved(op, op') /\ op'.state = "applying" /\ op'.remat = op.remat /\ op'.amendments = op.amendments
        /\ op'.current = cur
    BY <1>1, <1>2 DEF Sound, Shaped, Same, Unmoved
  <1>6. Typed(op', n)
    BY <1>2, <1>3, <1>4, <1>5, TypedKept DEF Typed, Unmoved, State
  <1>7. NextStep' = NextStep /\ AtStep(op') /\ op'.current.joins = j
    BY <1>4, <1>5 DEF Unmoved, Same, NextStep, AtStep, c
  <1>8. Standing'
    BY <1>1, <1>2, <1>3, <1>5, <1>7 DEF Standing, Stepping
  <1>9. QED
    BY <1>1, <1>2, <1>6, <1>8 DEF MemoryHolds, n

(* A command that ends.                                                    *)
LEMMA MemoryStops ==
    ASSUME TypesIInv,
           Pause \/ Mismatch \/ OverlayMismatch \/ CommitFails \/ Crash \/ ClearJournal \/ AbortClear
    PROVE  MemoryHolds
  <1>1. pc # "idle" /\ Stop
    BY DEF Pause, Mismatch, OverlayMismatch, CommitFails, Crash, ClearJournal, AbortClear
  <1>2. Sound(op) /\ Typed(op, Len(objs)) /\ Steady(op, op) /\ "blocked" \in State
    BY <1>1, OperationTrue DEF Steady, Same, State
  <1>3. CASE CommitFails \/ Crash \/ ClearJournal \/ AbortClear
    BY <1>1, <1>3, StopStands DEF CommitFails, Crash, ClearJournal, AbortClear
  <1>4. CASE Pause
    <2>1. pc \in Stepping /\ (journal' = op \/ journal' = [op EXCEPT !.state = "blocked"])
      BY <1>4 DEF Pause, Stepping
    <2>2. Typed(journal', Len(objs)) /\ Steady(op, journal')
      BY <1>2, <2>1, RetypedState
    <2>3. QED
      BY <1>1, <2>1, <2>2, StopStands
  <1>5. CASE Mismatch
    <2>1. journal' = [op EXCEPT !.state = "blocked"]
      BY <1>5 DEF Mismatch
    <2>2. Typed(journal', Len(objs)) /\ Steady(op, journal') /\ journal'.state = "blocked"
      BY <1>2, <2>1, RetypedState
    <2>3. QED
      BY <1>1, <2>2, StopStands
  <1>6. CASE OverlayMismatch
    <2>1. journal' = [op EXCEPT !.remat = TRUE, !.state = "blocked"]
      BY <1>6 DEF OverlayMismatch
    <2>2. Typed(journal', Len(objs)) /\ Steady(op, journal') /\ journal'.state = "blocked"
      BY <1>2, <2>1, RetypedMismatch
    <2>3. QED
      BY <1>1, <2>2, StopStands
  <1>7. QED
    BY <1>3, <1>4, <1>5, <1>6

(* A command between its steps.                                            *)
LEMMA MemoryInPhase ==
    ASSUME TypesIInv,
           \/ RemoveDraftFiles \/ ReduceToHead \/ ResetOnto \/ PositionStep \/ AnchorStep \/ Advance
           \/ QueueDone \/ Verified \/ MaterializeOverlay \/ RecordOverlay \/ Publish \/ ReleaseAnchors
           \/ AbortReset \/ AbortRestore
    PROVE  MemoryHolds
  <1> USE DEF Works, Thinks, Journals, Write, Go
  <1>1. /\ pc # "idle" /\ pc' \notin Stepping \cup {"idle", "anchor"}
        /\ \/ op' = op /\ journal' = journal
           \/ pc = "advance" /\ op' = op /\ journal' = op
           \/ pc = "remat" /\ op' = [op EXCEPT !.remat = TRUE] /\ journal' = op'
    BY DEF RemoveDraftFiles, ReduceToHead, ResetOnto, PositionStep, AnchorStep, Advance, QueueDone, Verified,
       MaterializeOverlay, RecordOverlay, Publish, ReleaseAnchors, AbortReset, AbortRestore, Stepping
  <1>2. Sound(op) /\ Typed(op, Len(objs))
    BY <1>1, OperationTrue
  <1>3. pc \in {"advance", "remat"} => op.state = "applying"
    BY <1>1, Runs DEF TypesIInv, Moving, Finishing
  <1>4. Typed(op', Len(objs)) /\ op'.state = op.state
    BY <1>1, <1>2, RetypedDraft
  <1>5. QED
    BY <1>1, <1>3, <1>4, PhaseStands

(* A new operation: its plan is of the repository, and nothing is done yet.*)
LEMMA BegunTyped ==
    ASSUME NEW n \in Nat, NEW o, NEW number, NEW on \in Branch, NEW head \in 1..n, NEW onto \in 1..n,
           NEW q, Planned(q, n), NEW rewritten, rewritten = [c \in {q[i].commit : i \in 1..Len(q)} |-> NoCommit],
           NEW draft \in {"draft", None}, NEW approved \in BOOLEAN,
           BegunAs(o, number, on, head, onto, q, rewritten, draft, approved)
    PROVE  Typed(o, n) /\ o.state = "applying"
  <1>1. Len(q) \in Nat /\ \A i \in 1..Len(q) : q[i].commit \in 1..n
    BY LenProperties DEF Planned
  <1>2. o.queue = q /\ o.next = 1 /\ o.rewritten = rewritten /\ o.state = "applying"
    BY Zenon DEF BegunAs
  <1>3. Mapping(o, n)
    BY <1>1, <1>2 DEF Mapping, NoCommit
  <1>4. o.current \in Current /\ o.current.joins \in 0..n
    <2>1. NoCurrent \in Current /\ NoCurrent.joins \in 0..n
      BY DEF NoCurrent, Current, NoCommit
    <2>2. QED
      BY <2>1, Zenon DEF BegunAs
  <1>5. /\ o.applied \in Seq(Application) /\ o.joins \in Seq(Join)
        /\ o.amendments \in Seq(Amendment) /\ o.absorptions \in Seq(Absorption)
    BY EmptySeq, Zenon DEF BegunAs
  <1>6. o.next \in 1..(Len(o.queue) + 1) /\ head \in 0..n /\ onto \in 0..n /\ head # NoCommit /\ onto # NoCommit
    BY <1>1, <1>2 DEF NoCommit
  <1>7. /\ o.branch \in Branch /\ o.orig \in 0..n /\ o.onto \in 0..n /\ o.orig # NoCommit /\ o.onto # NoCommit
        /\ o.state \in State /\ o.overlay \in {"draft", None} /\ o.remat \in BOOLEAN /\ o.forecast \in BOOLEAN
    BY <1>6, Zenon DEF BegunAs, State
  <1>8. Planned(o.queue, n)
    BY <1>2, Zenon
  <1>9. QED
    BY <1>2, <1>3, <1>4, <1>5, <1>6, <1>7, <1>8, Zenon DEF Typed

LEMMA AsksTrue ==
    ASSUME TypesIInv, ops < Len(asks), NEW request, request \in asks[ops + 1]
    PROVE  request.program \in Program /\ request.forecasted \in BOOLEAN /\ request.overlay \in {"draft", None}
  <1>1. asks \in Seq(SUBSET Request) /\ ops \in Nat /\ Len(asks) \in Nat
    BY LenProperties DEF TypesIInv, Bounded, RebaseIInv, RebaseKinds
  <1>2. ops + 1 \in 1..Len(asks)
    BY <1>1
  <1>3. asks[ops + 1] \in SUBSET Request
    BY <1>1, <1>2, LenProperties
  <1>4. request \in Request
    BY <1>3
  <1>5. QED
    BY <1>4 DEF Request

LEMMA MemoryBegins ==
    ASSUME TypesIInv, Begins
    PROVE  MemoryHolds
  <1>1. PICK request \in asks[ops + 1], accept \in BOOLEAN : Begin(request, accept)
    BY Zenon DEF Begins
  <1> DEFINE onto == tip["main"]
             queue == Queue(HEAD, onto, request.program)
             rewritten == [c \in {queue[i].commit : i \in 1..Len(queue)} |-> NoCommit]
             on == branch
             head == HEAD
             draft == request.overlay
             approved == request.forecasted
             number == ops + 1
             begun == NewOperation(number, on, head, onto, queue, rewritten, draft, approved)
             n == Len(objs)
  <1>2. op' = begun /\ journal' = begun /\ pc' \in {"reset", "reduce"}
    BY <1>1 DEF Begin, Write, Go, NewOperation
  <1>3. request.program \in Program /\ approved \in BOOLEAN /\ draft \in {"draft", None}
    BY <1>1, AsksTrue DEF Begins
  <1>4. Planned(queue, n)
    BY <1>3, QueuePlanned DEF TypesIInv, Repository
  <1>5. n \in Nat /\ head \in 1..n /\ onto \in 1..n /\ on \in Branch
    BY CommitsTrue DEF TypesIInv, Repository, Objects
  <1>6. rewritten = [c \in {queue[i].commit : i \in 1..Len(queue)} |-> NoCommit]
    OBVIOUS
  <1> HIDE DEF onto, queue, on, head, draft, approved, number, n, rewritten
  <1>7. BegunAs(begun, number, on, head, onto, queue, rewritten, draft, approved)
    BY Begun, Zenon
  <1> HIDE DEF begun
  <1>8. Typed(begun, n) /\ begun.state = "applying"
    BY <1>3, <1>4, <1>5, <1>6, <1>7, BegunTyped, Zenon
  <1>9. QED
    BY <1>2, <1>8, PhaseStands DEF Stepping, n

LEMMA MemoryContinues ==
    ASSUME TypesIInv, Continues
    PROVE  MemoryHolds
  <1> USE DEF Resumes, Write, Go
  <1>0. Sound(journal) /\ Typed(journal, Len(objs)) /\ Steady(journal, journal)
        /\ (journal.state \notin {"applying", "blocked"} => AtStep(journal))
    BY DEF TypesIInv, RebaseIInv, RebaseKinds, Memory, Standing, Steady, Same
  <1>1. ASSUME pc' \in {"continue", "reword", "edit", "absorb"}, journal' = op', Typed(op', Len(objs)), Steady(journal, op'),
               journal.state \notin {"applying", "blocked"},
               pc' = "continue" /\ journal.queue[journal.next].kind = "merge" => mh' # NoCommit
        PROVE  MemoryHolds
    <2>1. AtStep(op') /\ NextStep' = journal.queue[journal.next]
      BY <1>0, <1>1 DEF Steady, Same, AtStep, NextStep
    <2>2. AtStep(journal')
      BY <1>1, <2>1
    <2>3. Standing'
      BY <1>1, <2>1, <2>2 DEF Standing, AtStep
    <2>4. QED
      BY <1>1, <2>3 DEF MemoryHolds
  <1>2. ASSUME NEW fork \in BOOLEAN, ContinueConflict(fork)
        PROVE  MemoryHolds
    <2>1. /\ pc' = "continue" /\ journal' = op' /\ journal.state = "conflicted" /\ Continuable(journal) /\ mh' = mh
          /\ op' = [journal EXCEPT !.current.fork = @ \/ fork]
      BY <1>2 DEF ContinueConflict, gitVars, treeVars
    <2>2. Typed(op', Len(objs)) /\ Steady(journal, op')
      BY <1>0, <2>1, RetypedFork
    <2>3. journal.queue[journal.next].kind = "merge" => mh' # NoCommit
      BY <2>1 DEF Continuable, PendingInGit
    <2>4. QED
      BY <1>1, <2>1, <2>2, <2>3
  <1>3. CASE ContinueMessage \/ ContinueContent
    <2>1. pc' \in {"reword", "edit"} /\ op' = journal /\ journal' = journal
          /\ journal.state \in {"awaiting-message", "awaiting-content"}
      BY <1>3 DEF ContinueMessage, ContinueContent
    <2>2. QED
      BY <1>0, <1>1, <2>1
  <1>4. CASE ContinueAbsorption
    <2>1. /\ pc' = "absorb" /\ journal' = op' /\ journal.state = "awaiting-absorption"
          /\ op' = [journal EXCEPT !.current.cursor = @ + 1, !.state = "applying"]
      BY <1>4 DEF ContinueAbsorption
    <2>2. Typed(op', Len(objs)) /\ Steady(journal, op')
      BY <1>0, <2>1, RetypedTakenUp
    <2>3. QED
      BY <1>1, <2>1, <2>2
  <1>5. QED
    BY <1>2, <1>3, <1>4, Zenon DEF Continues

LEMMA MemoryAborts ==
    ASSUME TypesIInv, Abort
    PROVE  MemoryHolds
  <1>1. pc' = "undo" /\ op' = journal /\ journal' = journal
    BY DEF Abort, Go
  <1>2. QED
    BY <1>1, PhaseStands DEF TypesIInv, Memory, Stepping

(* What the person does, and a forecast, touch neither.                    *)
LEMMA MemoryRests ==
    ASSUME TypesIInv, PersonStep \/ Forecasts \/ UNCHANGED vars
    PROVE  MemoryHolds
  <1> USE DEF Outside, Acts, ActsIf, AtRest, procVars
  <1>1. ASSUME Resolve \/ GitContinue \/ GitAbandon \/ CommitAbsorbed \/ ThrowAway
        PROVE  pc = "idle" /\ UNCHANGED <<journal, pc, op>>
    BY <1>1 DEF Resolve, GitContinue, GitAbandon, CommitAbsorbed, ThrowAway
  <1>2. ASSUME NEW b \in Branch, Checkout(b) \/ Land(b)
        PROVE  pc = "idle" /\ UNCHANGED <<journal, pc, op>>
    BY <1>2 DEF Checkout, Land
  <1>3. ASSUME CommitOwn \/ Edit \/ CaptureDraft \/ MainMoves \/ CleanUp \/ GoBack
        PROVE  pc = "idle" /\ UNCHANGED <<journal, pc, op>>
    BY <1>3 DEF CommitOwn, Edit, CaptureDraft, MainMoves, CleanUp, GoBack
  <1>4. ASSUME PersonStep PROVE pc = "idle" /\ UNCHANGED <<journal, pc, op>>
    BY <1>1, <1>2, <1>3, <1>4, Zenon DEF PersonStep
  <1>5. ASSUME Forecasts PROVE pc = "idle" /\ UNCHANGED <<journal, pc, op>>
    BY <1>5 DEF Forecasts, Forecast
  <1>6. ASSUME UNCHANGED vars PROVE mh' = mh /\ UNCHANGED <<journal, pc, op>>
    BY <1>6 DEF vars, gitVars, treeVars
  <1>7. QED
    BY <1>4, <1>5, <1>6, RestStands

LEMMA MemoryStep ==
    ASSUME TypesIInv, [Next]_vars
    PROVE  MemoryHolds
  <1>1. CASE CommandStep
    BY <1>1, MemoryInStep, MemoryEndsStep, MemoryBeginsStep, MemoryStops, MemoryInPhase, Zenon DEF CommandStep
  <1>2. QED
    BY <1>1, MemoryBegins, MemoryContinues, MemoryAborts, MemoryRests, MemoryStops, Zenon DEF Next

-----------------------------------------------------------------------------

(* The rest of the type: the program counter, the anchors and the bounds.  *)

LEMMA BoundedKept ==
    ASSUME TypesIInv, Len(objs) <= Len(objs'), pc' \in PC, UNCHANGED asks,
           forecast' = forecast \/ forecast'.queue \in Seq(Step),
           ops' \in {ops, ops + 1}, ops' \in 0..Len(asks), events' \in 0..MaxEvents,
           anchors' \subseteq (1..ops) \X Objects \X Objects,
           undoing' \in BOOLEAN, meddled' \in BOOLEAN, dropped' \subseteq 1..ops
    PROVE  Bounded'
  <1>1. Len(objs) \in Nat /\ ops \in Nat
    BY CommitsTrue DEF TypesIInv, RebaseIInv, RebaseKinds
  <1>2. 1..ops \subseteq 1..ops'
    BY <1>1
  <1>3. Objects \subseteq Objects'
    <2>1. Repository' => Len(objs') \in Nat
      BY StrungTrue DEF Repository, Lineage
    <2>2. \A c \in 1..Len(objs) : c <= Len(objs')
      BY <1>1
    <2>3. QED
      BY <1>1, <2>2 DEF Objects
  <1>4. anchors' \subseteq (1..ops') \X Objects' \X Objects'
    BY <1>2, <1>3
  <1>5. QED
    BY <1>2, <1>4 DEF TypesIInv, Bounded

LEMMA BoundedCommand ==
    ASSUME TypesIInv, Repository', Len(objs) <= Len(objs'), CommandStep
    PROVE  Bounded'
  <1> USE DEF Works, Thinks, Journals, Go, Stop, Keep, Write
  <1>0. /\ ops \in Nat /\ ops \in 0..Len(asks) /\ events \in 0..MaxEvents /\ undoing \in BOOLEAN /\ meddled \in BOOLEAN
        /\ anchors \subseteq (1..ops) \X Objects \X Objects /\ dropped \subseteq 1..ops
    BY DEF TypesIInv, Bounded, RebaseIInv, RebaseKinds
  <1>1. ASSUME pc' \in PC, UNCHANGED <<anchors, forecast, histVars, boundVars>>
        PROVE  Bounded'
    BY <1>0, <1>1, BoundedKept DEF histVars, boundVars
  <1>2. CASE BeginStep
    <2>1. pc = "queue" /\ MoreSteps /\ NextStep.kind # "omit" /\ pc' = NextStep.kind
          /\ UNCHANGED <<anchors, forecast, histVars, boundVars>>
      BY <1>2 DEF BeginStep
    <2>2. pc' \in PC
      BY <2>1, OperationTrue DEF PC
    <2>3. QED
      BY <1>1, <2>1, <2>2
  <1>3. CASE \/ RemoveDraftFiles \/ ReduceToHead \/ ResetOnto \/ OmitStep \/ PositionStep \/ PickApplies
             \/ PickConflicts \/ StepBlocked \/ MergeApplies \/ MergeConflicts \/ MergeJoinsNothing
    <2>1. pc' \in {"reduced", "reset", "queue", "anchor", "advance", "finish", "absorb", "paused", "join"}
          /\ UNCHANGED <<anchors, forecast, histVars, boundVars>>
      BY <1>3 DEF RemoveDraftFiles, ReduceToHead, ResetOnto, OmitStep, PositionStep, PickApplies, PickConflicts,
         StepBlocked, MergeApplies, MergeConflicts, MergeJoinsNothing
    <2>2. QED
      BY <1>1, <2>1 DEF PC
  <1>4. CASE \/ Pause \/ ApplyForecast \/ Mismatch \/ ContinuePick \/ CommitJoin
             \/ BeginAbsorption \/ AbsorbApplies \/ AbsorbConflicts \/ AbsorbBlocked \/ AdvanceCursor \/ Meld
    <2>1. pc' \in {"idle", "batch", "record", "record-join", "absorb", "cursor", "paused", "finish"}
          /\ UNCHANGED <<anchors, forecast, histVars, boundVars>>
      BY <1>4 DEF Pause, ApplyForecast, Mismatch, ContinuePick, CommitJoin, BeginAbsorption, AbsorbApplies,
         AbsorbConflicts, AbsorbBlocked, AdvanceCursor, Meld
    <2>2. QED
      BY <1>1, <2>1 DEF PC
  <1>5. CASE FinishStep \/ RecordJoin \/ Advance \/ QueueDone \/ Verified \/ MaterializeOverlay \/ RecordOverlay \/ OverlayMismatch
    <2>1. pc' \in {"paused", "record", "anchor", "advance", "queue", "verify", "publish", "materialize", "remat", "idle"}
          /\ UNCHANGED <<anchors, forecast, histVars, boundVars>>
      BY <1>5 DEF FinishStep, RecordJoin, Advance, QueueDone, Verified, MaterializeOverlay, RecordOverlay, OverlayMismatch
    <2>2. QED
      BY <1>1, <2>1 DEF PC
  <1>6. CASE Publish \/ ClearJournal \/ RewordStep \/ EditStep \/ CommitFails \/ AbortReset \/ AbortRestore
    <2>1. pc' \in {"release", "publish", "idle", "record", "paused", "restore", "undone"}
          /\ UNCHANGED <<anchors, forecast, histVars, boundVars>>
      BY <1>6 DEF Publish, ClearJournal, RewordStep, EditStep, CommitFails, AbortReset, AbortRestore
    <2>2. QED
      BY <1>1, <2>1 DEF PC
  <1>7. CASE AbortClear
    <2>1. pc' = "idle" /\ undoing' = FALSE /\ UNCHANGED <<anchors, forecast, meddled, dropped, asks, ops, events>>
      BY <1>7 DEF AbortClear, boundVars
    <2>2. pc' \in PC
      BY <2>1 DEF PC
    <2>3. QED
      BY <1>0, <2>1, <2>2, BoundedKept
  <1>8. CASE RecordApplication
    <2>1. pc' \in {"anchor", "advance", "paused"} /\ pc # "idle" /\ dropped' \subseteq dropped \cup {op.id}
          /\ UNCHANGED <<anchors, forecast, undoing, meddled, asks, ops, events>>
      BY <1>8 DEF RecordApplication, boundVars
    <2>2. pc' \in PC
      BY <2>1 DEF PC
    <2>3. dropped' \subseteq 1..ops
      BY <1>0, <2>1, OperationTrue
    <2>4. QED
      BY <1>0, <2>1, <2>2, <2>3, BoundedKept
  <1>9. CASE AnchorStep
    <2> DEFINE c == op.queue[op.next - 1].commit
    <2>1. pc = "anchor" /\ pc' = "advance" /\ anchors' \subseteq anchors \cup {<<op.id, c, op.rewritten[c]>>}
          /\ UNCHANGED <<forecast, histVars, boundVars>>
      BY <1>9 DEF AnchorStep, Anchored
    <2>2. op.next > 1 /\ Typed(op, Len(objs)) /\ op.id \in 1..ops
      BY <2>1, OperationTrue DEF TypesIInv, Standing
    <2>3. c \in Objects /\ op.rewritten[c] \in Objects
      <3>1. op.next \in 1..(Len(op.queue) + 1) /\ Len(op.queue) \in Nat
        BY <2>2, LenProperties DEF Typed, Planned
      <3>2. op.next - 1 \in 1..Len(op.queue) /\ op.next - 1 < op.next
        BY <2>2, <3>1
      <3>3. c \in DOMAIN op.rewritten /\ op.rewritten[c] # NoCommit
        BY <2>2, <3>2 DEF Typed, Mapping
      <3>4. c \in 1..Len(objs) /\ op.rewritten[c] \in 0..Len(objs)
        BY <2>2, <3>3 DEF Typed, Mapping
      <3> HIDE DEF c
      <3>5. QED
        BY <3>3, <3>4 DEF Objects, NoCommit
    <2> HIDE DEF c
    <2>4. anchors' \subseteq (1..ops) \X Objects \X Objects /\ pc' \in PC
      BY <1>0, <2>1, <2>2, <2>3 DEF PC
    <2>5. QED
      BY <1>0, <2>1, <2>4, BoundedKept DEF histVars, boundVars
  <1>10. CASE ReleaseAnchors
    <2>1. pc' \in {"clear", "forget"} /\ anchors' \subseteq anchors /\ UNCHANGED <<forecast, histVars, boundVars>>
      BY <1>10 DEF ReleaseAnchors
    <2>2. pc' \in PC /\ anchors' \subseteq (1..ops) \X Objects \X Objects
      BY <1>0, <2>1 DEF PC
    <2>3. QED
      BY <1>0, <2>1, <2>2, BoundedKept DEF histVars, boundVars
  <1>11. QED
    BY <1>2, <1>3, <1>4, <1>5, <1>6, <1>7, <1>8, <1>9, <1>10, Zenon DEF CommandStep

LEMMA BoundedOthers ==
    ASSUME TypesIInv, Repository', Len(objs) <= Len(objs'),
           Begins \/ Forecasts \/ Continues \/ Abort \/ Crash \/ PersonStep \/ UNCHANGED vars
    PROVE  Bounded'
  <1> USE DEF Go, Stop
  <1>0. /\ ops \in Nat /\ ops \in 0..Len(asks) /\ events \in 0..MaxEvents /\ undoing \in BOOLEAN /\ meddled \in BOOLEAN
        /\ anchors \subseteq (1..ops) \X Objects \X Objects /\ dropped \subseteq 1..ops /\ pc \in PC /\ Len(asks) \in Nat
    BY LenProperties DEF TypesIInv, Bounded, RebaseIInv, RebaseKinds
  <1>1. CASE Begins
    <2>1. /\ ops < Len(asks) /\ pc' \in {"reset", "reduce"} /\ ops' = ops + 1 /\ undoing' = FALSE
          /\ forecast' = forecast \/ forecast' = NoForecast
          /\ UNCHANGED <<anchors, meddled, dropped, asks, events>>
      BY <1>1 DEF Begins, Begin
    <2>2. NoForecast.queue \in Seq(Step)
      BY EmptySeq DEF NoForecast
    <2>3. pc' \in PC /\ ops' \in 0..Len(asks) /\ (forecast' = forecast \/ forecast'.queue \in Seq(Step))
      BY <1>0, <2>1, <2>2 DEF PC
    <2>4. QED
      BY <1>0, <2>1, <2>3, BoundedKept
  <1>2. CASE Forecasts
    <2>1. PICK request \in asks[ops + 1] : Forecast(request)
      BY <1>2 DEF Forecasts
    <2>2. /\ forecast'.queue = Queue(HEAD, tip["main"], request.program) /\ pc' = pc
          /\ UNCHANGED <<anchors, histVars, boundVars>>
      BY <2>1 DEF Forecast, procVars
    <2>3. Planned(forecast'.queue, Len(objs))
      BY <1>2, <2>1, <2>2, AsksTrue, QueuePlanned DEF Forecasts, TypesIInv, Repository
    <2>4. QED
      BY <1>0, <2>2, <2>3, BoundedKept DEF Planned, histVars, boundVars
  <1>3. CASE Continues
    <2>1. pc' \in {"continue", "reword", "edit", "absorb"} /\ meddled' \in {meddled, TRUE}
          /\ UNCHANGED <<anchors, forecast, undoing, dropped, boundVars>>
      BY <1>0, <1>3 DEF Continues, ContinueConflict, ContinueMessage, ContinueContent, ContinueAbsorption, Resumes
    <2>2. pc' \in PC /\ meddled' \in BOOLEAN
      BY <1>0, <2>1 DEF PC
    <2>3. QED
      BY <1>0, <2>1, <2>2, BoundedKept DEF boundVars
  <1>4. CASE Abort
    <2>1. pc' = "undo" /\ undoing' = TRUE /\ UNCHANGED <<anchors, forecast, meddled, dropped, boundVars>>
      BY <1>4 DEF Abort
    <2>2. pc' \in PC
      BY <2>1 DEF PC
    <2>3. QED
      BY <1>0, <2>1, <2>2, BoundedKept DEF boundVars
  <1>5. CASE Crash
    <2>1. pc' = "idle" /\ events < MaxEvents /\ events' = events + 1
          /\ UNCHANGED <<anchors, forecast, histVars, asks, ops>>
      BY <1>5 DEF Crash
    <2>2. pc' \in PC /\ events' \in 0..MaxEvents
      BY <1>0, <2>1, EventsAssumption DEF PC
    <2>3. QED
      BY <1>0, <2>1, <2>2, BoundedKept DEF histVars
  <1>6. CASE PersonStep
    <2> USE DEF Outside, Acts, ActsIf, AtRest, procVars
    <2>1. ASSUME Resolve \/ GitContinue \/ GitAbandon \/ CommitAbsorbed \/ ThrowAway
          PROVE  /\ UNCHANGED <<pc, anchors, forecast, undoing, dropped, asks, ops>> /\ meddled' \in BOOLEAN
                 /\ events' = events \/ (events < MaxEvents /\ events' = events + 1)
      BY <1>0, <2>1 DEF Resolve, GitContinue, GitAbandon, CommitAbsorbed, ThrowAway
    <2>2. ASSUME NEW b \in Branch, Checkout(b) \/ Land(b)
          PROVE  /\ UNCHANGED <<pc, anchors, forecast, undoing, dropped, asks, ops>> /\ meddled' \in BOOLEAN
                 /\ events' = events \/ (events < MaxEvents /\ events' = events + 1)
      BY <1>0, <2>2 DEF Checkout, Land
    <2>3. ASSUME CommitOwn \/ Edit \/ CaptureDraft \/ MainMoves \/ CleanUp \/ GoBack
          PROVE  /\ UNCHANGED <<pc, anchors, forecast, undoing, dropped, asks, ops>> /\ meddled' \in BOOLEAN
                 /\ events' = events \/ (events < MaxEvents /\ events' = events + 1)
      BY <1>0, <2>3 DEF CommitOwn, Edit, CaptureDraft, MainMoves, CleanUp, GoBack
    <2>4. /\ UNCHANGED <<pc, anchors, forecast, undoing, dropped, asks, ops>> /\ meddled' \in BOOLEAN
          /\ events' = events \/ (events < MaxEvents /\ events' = events + 1)
      BY <1>6, <2>1, <2>2, <2>3, Zenon DEF PersonStep
    <2>5. events' \in 0..MaxEvents
      BY <1>0, <2>4, EventsAssumption
    <2>6. QED
      BY <1>0, <2>4, <2>5, BoundedKept
  <1>7. CASE UNCHANGED vars
    BY <1>0, <1>7, BoundedKept DEF vars, procVars, histVars, boundVars
  <1>8. QED
    BY <1>1, <1>2, <1>3, <1>4, <1>5, <1>6, <1>7

-----------------------------------------------------------------------------

(* The type invariant.                                                     *)

LEMMA TypesStart == Init => TypesIInv
  <1> SUFFICES ASSUME Init PROVE TypesIInv
    OBVIOUS
  <1>1. PICK case \in Cases : /\ objs = Store(case.repo) /\ asks = case.asks
                              /\ tip = [b \in Branch |-> IF b = "main" THEN 2 ELSE Len(case.repo)]
    BY Zenon DEF Init
  <1>2. /\ case.repo \in Seq(Entry) /\ Len(case.repo) > 2 /\ Len(case.repo) \in Nat /\ asks \in Seq(SUBSET Request)
        /\ Len(asks) \in Nat /\ Lineage(objs) /\ Len(objs) = Len(case.repo)
    BY <1>1, CasesAssumption, StoreTrue, LenProperties
  <1>3. /\ branch = "source" /\ cp = NoCommit /\ mh = NoCommit /\ wt = "clean" /\ index = {} /\ anchors = {}
        /\ journal = NoOperation /\ op = NoOperation /\ pc = "idle" /\ forecast = NoForecast
        /\ undoing = FALSE /\ meddled = FALSE /\ dropped = {} /\ ops = 0 /\ events = 0
    BY DEF Init
  <1>4. tip \in [Branch -> Objects]
    BY <1>1, <1>2 DEF Objects
  <1>5. Repository
    BY <1>2, <1>3, <1>4 DEF Repository, Branch, Worktree, NoCommit
  <1>6. Memory
    BY <1>2, <1>3, NothingTyped DEF Memory
  <1>7. Standing
    BY <1>3 DEF Standing, Stepping, NoOperation
  <1>8. Bounded
    <2>1. forecast.queue \in Seq(Step)
      BY <1>3, EmptySeq DEF NoForecast
    <2>2. undoing \in BOOLEAN /\ meddled \in BOOLEAN /\ pc \in PC
      BY <1>3, Zenon DEF PC
    <2>3. ops \in 0..Len(asks) /\ events \in 0..MaxEvents
      BY <1>2, <1>3, EventsAssumption
    <2>4. QED
      BY <1>2, <1>3, <2>1, <2>2, <2>3 DEF Bounded
  <1>9. QED
    BY <1>5, <1>6, <1>7, <1>8, RebaseStarts DEF TypesIInv

LEMMA TypesStep ==
    ASSUME TypesIInv, [Next]_vars
    PROVE  TypesIInv'
  <1>1. Repository' /\ Len(objs) <= Len(objs')
    BY RepositoryStep
  <1>2. Len(objs) \in Nat /\ Len(objs') \in Nat
    <2>1. Lineage(objs')
      BY <1>1 DEF Repository
    <2>2. QED
      BY <2>1, StrungTrue, CommitsTrue DEF Lineage, TypesIInv
  <1>3. RebaseIInv'
    BY RebaseStep DEF TypesIInv, Repository, Lineage
  <1>4. MemoryHolds
    BY MemoryStep
  <1>5. Memory' /\ Standing'
    <2>1. Typed(journal', Len(objs')) /\ Typed(op', Len(objs'))
      BY <1>1, <1>2, <1>4, TypedGrows DEF MemoryHolds
    <2>2. QED
      BY <1>4, <2>1 DEF MemoryHolds, Memory
  <1>6. Bounded'
    BY <1>1, BoundedCommand, BoundedOthers, Zenon DEF Next
  <1>7. QED
    BY <1>1, <1>3, <1>5, <1>6 DEF TypesIInv

LEMMA TypesInvariant == Spec => []TypesIInv
  <1>1. Init => TypesIInv
    BY TypesStart
  <1>2. TypesIInv /\ [Next]_vars => TypesIInv'
    BY TypesStep
  <1>3. QED
    BY <1>1, <1>2, PTL DEF Spec

LEMMA TypesImplyTypeOK ==
    ASSUME TypesIInv
    PROVE  TypeOK
  <1>1. objs \in Seq(Commit)
    <2>1. \A c \in 1..Len(objs) : objs[c] \in Commit
      BY DEF TypesIInv, Repository, Lineage, Fit
    <2>2. Strung(objs)
      BY DEF TypesIInv, Repository, Lineage
    <2>3. {objs[c] : c \in 1..Len(objs)} \subseteq Commit
      BY <2>1
    <2>4. QED
      BY <2>2, <2>3, SeqWidens DEF Strung
  <1>2. journal.id \in 0..ops /\ op.id \in 0..ops
    <2>1. ops \in Nat /\ NoOperation.id = 0
      BY DEF TypesIInv, RebaseIInv, RebaseKinds, NoOperation
    <2>2. journal.id \in 0..ops
      BY <2>1 DEF TypesIInv, RebaseIInv, Journaled, Pending
    <2>3. op.id \in 0..ops
      BY <2>1, OperationTrue DEF TypesIInv, Memory
    <2>4. QED
      BY <2>2, <2>3
  <1>3. IsOperation(journal) /\ IsOperation(op)
    BY <1>2, TypedIsOperation DEF TypesIInv, Memory, RebaseIInv, RebaseKinds
  <1>4. nextNote \in Nat
    BY DEF TypesIInv, RebaseIInv, RebaseKinds
  <1>5. QED
    BY <1>1, <1>3, <1>4 DEF TypesIInv, Repository, Bounded, TypeOK

-----------------------------------------------------------------------------

(* Through every history, program, kill and interruption: the commits of   *)
(* the repository come after their parents; what the journal and a running *)
(* command's memory name are commits of it, and every step of the queue    *)
(* that is behind them is mapped; Git's pending pick or merge, the         *)
(* worktree, the index, the anchors and the bounds are what they are to be.*)
THEOREM RebaseTypeCorrect == Spec => []TypeOK
  <1>1. TypesIInv => TypeOK
    BY TypesImplyTypeOK
  <1>2. QED
    BY <1>1, TypesInvariant, PTL

-----------------------------------------------------------------------------

(* "No partial application receipts are shared before whole-operation      *)
(* success": in every history, under every program, whatever is killed and *)
(* continued, a record that names a pending operation means that the       *)
(* operation's queue is done, and a receipt comes after every application  *)
(* record it names (Publication, Publish and what leads to them).          *)
THEOREM PublicationIsWhole == Spec => []PublishedWhole
  <1>1. RebaseIInv => PublishedWhole
    BY DEF RebaseIInv
  <1>2. QED
    BY <1>1, RebaseInvariant, PTL

(* What an operation publishes under a forecast is what was reviewed: the  *)
(* same head, the same base and the same queue, from the approval that     *)
(* Begin asks for, through every interruption, to the receipt.             *)
THEOREM ForecastsAreHonoured == Spec => ForecastHonoured
  <1>1. ASSUME RebaseIInv, Strung(objs), [Next]_vars, Publishes, op.forecast
        PROVE  forecast.head = op.orig /\ forecast.onto = op.onto /\ forecast.queue = op.queue
    <2>1. notes' # notes
      <3>1. Len(notes) \in Nat
        BY StrungTrue DEF RebaseIInv, RebaseKinds
      <3>2. QED
        BY <1>1, <3>1 DEF Publishes
    <2>2. Publish
      BY <1>1, <2>1, OnlyPublish
    <2>3. journal = op /\ Pending
      BY <1>1, <2>2, Runs DEF Publish, Finishing, Sharing
    <2>4. QED
      BY <1>1, <2>3 DEF RebaseIInv, ForecastTrue
  <1>2. RebaseIInv /\ Strung(objs) /\ [Next]_vars =>
          [Publishes /\ op.forecast =>
             forecast.head = op.orig /\ forecast.onto = op.onto /\ forecast.queue = op.queue]_vars
    BY <1>1, Zenon
  <1>3. QED
    BY <1>2, RebaseInvariant, PTL DEF Spec, ForecastHonoured

-----------------------------------------------------------------------------

(* Lines.  No merge is left of a queue.                                    *)
Straight(q, from) == \A i \in from..Len(q) : q[i].kind # "merge"

(* A queue of a repository: in order; what a step comes after it comes     *)
(* after by a parent that is in the queue too; and where no merge follows, *)
(* the queue is one line.                                                  *)
Drawn(q, s) ==
    /\ \A i, j \in 1..Len(q) : i < j => q[i].commit < q[j].commit
    /\ \A i \in 1..Len(q) : q[i].kind # "merge" => Len(q[i].parents) = 1
    /\ \A i, j \in 1..Len(q) : q[j].commit \in s[q[i].commit].past /\ j # i =>
          \E k \in 1..Len(q[i].parents) :
              q[i].parents[k] # NoCommit /\ q[j].commit \in s[q[i].parents[k]].past
    /\ \A i, j \in 1..Len(q) : j <= i /\ Straight(q, i + 1) => q[j].commit \in s[q[i].commit].past
    /\ \A i \in 1..Len(q) : i > 1 /\ Straight(q, i) => q[i].parents[1] = q[i - 1].commit

(* What a step of a plan is made of.                                       *)
Waits(c, In) ==
    IF objs[c].parents = <<>> THEN <<NoCommit>>
    ELSE [k \in 1..Len(objs[c].parents) |->
            IF objs[c].parents[k] \in In THEN objs[c].parents[k] ELSE NoCommit]

LEMMA QueueSteps ==
    ASSUME NEW head, NEW onto, NEW program, Len(objs) \in Nat
    PROVE  LET queue == Queue(head, onto, program)
               range == ResolveRange(head, onto)
               In == Among(range) IN
           /\ Ordered(range, (objs[head].past \ objs[onto].past) \cap 1..Len(objs))
           /\ Len(range) \in Nat /\ Len(queue) = Len(range)
           /\ \A i \in 1..Len(range) :
                 /\ queue[i].commit = range[i] /\ (queue[i].kind = "merge" <=> IsMerge(range[i]))
                 /\ queue[i].parents = Waits(range[i], In)
  <1> DEFINE range == ResolveRange(head, onto)
             queue == Queue(head, onto, program)
             In == Among(range)
  <1>1. Ordered(range, (objs[head].past \ objs[onto].past) \cap 1..Len(objs))
    BY InOrderTrue DEF ResolveRange
  <1>2. Len(range) \in Nat
    BY <1>1, LenProperties DEF Ordered
  <1>3. /\ queue = [i \in 1..Len(range) |-> queue[i]]
        /\ \A i \in 1..Len(range) :
              /\ queue[i].kind = Kind(onto, program, range[i]) /\ queue[i].commit = range[i]
              /\ queue[i].parents = Waits(range[i], In)
    BY DEF Queue, Among, Waits
  <1>4. Len(queue) = Len(range)
    <2>1. queue \in [1..Len(range) -> {queue[i] : i \in 1..Len(range)}]
      BY <1>3
    <2> HIDE DEF queue, range
    <2>2. QED
      BY <1>2, <2>1, FunctionSeq
  <1>5. \A c : Kind(onto, program, c) = "merge" <=> IsMerge(c)
    BY DEF Kind
  <1> HIDE DEF queue, range, In
  <1>6. \A i \in 1..Len(range) :
           queue[i].commit = range[i] /\ (queue[i].kind = "merge" <=> IsMerge(range[i]))
           /\ queue[i].parents = Waits(range[i], In)
    BY <1>3, <1>5
  <1>7. QED
    BY <1>1, <1>2, <1>4, <1>6, Zenon DEF queue, range, In

LEMMA QueueDrawn ==
    ASSUME Lineage(objs), Descent(objs), NEW head \in Objects, NEW onto \in Objects, NEW program \in Program
    PROVE  Drawn(Queue(head, onto, program), objs)
  <1> DEFINE q == Queue(head, onto, program)
             range == ResolveRange(head, onto)
             In == Among(range)
             n == Len(objs)
             N == Len(q)
             S == (objs[head].past \ objs[onto].past) \cap 1..n
  <1>1. n \in Nat
    BY StrungTrue DEF Lineage
  <1>2. /\ Ordered(range, S) /\ Len(range) \in Nat /\ Len(q) = Len(range)
        /\ \A i \in 1..Len(range) :
              /\ q[i].commit = range[i] /\ (q[i].kind = "merge" <=> IsMerge(range[i]))
              /\ q[i].parents = Waits(range[i], In)
    BY <1>1, QueueSteps, Zenon
  <1>3. Planned(q, n)
    BY QueuePlanned
  <1>4. \A c \in 1..n : /\ c \in objs[c].past /\ objs[c].past \subseteq 1..c
                        /\ \A d \in objs[c].past : d \in 1..n /\ objs[d].past \subseteq objs[c].past
    BY PastTrue
  <1>5. head \in 1..n /\ onto \in 1..n
    BY DEF Objects
  <1> HIDE DEF q, range
  <1>6. N \in Nat /\ N = Len(range)
    BY <1>2
  <1>7. \A i \in 1..N : q[i].commit = range[i] /\ range[i] \in S /\ range[i] \in 1..n
    <2>1. range \in Seq(S)
      BY <1>2 DEF Ordered
    <2> HIDE DEF S
    <2>2. \A i \in 1..Len(range) : range[i] \in S
      BY <2>1, LenProperties
    <2>3. \A x \in S : x \in 1..n
      BY DEF S
    <2>4. QED
      BY <1>2, <1>6, <2>2, <2>3
  <1>8. \A i, j \in 1..N : i < j => q[i].commit < q[j].commit
    BY <1>2, <1>6, <1>7 DEF Ordered
  <1>9. \A x \in S : x \in In
    BY <1>2, Zenon DEF Ordered, Among
  <1>10. ASSUME NEW i \in 1..N
         PROVE  /\ Len(objs[range[i]].parents) \in Nat /\ Len(objs[range[i]].parents) <= 2
                /\ objs[range[i]].past = {range[i]} \cup Pasts(objs, Among(objs[range[i]].parents))
                /\ \A k \in 1..Len(objs[range[i]].parents) : objs[range[i]].parents[k] \in 1..n
    <2> DEFINE c == range[i]
    <2>1. c \in 1..n
      BY <1>7
    <2> HIDE DEF c
    <2>2. objs[c].parents \in Seq(1..(c - 1))
      BY <2>1 DEF Lineage, Fit
    <2>3. Len(objs[c].parents) \in Nat /\ \A k \in 1..Len(objs[c].parents) : objs[c].parents[k] \in 1..n
      BY <1>1, <2>1, <2>2, LenProperties
    <2>4. Len(objs[c].parents) <= 2 /\ objs[c].past = {c} \cup Pasts(objs, Among(objs[c].parents))
      BY <2>1 DEF Descent
    <2>5. QED
      BY <2>3, <2>4 DEF c
  <1>11. ASSUME NEW i \in 1..N
         PROVE  /\ objs[range[i]].parents = <<>> => Len(objs[range[i]].parents) = 0 /\ q[i].parents = <<NoCommit>> /\ Len(q[i].parents) = 1
                /\ objs[range[i]].parents # <<>> =>
                      /\ Len(q[i].parents) = Len(objs[range[i]].parents) /\ Len(q[i].parents) # 0
                      /\ \A k \in 1..Len(q[i].parents) : objs[range[i]].parents[k] \in In => q[i].parents[k] = objs[range[i]].parents[k]
    <2> DEFINE P == objs[range[i]].parents
               f == [k \in 1..Len(P) |-> IF P[k] \in In THEN P[k] ELSE NoCommit]
    <2>1. q[i].parents = IF P = <<>> THEN <<NoCommit>> ELSE f
      BY <1>2, <1>6, Zenon DEF Waits
    <2>2. Len(<<NoCommit>>) = 1 /\ Len(<<>>) = 0
      OBVIOUS
    <2>3. Len(P) \in Nat
      BY <1>10
    <2>4. P # <<>> => Len(P) # 0
      <3>1. range[i] \in 1..n
        BY <1>7
      <3>2. P \in Seq(1..(range[i] - 1))
        BY <3>1 DEF Lineage, Fit
      <3> HIDE DEF P
      <3>3. QED
        BY <3>2, EmptySeq
    <2> HIDE DEF P, In
    <2>5. f \in [1..Len(P) -> {f[k] : k \in 1..Len(P)}] /\ \A k \in 1..Len(P) : P[k] \in In => f[k] = P[k]
      OBVIOUS
    <2> HIDE DEF f
    <2>6. Len(f) = Len(P)
      BY <2>3, <2>5, FunctionSeq
    <2>7. QED
      BY <2>1, <2>2, <2>4, <2>5, <2>6 DEF P
  <1>12. \A i \in 1..N : q[i].kind # "merge" => Len(q[i].parents) = 1
    <2> TAKE i \in 1..N
    <2>1. q[i].kind # "merge" => Len(objs[range[i]].parents) # 2
      BY <1>2, <1>6 DEF IsMerge
    <2>2. /\ Len(objs[range[i]].parents) \in Nat /\ Len(objs[range[i]].parents) <= 2
          /\ objs[range[i]].parents = <<>> => Len(q[i].parents) = 1
          /\ objs[range[i]].parents # <<>> =>
                Len(q[i].parents) = Len(objs[range[i]].parents) /\ Len(q[i].parents) # 0
      BY <1>10, <1>11, Zenon
    <2>3. \A m \in Nat : m <= 2 /\ m # 0 /\ m # 2 => m = 1
      OBVIOUS
    <2>4. QED
      BY <2>1, <2>2, <2>3
  <1>13. ASSUME NEW i \in 1..N, NEW j \in 1..N, q[j].commit \in objs[q[i].commit].past, j # i
         PROVE  \E k \in 1..Len(q[i].parents) :
                   q[i].parents[k] # NoCommit /\ q[j].commit \in objs[q[i].parents[k]].past
    <2> DEFINE c == range[i]
               d == range[j]
    <2>1. c \in S /\ d \in S /\ c \in 1..n /\ d \in 1..n /\ q[i].commit = c /\ q[j].commit = d
      BY <1>7
    <2>2. d # c
      BY <1>6, <1>8, <1>13, <2>1
    <2> HIDE DEF c, d
    <2>3. d \in Pasts(objs, Among(objs[c].parents))
      BY <1>10, <1>13, <2>1, <2>2 DEF c
    <2>4. PICK k \in 1..Len(objs[c].parents) : d \in objs[objs[c].parents[k]].past
      BY <2>3, Zenon DEF Pasts, Among
    <2> DEFINE p == objs[c].parents[k]
    <2>5. p \in 1..n /\ Len(objs[c].parents) # 0
      BY <1>10, <2>4 DEF c
    <2>6. p \in objs[c].past
      <3>1. p \in Among(objs[c].parents)
        BY DEF Among
      <3>2. p \in Pasts(objs, Among(objs[c].parents))
        BY <1>4, <2>5, <3>1 DEF Pasts
      <3>3. QED
        BY <1>10, <3>2 DEF c
    <2>7. p \in S
      <3>1. p \in objs[head].past
        BY <1>4, <1>5, <2>1, <2>6
      <3>2. p \notin objs[onto].past
        BY <1>4, <1>5, <2>1, <2>4
      <3>3. QED
        BY <2>5, <3>1, <3>2
    <2>8. p \in In
      BY <1>9, <2>7
    <2>9. objs[c].parents # <<>>
      BY <1>11, <2>5 DEF c
    <2>10. k \in 1..Len(q[i].parents) /\ q[i].parents[k] = p
      BY <1>11, <2>8, <2>9 DEF c
    <2>11. p # NoCommit
      BY <2>5 DEF NoCommit
    <2>12. QED
      BY <2>1, <2>4, <2>10, <2>11
  <1> HIDE DEF N, S, In
  <1>14. ASSUME NEW i \in 1..N, i > 1, q[i].kind # "merge", NEW j \in 1..(i - 1),
                \A h \in 1..(i - 1) : q[h].commit \in objs[q[i].commit].past
         PROVE  q[i].parents[1] = q[i - 1].commit /\ q[j].commit \in objs[q[i - 1].commit].past
    <2>0. \A h \in 1..(i - 1) : h \in 1..N /\ h # i
      BY <1>6
    <2>1. Len(q[i].parents) = 1
      BY <1>12, <1>14
    <2> DEFINE p == q[i].parents[1]
    <2>2. \A h \in 1..(i - 1) : p # NoCommit /\ q[h].commit \in objs[p].past
      BY <1>13, <1>14, <2>0, <2>1
    <2>3. PICK x \in 1..(i - 1) : q[x].commit = p
      <3>1. p # NoCommit
        BY <2>2
      <3>2. 1 \in 1..Len(q[i].parents)
        BY <2>1
      <3>3. QED
        BY <1>3, <3>1, <3>2 DEF Planned, N
    <2> HIDE DEF p
    <2>4. i - 1 \in 1..(i - 1) /\ i - 1 \in 1..N /\ x \in 1..N
      BY <1>6, <1>14, <2>0
    <2>5. p \in 1..n /\ q[i - 1].commit \in 1..p
      <3>1. p \in 1..n
        BY <1>7, <2>3, <2>4
      <3>2. QED
        BY <1>4, <2>2, <2>4, <3>1
    <2>6. x = i - 1
      <3>1. x <= i - 1 /\ x \in Nat /\ i - 1 \in Nat
        BY <1>6, <2>4
      <3>2. x < i - 1 => q[x].commit < q[i - 1].commit
        BY <1>8, <2>4
      <3>3. ~(p < q[i - 1].commit)
        BY <2>5
      <3>4. QED
        BY <2>3, <3>1, <3>2, <3>3
    <2>7. QED
      BY <2>2, <2>3, <2>6 DEF p
  <1> DEFINE Line(i) == Straight(q, i + 1) => \A j \in 1..i : q[j].commit \in objs[q[i].commit].past
             Bad == {m \in Nat : m < N /\ ~Line(N - m)}
  <1>15. Bad = {}
    <2>1. SUFFICES ASSUME Bad # {} PROVE FALSE
      OBVIOUS
    <2>2. PICK m \in Bad : \A b \in Bad : m <= b
      BY <2>1, LeastMember
    <2>3. m \in Nat /\ m < N /\ ~Line(N - m)
      BY <2>2
    <2>4. CASE m = 0
      <3>1. PICK j \in 1..N : q[j].commit \notin objs[q[N].commit].past
        BY <1>6, <2>3, <2>4
      <3>2. q[j].commit = range[j] /\ q[j].commit \in objs[head].past /\ q[j].commit \notin objs[onto].past
        BY <1>7 DEF S
      <3>3. head \in S
        BY <1>4, <1>5, <3>2 DEF S
      <3>4. PICK x \in 1..N : range[x] = head
        BY <1>2, <1>6, <3>3 DEF Ordered
      <3>5. N \in 1..N /\ range[N] \in 1..head
        <4>1. N \in 1..N
          BY <1>6, <2>3, <2>4
        <4>2. range[N] \in objs[head].past
          BY <1>7, <4>1 DEF S
        <4>3. QED
          BY <1>4, <1>5, <4>1, <4>2
      <3>6. x = N
        <4>1. x < N => range[x] < range[N]
          BY <1>7, <1>8, <3>5
        <4>2. QED
          BY <1>1, <1>5, <1>6, <3>4, <3>5, <4>1
      <3>7. QED
        BY <1>7, <3>1, <3>2, <3>4, <3>6
    <2>5. CASE m # 0
      <3> DEFINE i == N - m
      <3>1. i \in 1..N /\ i + 1 \in 1..N /\ N - (m - 1) = i + 1 /\ m - 1 \in Nat /\ m - 1 < N /\ ~(m <= m - 1)
        BY <1>6, <2>3, <2>5
      <3>2. Line(i + 1) /\ ~Line(i)
        BY <2>2, <2>3, <3>1
      <3> HIDE DEF i
      <3>3. Straight(q, i + 1) /\ \E j \in 1..i : q[j].commit \notin objs[q[i].commit].past
        BY <3>2
      <3>4. q[i + 1].kind # "merge" /\ Straight(q, (i + 1) + 1)
        BY <3>1, <3>3 DEF Straight, N
      <3>5. \A h \in 1..(i + 1) : q[h].commit \in objs[q[i + 1].commit].past
        BY <3>2, <3>4
      <3>6. (i + 1) - 1 = i /\ i + 1 > 1 /\ \A h \in 1..i : h \in 1..(i + 1)
        BY <3>1
      <3>7. ASSUME NEW j \in 1..i PROVE q[j].commit \in objs[q[i].commit].past
        <4>1. q[j].commit \in objs[q[(i + 1) - 1].commit].past
          <5> DEFINE e == i + 1
          <5>1. e \in 1..N /\ e > 1 /\ q[e].kind # "merge" /\ e - 1 = i
                /\ \A h \in 1..(e - 1) : q[h].commit \in objs[q[e].commit].past
            BY <3>1, <3>4, <3>5, <3>6
          <5> HIDE DEF e
          <5>2. q[j].commit \in objs[q[e - 1].commit].past
            BY <1>14, <5>1
          <5>3. QED
            BY <5>2 DEF e
        <4>2. QED
          BY <3>6, <4>1
      <3>8. QED
        BY <3>3, <3>7
    <2>6. QED
      BY <2>4, <2>5
  <1>16. ASSUME NEW i \in 1..N PROVE Line(i)
    <2>1. N - i \in Nat /\ N - i < N /\ N - (N - i) = i
      BY <1>6
    <2>2. N - i \notin Bad
      BY <1>15, Zenon
    <2>3. QED
      BY <2>1, <2>2
  <1>17. \A i, j \in 1..N : j <= i /\ Straight(q, i + 1) => q[j].commit \in objs[q[i].commit].past
    <2> TAKE i, j \in 1..N
    <2>1. j <= i => j \in 1..i
      BY <1>6
    <2>2. QED
      BY <1>16, <2>1
  <1>18. ASSUME NEW i \in 1..N, i > 1, Straight(q, i) PROVE q[i].parents[1] = q[i - 1].commit
    <2>1. q[i].kind # "merge" /\ Straight(q, i + 1) /\ 1 \in 1..(i - 1) /\ \A h \in 1..(i - 1) : h \in 1..i
      BY <1>6, <1>18 DEF Straight, N
    <2>2. \A h \in 1..(i - 1) : q[h].commit \in objs[q[i].commit].past
      BY <1>16, <2>1
    <2>3. QED
      BY <1>14, <1>18, <2>1, <2>2
  <1>19. QED
    BY <1>8, <1>12, <1>13, <1>17, <1>18, Zenon DEF Drawn, q, N

(* What an operation has done so far.  Its plan is a line of the           *)
(* repository, of which it maps the steps that are done.                   *)
Charted(o, s) ==
    /\ Drawn(o.queue, s)
    /\ \A c \in DOMAIN o.rewritten : \E i \in 1..Len(o.queue) : o.queue[i].commit = c
    /\ \A i \in 1..Len(o.queue) : i >= o.next => o.rewritten[o.queue[i].commit] = NoCommit

(* What was rewritten comes after what its original came after; where no   *)
(* merge is left, the commit h comes after the last of it.                 *)
Retraced(o, s) ==
    \A i, j \in 1..Len(o.queue) :
        i < o.next /\ j < o.next /\ o.queue[j].commit \in s[o.queue[i].commit].past =>
            o.rewritten[o.queue[j].commit] \in s[o.rewritten[o.queue[i].commit]].past
Over(b, s, h) == b \in s[h].past
Above(b, s, h) == b # h /\ b \in s[h].past
Led(o, s, h) ==
    o.next > 1 /\ Straight(o.queue, o.next) =>
        Over(o.rewritten[o.queue[o.next - 1].commit], s, h)

(* With a merge to come, every commit but one is named by an anchor.       *)
Held(o, refs, but) ==
    Preserving(o) => \A i \in 1..Len(o.queue) : i < o.next /\ i # but =>
        <<o.id, o.queue[i].commit, o.rewritten[o.queue[i].commit]>> \in refs

Secured(o, s, h, refs) ==
    /\ Charted(o, s) /\ Retraced(o, s) /\ Led(o, s, h)
    /\ o.next <= Len(o.queue) => Held(o, refs, 0)

(* The step that an operation is at was begun on the commit it states.     *)
Placed(o) ==
    LET step == o.queue[o.next] IN
    /\ o.next <= Len(o.queue) /\ o.current.before = Mapped(o, step.parents[1])
    /\ step.kind = "merge" => o.current.joins = Mapped(o, step.parents[2])

(* The same progress of the same operation.                                *)
Level(o, p) ==
    /\ Same(o, p) /\ p.next = o.next /\ p.rewritten = o.rewritten
    /\ p.current.before = o.current.before /\ p.current.joins = o.current.joins

Awaits(state) == state \in {"awaiting-message", "awaiting-content", "awaiting-absorption"}
Carries == {"absorb", "cursor", "finish", "record", "reword", "edit"}
Joins == pc \in {"join", "batch", "continue"} \/ (pc = "paused" /\ op.state = "conflicted")

(* An operation that is not being undone, its branch and its anchors.      *)
Tracked ==
    LET h == tip[journal.branch]
        before == journal.current.before
        joins == journal.current.joins
        kind == journal.queue[journal.next].kind IN
    /\ journal.branch # "main" /\ (pc # "idle" => branch = journal.branch)
    /\ Secured(journal, objs, h, anchors)
    /\ journal.state \notin {"applying", "blocked"} \/ pc \in Stepping =>
          Placed(journal) /\ Over(before, objs, h)
    /\ Awaits(journal.state) \/ pc \in Carries \/ (pc = "paused" /\ Awaits(op.state)) =>
          Above(before, objs, h) /\ kind # "merge"
    /\ pc \in {"reduce", "reduced", "reset"} => journal.next = 1
    /\ pc = "queue" /\ journal.next = 1 => Over(journal.onto, objs, h)
    /\ pc \in Stepping => Level(journal, op)
    /\ Joins /\ kind = "merge" => mh = joins
    /\ pc = "record-join" /\ kind = "merge" => Over(joins, objs, h)
    /\ pc \in Moving =>
          /\ op.next = journal.next + 1
          /\ Charted(op, objs) /\ Retraced(op, objs) /\ Led(op, objs, h)
          /\ Held(op, anchors, IF pc = "anchor" THEN op.next - 1 ELSE 0)

LinesIInv == TypesIInv /\ Descent(objs) /\ (pc \in Undoing => undoing) /\ (Pending /\ ~undoing => Tracked)

-----------------------------------------------------------------------------

(* Lines in a repository that grows.                                       *)

(* The steps of a plan, and of those that are done what they became.       *)
Within(o, n) ==
    /\ Len(o.queue) \in Nat /\ o.next \in Nat /\ o.next >= 1
    /\ \A i \in 1..Len(o.queue) :
          /\ o.queue[i].commit \in 1..n /\ o.queue[i].commit # NoCommit
          /\ \A k \in 1..Len(o.queue[i].parents) :
                \/ o.queue[i].parents[k] = NoCommit
                \/ /\ o.queue[i].parents[k] \in 1..n
                   /\ \E j \in 1..Len(o.queue) : j < i /\ o.queue[j].commit = o.queue[i].parents[k]
    /\ \A i \in 1..Len(o.queue) : i < o.next =>
          o.rewritten[o.queue[i].commit] \in 1..n /\ o.rewritten[o.queue[i].commit] # NoCommit

LEMMA QueueWithin ==
    ASSUME NEW o, NEW n, Typed(o, n)
    PROVE  Within(o, n)
  <1> DEFINE N == Len(o.queue)
  <1>1. Planned(o.queue, n) /\ Mapping(o, n) /\ o.next \in 1..(N + 1)
    BY DEF Typed
  <1>2. N \in Nat
    BY <1>1, LenProperties DEF Planned
  <1>3. o.next \in Nat /\ o.next >= 1
    BY <1>1, <1>2
  <1>4. \A i \in 1..N : o.queue[i].commit \in 1..n /\ o.queue[i].commit # NoCommit
    BY <1>1 DEF Planned, NoCommit
  <1>5. ASSUME NEW i \in 1..N, NEW k \in 1..Len(o.queue[i].parents), o.queue[i].parents[k] # NoCommit
        PROVE  /\ o.queue[i].parents[k] \in 1..n
               /\ \E j \in 1..N : j < i /\ o.queue[j].commit = o.queue[i].parents[k]
    <2>1. PICK j \in 1..(i - 1) : o.queue[j].commit = o.queue[i].parents[k]
      BY <1>1, <1>5 DEF Planned
    <2>2. j \in 1..N /\ j < i
      BY <1>2
    <2>3. QED
      BY <1>4, <2>1, <2>2
  <1>6. ASSUME NEW i \in 1..N, i < o.next
        PROVE  o.rewritten[o.queue[i].commit] \in 1..n /\ o.rewritten[o.queue[i].commit] # NoCommit
    <2>1. o.rewritten[o.queue[i].commit] \in 0..n /\ o.rewritten[o.queue[i].commit] # NoCommit
      BY <1>1, <1>6 DEF Mapping
    <2>2. QED
      BY <2>1 DEF NoCommit
  <1>7. QED
    BY <1>2, <1>3, <1>4, <1>5, <1>6 DEF Within

LEMMA ChartedGrows ==
    ASSUME NEW s, NEW z, Lineage(s), Grows(s, z), NEW o, Typed(o, Len(s)), Charted(o, s), Retraced(o, s)
    PROVE  Charted(o, z) /\ Retraced(o, z)
  <1> DEFINE q == o.queue
             N == Len(q)
  <1>1. \A c \in 1..Len(s) : z[c] = s[c]
    BY DEF Grows
  <1>2. /\ N \in Nat
        /\ \A i \in 1..N :
              /\ q[i].commit \in 1..Len(s)
              /\ \A k \in 1..Len(q[i].parents) : q[i].parents[k] = NoCommit \/ q[i].parents[k] \in 1..Len(s)
        /\ \A i \in 1..N : i < o.next => o.rewritten[q[i].commit] \in 1..Len(s)
    BY QueueWithin DEF Within
  <1>3. \A i \in 1..N : z[q[i].commit] = s[q[i].commit]
    BY <1>1, <1>2
  <1>4. \A i \in 1..N : \A k \in 1..Len(q[i].parents) :
           q[i].parents[k] # NoCommit => z[q[i].parents[k]] = s[q[i].parents[k]]
    BY <1>1, <1>2
  <1>5. \A i \in 1..N : i < o.next => z[o.rewritten[q[i].commit]] = s[o.rewritten[q[i].commit]]
    BY <1>1, <1>2
  <1> HIDE DEF N
  <1>6. Drawn(q, z)
    <2>1. Drawn(q, s)
      BY DEF Charted
    <2>2. ASSUME NEW i \in 1..N, NEW j \in 1..N, q[j].commit \in z[q[i].commit].past, j # i
          PROVE  \E k \in 1..Len(q[i].parents) :
                    q[i].parents[k] # NoCommit /\ q[j].commit \in z[q[i].parents[k]].past
      <3>1. PICK k \in 1..Len(q[i].parents) :
                    q[i].parents[k] # NoCommit /\ q[j].commit \in s[q[i].parents[k]].past
        BY <1>3, <2>1, <2>2 DEF Drawn, N
      <3>2. QED
        BY <1>4, <3>1
    <2>3. \A i, j \in 1..N : j <= i /\ Straight(q, i + 1) => q[j].commit \in z[q[i].commit].past
      BY <1>3, <2>1 DEF Drawn, N
    <2>4. QED
      BY <2>1, <2>2, <2>3 DEF Drawn, N
  <1>7. Retraced(o, z)
    BY <1>3, <1>5 DEF Retraced, N
  <1>8. QED
    BY <1>6, <1>7 DEF Charted

(* A step that began on the commit it states comes after the one before it *)
(* where the rest of the queue is one line.                                *)
LEMMA PlacedLeads ==
    ASSUME NEW o, NEW n, Typed(o, n), NEW s, Charted(o, s), o.next <= Len(o.queue), NEW h,
           Over(Mapped(o, o.queue[o.next].parents[1]), s, h)
    PROVE  Led(o, s, h)
  <1>1. SUFFICES ASSUME o.next > 1, Straight(o.queue, o.next)
                 PROVE  Over(o.rewritten[o.queue[o.next - 1].commit], s, h)
    BY DEF Led
  <1>2. /\ Len(o.queue) \in Nat /\ o.next \in Nat
        /\ \A i \in 1..Len(o.queue) : o.queue[i].commit # NoCommit
    BY QueueWithin DEF Within
  <1>3. o.next \in 1..Len(o.queue) /\ o.next - 1 \in 1..Len(o.queue)
    BY <1>1, <1>2
  <1>4. o.queue[o.next].parents[1] = o.queue[o.next - 1].commit
    BY <1>1, <1>3 DEF Charted, Drawn
  <1>5. o.queue[o.next].parents[1] # NoCommit
    BY <1>2, <1>3, <1>4
  <1>6. QED
    BY <1>4, <1>5, Zenon DEF Mapped

(* The next step is done: it was rewritten as a commit that comes after    *)
(* what its parents were rewritten as.                                     *)
Advances(o, p, s, h) ==
    LET step == o.queue[o.next] IN
    /\ Same(o, p) /\ p.next = o.next + 1 /\ p.rewritten = [o.rewritten EXCEPT ![step.commit] = h]
    /\ \A k \in 1..Len(step.parents) : Over(Mapped(o, step.parents[k]), s, h)

Advanced(o, p, s, h) ==
    /\ Charted(p, s) /\ Retraced(p, s) /\ \A g : Over(h, s, g) => Led(p, s, g)
    /\ \A i \in 1..Len(o.queue) : i < o.next =>
          p.rewritten[o.queue[i].commit] = o.rewritten[o.queue[i].commit]

LEMMA LineGoesOn ==
    ASSUME NEW s, Lineage(s), Descent(s), NEW o, Typed(o, Len(s)), Charted(o, s), Retraced(o, s),
           o.next <= Len(o.queue), NEW h \in 1..Len(s), NEW p, Advances(o, p, s, h)
    PROVE  Advanced(o, p, s, h)
  <1>0. /\ Same(o, p) /\ p.next = o.next + 1 /\ p.rewritten = [o.rewritten EXCEPT ![o.queue[o.next].commit] = h]
        /\ \A k \in 1..Len(o.queue[o.next].parents) : Over(Mapped(o, o.queue[o.next].parents[k]), s, h)
    BY Zenon DEF Advances
  <1> DEFINE q == o.queue
             N == Len(q)
             x == o.next
             c == q[x].commit
  <1>1. /\ N \in Nat /\ x \in Nat /\ x >= 1 /\ x \in 1..N
        /\ \A i \in 1..N :
              /\ q[i].commit \in 1..Len(s) /\ q[i].commit # NoCommit
              /\ \A k \in 1..Len(q[i].parents) :
                    \/ q[i].parents[k] = NoCommit
                    \/ \E j \in 1..N : j < i /\ q[j].commit = q[i].parents[k]
        /\ \A i \in 1..N : i < x => o.rewritten[q[i].commit] \in 1..Len(s)
    <2>1. Within(o, Len(s))
      BY QueueWithin
    <2>2. QED
      BY <2>1 DEF Within
  <1>2. p.queue = q /\ Drawn(q, s)
    BY <1>0 DEF Same, Charted
  <1>3. \A i, j \in 1..N : i < j => q[i].commit < q[j].commit
    BY <1>2 DEF Drawn
  <1>4. \A i \in 1..N : q[i].commit \in DOMAIN o.rewritten
    BY DEF Typed, Mapping
  <1>5. \A i \in 1..N : i # x => q[i].commit # c
    <2>1. ASSUME NEW i \in 1..N, i # x PROVE q[i].commit # c
      <3>1. i < x \/ x < i
        BY <1>1, <2>1
      <3>2. q[i].commit < c \/ c < q[i].commit
        BY <1>1, <1>3, <3>1
      <3>3. q[i].commit \in Nat /\ c \in Nat
        BY <1>1
      <3>4. QED
        BY <3>2, <3>3
    <2>2. QED
      BY <2>1
  <1>6. /\ DOMAIN p.rewritten = DOMAIN o.rewritten /\ p.rewritten[c] = h
        /\ \A i \in 1..N : i # x => p.rewritten[q[i].commit] = o.rewritten[q[i].commit]
    BY <1>0, <1>1, <1>4, <1>5
  <1> HIDE DEF N, x, c, q
  <1>7. Charted(p, s)
    <2>1. \A d \in DOMAIN p.rewritten : \E i \in 1..N : q[i].commit = d
      BY <1>6 DEF Charted, N, q
    <2>2. \A i \in 1..N : i >= p.next => p.rewritten[q[i].commit] = NoCommit
      <3>1. \A i \in 1..N : i >= p.next => i # x /\ i >= x
        BY <1>0, <1>1 DEF x
      <3>2. \A i \in 1..N : i >= x => o.rewritten[q[i].commit] = NoCommit
        BY Zenon DEF Charted, N, q, x
      <3>3. QED
        BY <1>6, <3>1, <3>2
    <2>3. QED
      BY <1>2, <2>1, <2>2 DEF Charted, N
  <1>8. Retraced(p, s)
    <2>1. SUFFICES ASSUME NEW i \in 1..N, NEW j \in 1..N, i < p.next, j < p.next,
                          q[j].commit \in s[q[i].commit].past
                   PROVE  p.rewritten[q[j].commit] \in s[p.rewritten[q[i].commit]].past
      BY <1>2 DEF Retraced, N
    <2>2. (i < x \/ i = x) /\ (j < x \/ j = x)
      BY <1>0, <1>1, <2>1 DEF x
    <2>3. h \in s[h].past
      BY PastTrue
    <2>4. CASE i = x /\ j = x
      BY <1>6, <2>3, <2>4 DEF c
    <2>5. CASE i < x /\ j < x
      <3>1. i # x /\ j # x
        BY <1>1, <2>5
      <3>2. o.rewritten[q[j].commit] \in s[o.rewritten[q[i].commit]].past
        BY <2>1, <2>5 DEF Retraced, N, q, x
      <3>3. QED
        BY <1>6, <3>1, <3>2
    <2>6. CASE i < x /\ j = x
      <3>1. q[i].commit \in 1..Len(s) /\ q[i].commit < q[j].commit /\ q[i].commit \in Nat /\ q[j].commit \in Nat
        BY <1>1, <1>3, <2>6
      <3>2. s[q[i].commit].past \subseteq 1..q[i].commit
        BY <3>1, PastTrue
      <3>3. q[j].commit \in 1..q[i].commit
        BY <2>1, <3>2
      <3>4. QED
        BY <3>1, <3>3
    <2>7. CASE i = x /\ j < x
      <3>1. i # j /\ j # x
        BY <1>1, <2>7
      <3>2. PICK k \in 1..Len(q[x].parents) :
               q[x].parents[k] # NoCommit /\ q[j].commit \in s[q[x].parents[k]].past
        BY <1>2, <2>1, <2>7, <3>1 DEF Drawn, N
      <3>3. PICK y \in 1..N : y < x /\ q[y].commit = q[x].parents[k]
        BY <1>1, <3>2
      <3>4. o.rewritten[q[j].commit] \in s[o.rewritten[q[y].commit]].past
        BY <2>7, <3>2, <3>3 DEF Retraced, N, q, x
      <3>5. Mapped(o, q[x].parents[k]) = o.rewritten[q[y].commit]
        BY <3>2, <3>3, Zenon DEF Mapped
      <3>6. o.rewritten[q[y].commit] \in s[h].past
        BY <1>0, <3>2, <3>5 DEF Over, q, x
      <3>7. s[o.rewritten[q[y].commit]].past \subseteq s[h].past
        BY <3>6, PastTrue
      <3>8. p.rewritten[q[j].commit] = o.rewritten[q[j].commit] /\ p.rewritten[q[i].commit] = h
        BY <1>6, <2>7, <3>1 DEF c
      <3>9. QED
        BY <3>4, <3>7, <3>8
    <2>8. QED
      BY <2>2, <2>4, <2>5, <2>6, <2>7
  <1>9. ASSUME NEW g, Over(h, s, g) PROVE Led(p, s, g)
    <2>1. p.next - 1 = x
      BY <1>0, <1>1 DEF x
    <2>2. QED
      BY <1>2, <1>6, <1>9, <2>1 DEF Led, c
  <1>10. \A i \in 1..N : i < x => p.rewritten[q[i].commit] = o.rewritten[q[i].commit]
    BY <1>1, <1>6
  <1>11. QED
    BY <1>7, <1>8, <1>9, <1>10, Zenon DEF Advanced, q, x, N

(* A commit on top of HEAD, or on top of HEAD and another: what HEAD came  *)
(* after it still comes after, and above.                                  *)
LEMMA Raises ==
    ASSUME Repository, Descent(objs), NEW parents, NEW second \in Objects,
           parents = <<HEAD>> \/ parents = <<HEAD, second>>,
           NEW of, NEW named, NEW content,
           objs' = Append(objs, Made(objs, parents, of, named, content))
    PROVE  /\ Descent(objs') /\ Grows(objs, objs')
           /\ \A b : Over(b, objs, HEAD) => Above(b, objs', New)
           /\ parents = <<HEAD, second>> => Over(second, objs', New)
  <1>1. Lineage(objs) /\ Len(objs) \in Nat /\ HEAD \in Objects
        /\ <<HEAD>> \in Seq(Objects) /\ <<HEAD, second>> \in Seq(Objects)
    BY CommitsTrue DEF Repository
  <1>2. /\ parents \in Seq(1..Len(objs)) /\ Len(parents) <= 2 /\ HEAD \in Among(parents)
        /\ parents = <<HEAD, second>> => second \in Among(parents)
    <2>1. CASE parents = <<HEAD>>
      <3>1. Len(parents) = 1 /\ parents[1] = HEAD
        BY <2>1
      <3>2. Len(parents) # Len(<<HEAD, second>>)
        BY <3>1
      <3>3. QED
        BY <1>1, <2>1, <3>1, <3>2 DEF Among, Objects
    <2>2. CASE parents = <<HEAD, second>>
      <3>1. Len(parents) = 2 /\ parents[1] = HEAD /\ parents[2] = second
        BY <2>2
      <3>2. QED
        BY <1>1, <2>2, <3>1 DEF Among, Objects
    <2>3. QED
      BY <2>1, <2>2
  <1>3. /\ Descent(objs') /\ Grows(objs, objs')
        /\ objs'[New].past = {New} \cup Pasts(objs, Among(parents))
    BY <1>1, <1>2, DescentGrows DEF New
  <1>4. ASSUME NEW c \in Among(parents), NEW b \in objs[c].past, c \in Objects
        PROVE  Above(b, objs', New)
    <2>1. b \in objs'[New].past
      BY <1>3, <1>4 DEF Pasts
    <2>2. b \in 1..c
      BY <1>1, <1>3, <1>4 DEF Lineage, Fit, Objects
    <2>3. b # New
      BY <1>1, <1>4, <2>2 DEF New, Objects
    <2>4. QED
      BY <2>1, <2>3 DEF Above
  <1>5. \A b : Over(b, objs, HEAD) => Above(b, objs', New)
    BY <1>1, <1>2, <1>4 DEF Over
  <1>6. second \in objs[second].past
    BY <1>1, PastTrue DEF Objects
  <1>7. parents = <<HEAD, second>> => Over(second, objs', New)
    BY <1>2, <1>4, <1>6 DEF Above, Over
  <1>8. QED
    BY <1>3, <1>5, <1>7

(* HEAD replaced by a commit with its parents: it still comes after all    *)
(* that HEAD came after, but for HEAD itself.                              *)
LEMMA Replaces ==
    ASSUME Repository, Descent(objs), NEW of, NEW named, NEW content, Amend(of, named, content)
    PROVE  /\ Descent(objs') /\ Grows(objs, objs')
           /\ \A b : Above(b, objs, HEAD) => Above(b, objs', New)
  <1> DEFINE parents == objs[HEAD].parents
  <1>1. Lineage(objs) /\ Len(objs) \in Nat /\ HEAD \in Objects /\ parents \in Seq(1..Len(objs))
    BY CommitsTrue DEF Repository, Objects
  <1>2. Len(parents) <= 2 /\ objs[HEAD].past = {HEAD} \cup Pasts(objs, Among(parents))
        /\ objs[HEAD].past \subseteq 1..HEAD
    BY <1>1 DEF Descent, Objects, Lineage, Fit
  <1>3. \E tree : objs' = Append(objs, Made(objs, parents, of, named, tree))
    BY Zenon DEF Amend, AddCommit
  <1> HIDE DEF parents
  <1>4. /\ Descent(objs') /\ Grows(objs, objs')
        /\ objs'[New].past = {New} \cup Pasts(objs, Among(parents))
    BY <1>1, <1>2, <1>3, DescentGrows DEF New
  <1>5. ASSUME NEW b, Above(b, objs, HEAD) PROVE Above(b, objs', New)
    <2>1. b \in Pasts(objs, Among(parents)) /\ b \in 1..HEAD
      BY <1>2, <1>5 DEF Above
    <2>2. b # New
      BY <1>1, <2>1 DEF New, Objects
    <2>3. QED
      BY <1>4, <2>1, <2>2 DEF Above
  <1>6. QED
    BY <1>4, <1>5

-----------------------------------------------------------------------------

(* The same progress, told again.                                          *)

LEMMA LevelTrue ==
    ASSUME NEW o, Sound(o), NEW n, Typed(o, n), NEW p, NEW v,
           \/ p = o
           \/ p = [o EXCEPT !.state = v]
           \/ p = [o EXCEPT !.state = v, !.current.conflicted = TRUE]
           \/ p = [o EXCEPT !.current.cursor = 1]
           \/ p = [o EXCEPT !.current.cursor = @ + 1]
           \/ p = [o EXCEPT !.current.cursor = @ + 1, !.state = v]
           \/ p = [o EXCEPT !.remat = TRUE]
           \/ p = [o EXCEPT !.remat = TRUE, !.state = v]
    PROVE  Level(o, p) /\ p.state \in {o.state, v}
  <1>1. o.current \in Current
    BY DEF Typed
  <1>2. /\ Same(o, p) /\ p.next = o.next /\ p.rewritten = o.rewritten /\ p.state \in {o.state, v}
        /\ \/ p.current = o.current
           \/ p.current = [o.current EXCEPT !.conflicted = TRUE]
           \/ p.current = [o.current EXCEPT !.cursor = 1]
           \/ p.current = [o.current EXCEPT !.cursor = @ + 1]
    BY DEF Sound, Shaped, Same
  <1>3. p.current.before = o.current.before /\ p.current.joins = o.current.joins
    BY <1>1, <1>2 DEF Current
  <1>4. QED
    BY <1>2, <1>3 DEF Level

LEMMA LevelForked ==
    ASSUME NEW o, Sound(o), NEW n, Typed(o, n), NEW p, NEW fork, p = [o EXCEPT !.current.fork = @ \/ fork]
    PROVE  Level(o, p) /\ p.state = o.state
  <1>1. o.current \in Current
    BY DEF Typed
  <1>2. /\ Same(o, p) /\ p.next = o.next /\ p.rewritten = o.rewritten /\ p.state = o.state
        /\ p.current = [o.current EXCEPT !.fork = @ \/ fork]
    BY DEF Sound, Shaped, Same
  <1>3. p.current.before = o.current.before /\ p.current.joins = o.current.joins
    BY <1>1, <1>2 DEF Current
  <1>4. QED
    BY <1>2, <1>3 DEF Level

LEMMA LevelAwaiting ==
    ASSUME NEW o, Sound(o), NEW n, Typed(o, n), NEW p, NEW t, NEW v,
           p = [o EXCEPT !.current.treeBefore = t, !.state = v]
    PROVE  Level(o, p) /\ p.state = v
  <1>1. o.current \in Current
    BY DEF Typed
  <1>2. /\ Same(o, p) /\ p.next = o.next /\ p.rewritten = o.rewritten /\ p.state = v
        /\ p.current = [o.current EXCEPT !.treeBefore = t]
    BY DEF Sound, Shaped, Same
  <1>3. p.current.before = o.current.before /\ p.current.joins = o.current.joins
    BY <1>1, <1>2 DEF Current
  <1>4. QED
    BY <1>2, <1>3 DEF Level

LEMMA LevelAmended ==
    ASSUME NEW o, Sound(o), NEW p, NEW e, p = [o EXCEPT !.amendments = Append(@, e)]
    PROVE  Level(o, p) /\ p.state = o.state
  <1>1. /\ Same(o, p) /\ p.next = o.next /\ p.rewritten = o.rewritten /\ p.state = o.state
        /\ p.current = o.current
    BY DEF Sound, Shaped, Same
  <1>2. QED
    BY <1>1 DEF Level

LEMMA Levelled ==
    ASSUME NEW o, NEW p, Level(o, p)
    PROVE  /\ Placed(o) => Placed(p)
           /\ \A s : Charted(o, s) => Charted(p, s)
           /\ \A s : Retraced(o, s) => Retraced(p, s)
           /\ \A s, h : Led(o, s, h) => Led(p, s, h)
           /\ \A refs, but : Held(o, refs, but) => Held(p, refs, but)
           /\ \A s, h, refs : Secured(o, s, h, refs) => Secured(p, s, h, refs)
  <1>1. p.queue = o.queue /\ p.next = o.next /\ p.rewritten = o.rewritten /\ p.onto = o.onto /\ p.id = o.id
        /\ p.current.before = o.current.before /\ p.current.joins = o.current.joins
    BY DEF Level, Same
  <1>2. Placed(o) => Placed(p)
    BY <1>1 DEF Placed, Mapped
  <1>3. \A s : Charted(o, s) => Charted(p, s)
    BY <1>1 DEF Charted
  <1>4. \A s : Retraced(o, s) => Retraced(p, s)
    BY <1>1 DEF Retraced
  <1>5. \A s, h : Led(o, s, h) => Led(p, s, h)
    BY <1>1 DEF Led
  <1>6. \A refs, but : Held(o, refs, but) => Held(p, refs, but)
    BY <1>1 DEF Held, Preserving
  <1>7. \A s, h, refs : Secured(o, s, h, refs) => Secured(p, s, h, refs)
    BY <1>1, <1>3, <1>4, <1>5, <1>6 DEF Secured
  <1>8. QED
    BY <1>2, <1>3, <1>4, <1>5, <1>6, <1>7

LEMMA LevelTwice ==
    ASSUME NEW o, NEW p, Level(o, p)
    PROVE  Level(o, o) /\ Level(p, o) /\ \A q : Level(p, q) => Level(o, q)
  BY DEF Level, Same

(* A step that was begun, in a repository that grows under HEAD.           *)
LEMMA SecuredGrows ==
    ASSUME NEW s, NEW z, Lineage(s), Grows(s, z), NEW o, Typed(o, Len(s)), NEW h, NEW refs,
           Secured(o, s, h, refs), NEW k, Led(o, s, h) => Led(o, z, k)
    PROVE  Secured(o, z, k, refs)
  BY ChartedGrows DEF Secured

LEMMA LedGrows ==
    ASSUME NEW o, NEW s, NEW z, NEW h, NEW k, \A b : Over(b, s, h) => Over(b, z, k), Led(o, s, h)
    PROVE  Led(o, z, k)
  BY DEF Led

-----------------------------------------------------------------------------

(* A tracked operation, step by step.                                      *)

Lined == TypesIInv /\ Descent(objs) /\ Tracked

(* What is known within a step.                                            *)
LEMMA InStepTrue ==
    ASSUME Lined, pc \in Stepping
    PROVE  /\ Level(journal, op) /\ Level(op, journal) /\ branch = journal.branch /\ tip[journal.branch] = HEAD
           /\ Placed(journal) /\ Over(journal.current.before, objs, HEAD)
           /\ journal.current.before = op.current.before /\ journal.current.joins = op.current.joins
           /\ journal.queue[journal.next] = NextStep /\ journal.queue = op.queue /\ journal.next = op.next
           /\ journal.branch # "main"
           /\ Secured(journal, objs, HEAD, anchors)
           /\ Awaits(journal.state) \/ pc \in Carries \/ (pc = "paused" /\ Awaits(op.state)) =>
                 Above(journal.current.before, objs, HEAD) /\ NextStep.kind # "merge"
           /\ Joins /\ NextStep.kind = "merge" => mh = journal.current.joins
           /\ pc = "record-join" /\ NextStep.kind = "merge" => Over(journal.current.joins, objs, HEAD)
           /\ Typed(journal, Len(objs)) /\ Lineage(objs) /\ Descent(objs) /\ Len(objs) \in Nat
  <1>1. Level(journal, op) /\ pc # "idle"
    BY DEF Lined, Tracked, Stepping
  <1>2. branch = journal.branch /\ tip[journal.branch] = HEAD
    BY <1>1 DEF Lined, Tracked, HEAD
  <1>3. journal.queue[journal.next] = NextStep /\ journal.queue = op.queue /\ journal.next = op.next
        /\ journal.current.before = op.current.before /\ journal.current.joins = op.current.joins
    BY <1>1 DEF Level, Same, NextStep
  <1>4. Typed(journal, Len(objs)) /\ Lineage(objs) /\ Descent(objs) /\ Len(objs) \in Nat
    BY CommitsTrue DEF Lined, TypesIInv, Memory, Repository
  <1>5. Level(op, journal)
    BY <1>1, LevelTwice
  <1>6. QED
    BY <1>1, <1>2, <1>3, <1>4, <1>5 DEF Lined, Tracked

LEMMA StepTracks ==
    ASSUME Lined, pc \in Stepping, pc' \in Stepping, Grows(objs, objs'), UNCHANGED <<branch, anchors>>,
           Level(op, op'), journal' = journal \/ journal' = op',
           NEW h, h = tip'[branch],
           \A b : Above(b, objs, HEAD) => Above(b, objs', h),
           pc \in Carries \/ \A b : Over(b, objs, HEAD) => Over(b, objs', h),
           Awaits(journal'.state) \/ pc' \in Carries \/ (pc' = "paused" /\ Awaits(op'.state)) =>
              Above(op.current.before, objs', h) /\ NextStep.kind # "merge",
           Joins' /\ NextStep.kind = "merge" => mh' = op.current.joins,
           pc' = "record-join" /\ NextStep.kind = "merge" => Over(op.current.joins, objs', h)
    PROVE  Tracked'
  <1> DEFINE j == journal
             k == journal'
             n == Len(objs)
  <1>1. /\ Level(j, op) /\ branch = j.branch /\ Placed(j) /\ Over(j.current.before, objs, HEAD)
        /\ j.queue[j.next] = NextStep /\ j.current.before = op.current.before /\ j.current.joins = op.current.joins
        /\ j.branch # "main" /\ Secured(j, objs, HEAD, anchors)
        /\ pc \in Carries => Above(j.current.before, objs, HEAD)
        /\ Typed(j, n) /\ Lineage(objs)
    BY InStepTrue
  <1>2. Level(j, k) /\ Level(k, op')
    BY <1>1, LevelTwice
  <1>3. Over(j.current.before, objs', h)
    BY <1>1 DEF Over, Above
  <1>4. Charted(j, objs') /\ Retraced(j, objs')
    BY <1>1, ChartedGrows DEF Secured
  <1>5. Led(j, objs', h)
    <2>1. j.next <= Len(j.queue) /\ j.current.before = Mapped(j, j.queue[j.next].parents[1])
      BY <1>1, Zenon DEF Placed
    <2>2. QED
      BY <1>1, <1>3, <1>4, <2>1, PlacedLeads
  <1>6. Secured(j, objs', h, anchors)
    BY <1>1, <1>4, <1>5 DEF Secured
  <1>7. Secured(k, objs', h, anchors') /\ Placed(k)
    BY <1>1, <1>2, <1>6, Levelled
  <1>8. /\ k.branch = j.branch /\ k.current.before = op.current.before /\ k.current.joins = op.current.joins
        /\ k.queue[k.next] = NextStep /\ tip'[k.branch] = h /\ branch' = k.branch
    BY <1>1, <1>2 DEF Level, Same
  <1> HIDE DEF j, k
  <1>9. pc' \notin {"reduce", "reduced", "reset", "queue", "idle"} \cup Moving
    BY DEF Stepping, Moving
  <1>10. QED
    BY <1>1, <1>2, <1>3, <1>7, <1>8, <1>9 DEF Tracked, k

LEMMA StillTracks ==
    ASSUME Lined, pc \in Stepping, pc' \in Stepping \ {"record-join"}, UNCHANGED <<objs, tip, branch, anchors>>,
           Level(op, op'), journal' = journal \/ journal' = op',
           Awaits(journal'.state) \/ pc' \in Carries \/ (pc' = "paused" /\ Awaits(op'.state)) =>
              Awaits(journal.state) \/ pc \in Carries \/ (pc = "paused" /\ Awaits(op.state)),
           Joins' /\ NextStep.kind = "merge" => mh' = op.current.joins
    PROVE  Tracked'
  <1>1. /\ Awaits(journal.state) \/ pc \in Carries \/ (pc = "paused" /\ Awaits(op.state)) =>
              Above(journal.current.before, objs, HEAD) /\ NextStep.kind # "merge"
        /\ journal.current.before = op.current.before
    BY InStepTrue
  <1>2. Grows(objs, objs') /\ HEAD = tip'[branch] /\ objs' = objs
    <2>1. Len(objs) \in Nat
      BY InStepTrue
    <2>2. QED
      BY <2>1 DEF Grows, HEAD
  <1> DEFINE h == tip'[branch]
  <1> HIDE DEF h
  <1>3. h = tip'[branch] /\ h = HEAD
    BY <1>2 DEF h
  <1>4. QED
    BY <1>1, <1>2, <1>3, StepTracks

(* Within a step: what moves no branch.                                    *)
LEMMA TrackedInStep ==
    ASSUME Lined,
           \/ PickConflicts \/ StepBlocked \/ MergeApplies \/ MergeConflicts \/ MergeJoinsNothing
           \/ AbsorbApplies \/ AbsorbConflicts \/ AbsorbBlocked \/ FinishStep \/ BeginAbsorption
           \/ AdvanceCursor \/ ApplyForecast
    PROVE  Tracked'
  <1> USE DEF Works, Thinks, Journals, Write, Go, gitVars, headVars
  <1>0. /\ pc \in Stepping /\ pc' \in Stepping \ {"record-join"} /\ (journal' = journal \/ journal' = op')
        /\ UNCHANGED <<objs, tip, branch, anchors>>
    BY DEF PickConflicts, StepBlocked, MergeApplies, MergeConflicts, MergeJoinsNothing,
           AbsorbApplies, AbsorbConflicts, AbsorbBlocked,
           FinishStep, BeginAbsorption, AdvanceCursor, ApplyForecast, Stepping
  <1>1. Sound(op) /\ Typed(op, Len(objs)) /\ Level(op, op)
    BY <1>0 DEF Lined, TypesIInv, RebaseIInv, RebaseKinds, Memory, Level, Same
  <1>2. "conflicted" # "blocked" /\ ~Awaits("conflicted") /\ ~Awaits("blocked")
    BY DEF Awaits
  <1>3. CASE PickConflicts \/ MergeConflicts
    <2>1. /\ pc \in {"pick", "merge"} /\ pc' = "paused" /\ journal' = journal
          /\ pc = "merge" => mh' = op.current.joins
          /\ op' = [op EXCEPT !.state = "conflicted", !.current.conflicted = TRUE]
      BY <1>3 DEF PickConflicts, MergeConflicts
    <2>2. Level(op, op') /\ op'.state \in {op.state, "conflicted"}
      BY <1>1, <2>1, LevelTrue
    <2>3. op'.state = "conflicted"
      BY <1>1, <2>1 DEF Sound, Shaped
    <2>4. NextStep.kind = "merge" => mh' = op.current.joins
      BY <2>1 DEF Lined, TypesIInv, Standing
    <2>5. QED
      BY <1>0, <1>2, <2>1, <2>2, <2>3, <2>4, StillTracks DEF Carries
  <1>4. CASE StepBlocked \/ MergeJoinsNothing \/ AbsorbBlocked
    <2>1. op' = [op EXCEPT !.state = "blocked"] /\ pc' = "paused" /\ journal' = journal
      BY <1>4 DEF StepBlocked, MergeJoinsNothing, AbsorbBlocked
    <2>2. Level(op, op')
      BY <1>1, <2>1, LevelTrue
    <2>3. op'.state = "blocked"
      BY <1>1, <2>1 DEF Sound, Shaped
    <2>4. QED
      BY <1>0, <1>2, <2>1, <2>2, <2>3, StillTracks DEF Carries, Joins
  <1>5. CASE MergeApplies
    <2>1. op' = op /\ pc' = "join" /\ mh' = op.current.joins /\ journal' = journal
      BY <1>5 DEF MergeApplies
    <2>2. QED
      BY <1>0, <1>1, <2>1, StillTracks DEF Carries
  <1>6. CASE AbsorbApplies \/ AbsorbConflicts \/ FinishStep \/ BeginAbsorption \/ AdvanceCursor
    <2>1. pc \in Carries /\ pc' \in {"cursor", "paused", "record", "absorb"}
      BY <1>6 DEF AbsorbApplies, AbsorbConflicts, FinishStep, BeginAbsorption, AdvanceCursor, Carries
    <2>2. Level(op, op') /\ (pc' = "paused" => op'.state # "conflicted")
      <3>1. CASE AbsorbApplies
        BY <1>1, <3>1 DEF AbsorbApplies
      <3>2. CASE AbsorbConflicts
        <4>1. op' = [op EXCEPT !.state = "awaiting-absorption"]
          BY <3>2 DEF AbsorbConflicts
        <4>2. Level(op, op')
          BY <1>1, <4>1, LevelTrue
        <4>3. op'.state = "awaiting-absorption"
          BY <1>1, <4>1 DEF Sound, Shaped
        <4>4. QED
          BY <4>2, <4>3
      <3>3. CASE FinishStep
        <4> DEFINE t == objs[HEAD].tree
        <4>1. \/ op' = op /\ pc' = "record"
              \/ \E v \in {"awaiting-message", "awaiting-content"} :
                    op' = [op EXCEPT !.current.treeBefore = t, !.state = v]
          BY <3>3, Zenon DEF FinishStep
        <4> HIDE DEF t
        <4>2. ASSUME NEW v \in {"awaiting-message", "awaiting-content"},
                     op' = [op EXCEPT !.current.treeBefore = t, !.state = v]
              PROVE  Level(op, op') /\ op'.state = v
          BY <1>1, <4>2, LevelAwaiting
        <4>3. QED
          BY <1>1, <4>1, <4>2
      <3>4. CASE BeginAbsorption \/ AdvanceCursor
        <4>1. /\ op' = [op EXCEPT !.current.cursor = 1] \/ op' = [op EXCEPT !.current.cursor = @ + 1]
              /\ pc' = "absorb"
          BY <3>4 DEF BeginAbsorption, AdvanceCursor
        <4>2. QED
          BY <1>1, <4>1, LevelTrue
      <3>5. QED
        BY <1>6, <3>1, <3>2, <3>3, <3>4
    <2>3. QED
      BY <1>0, <2>1, <2>2, StillTracks DEF Joins
  <1>7. CASE ApplyForecast
    <2>1. op' = op /\ journal' = op /\ pc' = "batch" /\ mh' = mh /\ pc = "paused" /\ op.state = "conflicted"
      BY <1>7 DEF ApplyForecast
    <2>2. NextStep.kind = "merge" => mh' = op.current.joins
      BY <1>0, <2>1, InStepTrue DEF Joins
    <2>3. QED
      BY <1>0, <1>1, <1>2, <2>1, <2>2, StillTracks DEF Carries
  <1>8. QED
    BY <1>3, <1>4, <1>5, <1>6, <1>7

(* Within a step: a commit on top of HEAD, and HEAD amended.               *)
LEMMA TrackedCommits ==
    ASSUME Lined, PickApplies \/ ContinuePick \/ CommitJoin \/ Meld \/ RewordStep \/ EditStep
    PROVE  Tracked' /\ Descent(objs') /\ Grows(objs, objs')
  <1> USE DEF Works, Go
  <1> DEFINE c == op.current.commit
             h == New
  <1>0. /\ pc \in Stepping /\ pc' \in Stepping /\ journal' = journal /\ UNCHANGED <<branch, anchors>>
    BY DEF PickApplies, ContinuePick, CommitJoin, Meld, RewordStep, EditStep, Stepping
  <1>1. Sound(op) /\ Typed(op, Len(objs)) /\ Level(op, op) /\ Repository /\ Descent(objs) /\ HEAD \in Objects
    BY <1>0, CommitsTrue DEF Lined, TypesIInv, RebaseIInv, RebaseKinds, Memory, Level, Same
  <1>2. /\ Over(op.current.before, objs, HEAD)
        /\ Awaits(journal.state) \/ pc \in Carries => Above(op.current.before, objs, HEAD) /\ NextStep.kind # "merge"
        /\ Joins /\ NextStep.kind = "merge" => mh = op.current.joins
    <2>1. /\ Over(journal.current.before, objs, HEAD)
          /\ Awaits(journal.state) \/ pc \in Carries \/ (pc = "paused" /\ Awaits(op.state)) =>
                Above(journal.current.before, objs, HEAD) /\ NextStep.kind # "merge"
          /\ Joins /\ NextStep.kind = "merge" => mh = journal.current.joins
          /\ journal.current.before = op.current.before /\ journal.current.joins = op.current.joins
      BY <1>0, InStepTrue
    <2>2. QED
      BY <2>1
  <1>3. \A b : Above(b, objs, HEAD) => Over(b, objs, HEAD)
    BY DEF Above, Over
  <1>4. branch \in Branch /\ tip \in [Branch -> Objects]
    BY <1>1 DEF Repository
  <1>5. ASSUME NEW parents, NEW of, NEW named, NEW content, AddCommit(parents, of, named, content)
        PROVE  h = tip'[branch] /\ objs' = Append(objs, Made(objs, parents, of, named, content))
    BY <1>4, <1>5 DEF AddCommit
  <1> HIDE DEF c, h
  <1>6. CASE PickApplies \/ ContinuePick
    <2>1. /\ \E of, named, content : AddCommit(<<HEAD>>, of, named, content)
          /\ op' = op /\ pc' \in {"finish", "absorb", "record"} /\ (pc = "pick" \/ NextStep.kind = "pick")
      BY <1>6, Zenon DEF PickApplies, ContinuePick
    <2>2. PICK of, named, content : AddCommit(<<HEAD>>, of, named, content)
      BY <2>1, Zenon
    <2>3. h = tip'[branch] /\ objs' = Append(objs, Made(objs, <<HEAD>>, of, named, content))
      BY <1>5, <2>2, Zenon
    <2>4. Descent(objs') /\ Grows(objs, objs') /\ \A b : Over(b, objs, HEAD) => Above(b, objs', h)
      BY <1>1, <2>3, Raises DEF h
    <2>5. NextStep.kind # "merge"
      BY <2>1 DEF Lined, TypesIInv, Standing
    <2>6. \A b : Over(b, objs, HEAD) => Over(b, objs', h)
      BY <2>4 DEF Above, Over
    <2>7. QED
      BY <1>0, <1>1, <1>2, <1>3, <2>1, <2>3, <2>4, <2>5, <2>6, StepTracks
  <1>7. CASE CommitJoin
    <2>1. /\ AddCommit(<<HEAD, mh>>, None, FALSE, index) /\ NextStep.kind = "merge"
          /\ op' = op /\ pc' = "record-join" /\ pc \in {"join", "batch", "continue"}
      BY <1>7 DEF CommitJoin
    <2>2. h = tip'[branch] /\ objs' = Append(objs, Made(objs, <<HEAD, mh>>, None, FALSE, index))
      BY <1>5, <2>1
    <2>3. mh # NoCommit /\ mh \in 0..Len(objs)
      BY <2>1 DEF Lined, TypesIInv, Standing, Repository
    <2>4. mh \in Objects /\ mh = op.current.joins
      BY <1>1, <1>2, <2>1, <2>3, CommitsTrue DEF Objects, NoCommit, Joins
    <2>5. /\ Descent(objs') /\ Grows(objs, objs') /\ \A b : Over(b, objs, HEAD) => Above(b, objs', h)
          /\ Over(mh, objs', h)
      BY <1>1, <2>2, <2>4, Raises DEF h
    <2>6. \A b : Over(b, objs, HEAD) => Over(b, objs', h)
      BY <2>5 DEF Above, Over
    <2>7. ~Joins' /\ pc' \notin Carries /\ pc' # "paused" /\ journal'.state = journal.state
      BY <1>0, <2>1 DEF Joins, Carries
    <2>8. QED
      BY <1>0, <1>1, <1>2, <1>3, <2>1, <2>2, <2>4, <2>5, <2>6, <2>7, StepTracks
  <1>8. CASE Meld \/ RewordStep \/ EditStep
    <2>1. /\ \E of, named, content : Amend(of, named, content)
          /\ pc' \in {"finish", "record", "paused"} /\ pc \in Carries
      BY <1>8, Zenon DEF Meld, RewordStep, EditStep, Carries
    <2>2. PICK of, named, content : Amend(of, named, content)
      BY <2>1, Zenon
    <2>3. h = tip'[branch]
      BY <1>4, <2>2 DEF Amend, AddCommit, h
    <2>4. Descent(objs') /\ Grows(objs, objs') /\ \A b : Above(b, objs, HEAD) => Above(b, objs', h)
      BY <1>1, <2>2, Replaces DEF h
    <2>5. Level(op, op') /\ (pc' = "paused" => op'.state = "blocked")
      <3>1. CASE Meld
        BY <1>1, <3>1 DEF Meld
      <3>2. CASE RewordStep
        <4>1. \/ op' = op /\ pc' = "record"
              \/ op' = [op EXCEPT !.state = "blocked"] /\ pc' = "paused"
          BY <3>2 DEF RewordStep
        <4>2. Level(op, op')
          BY <1>1, <4>1, LevelTrue
        <4>3. pc' = "paused" => op'.state = "blocked"
          BY <1>1, <4>1 DEF Sound, Shaped
        <4>4. QED
          BY <4>2, <4>3
      <3>3. CASE EditStep
        <4>1. pc' = "record" /\ (op' = op \/ \E e : op' = [op EXCEPT !.amendments = Append(@, e)])
          BY <3>3 DEF EditStep
        <4>2. QED
          BY <1>1, <4>1, LevelAmended
      <3>4. QED
        BY <1>8, <3>1, <3>2, <3>3
    <2>6. ~Joins' /\ pc' # "record-join"
      BY <2>1, <2>5 DEF Joins
    <2>7. Above(op.current.before, objs', h) /\ NextStep.kind # "merge"
      BY <1>2, <2>1, <2>4
    <2>8. QED
      BY <1>0, <1>1, <2>1, <2>3, <2>4, <2>5, <2>6, <2>7, StepTracks
  <1>9. QED
    BY <1>6, <1>7, <1>8

(* A step that is done: its commit joins the line, and the anchors have    *)
(* what went before.                                                       *)
LEMMA EndTracks ==
    ASSUME Lined, pc' \in Moving, MoreSteps, UNCHANGED <<objs, tip, branch, anchors, journal>>,
           Level(journal, op), NEW h, h \in 1..Len(objs), NEW c, c = NextStep.commit,
           branch = journal.branch, op.next = journal.next,
           Same(op, op'), op'.next = op.next + 1, op'.rewritten = [op.rewritten EXCEPT ![c] = h],
           \A k \in 1..Len(NextStep.parents) : Over(Mapped(op, NextStep.parents[k]), objs, h),
           Led(op', objs, HEAD) \/ Over(h, objs, HEAD),
           pc' = IF Preserving(op') THEN "anchor" ELSE "advance"
    PROVE  Tracked'
  <1> DEFINE p == op'
             n == Len(objs)
  <1>1. /\ Typed(op, n) /\ Lineage(objs) /\ Descent(objs) /\ tip[journal.branch] = HEAD
        /\ Secured(journal, objs, HEAD, anchors) /\ journal.branch # "main"
    BY DEF Lined, TypesIInv, Memory, Repository, Tracked, HEAD
  <1>2. Secured(op, objs, HEAD, anchors)
    BY <1>1, Levelled
  <1>3. op.next <= Len(op.queue) /\ NextStep = op.queue[op.next]
    BY DEF MoreSteps, NextStep
  <1>4. Charted(op, objs) /\ Retraced(op, objs) /\ Held(op, anchors, 0)
    BY <1>2, <1>3 DEF Secured
  <1> HIDE DEF p
  <1>5. Same(op, p) /\ p.next = op.next + 1 /\ Advances(op, p, objs, h)
    BY <1>3 DEF Advances, p
  <1>6. /\ Charted(p, objs) /\ Retraced(p, objs) /\ (\A g : Over(h, objs, g) => Led(p, objs, g))
        /\ \A i \in 1..Len(op.queue) : i < op.next => p.rewritten[op.queue[i].commit] = op.rewritten[op.queue[i].commit]
    <2>1. Advanced(op, p, objs, h)
      BY <1>1, <1>3, <1>4, <1>5, LineGoesOn
    <2>2. QED
      BY <2>1 DEF Advanced
  <1>7. Led(p, objs, HEAD)
    BY <1>6 DEF p
  <1>8. p.queue = op.queue /\ p.id = op.id /\ op.next \in Nat /\ op.next = journal.next
    <2>1. Within(op, n)
      BY <1>1, QueueWithin
    <2>2. QED
      BY <1>5, <2>1 DEF Same, Within
  <1>9. Held(p, anchors, IF Preserving(p) THEN p.next - 1 ELSE 0)
    <2>1. CASE ~Preserving(p)
      BY <2>1 DEF Held
    <2>2. CASE Preserving(p)
      <3>1. Preserving(op)
        BY <1>8, <2>2 DEF Preserving
      <3>2. p.next - 1 = op.next
        BY <1>5, <1>8
      <3>3. ASSUME NEW i \in 1..Len(op.queue), i < p.next, i # op.next
            PROVE  <<p.id, op.queue[i].commit, p.rewritten[op.queue[i].commit]>> \in anchors
        <4>1. i < op.next /\ i # 0
          BY <1>5, <1>8, <3>3
        <4>2. <<op.id, op.queue[i].commit, op.rewritten[op.queue[i].commit]>> \in anchors
          BY <1>4, <3>1, <4>1 DEF Held
        <4>3. QED
          BY <1>6, <1>8, <4>1, <4>2
      <3>4. QED
        BY <1>8, <2>2, <3>2, <3>3 DEF Held
    <2>3. QED
      BY <2>1, <2>2
  <1>10. IF pc' = "anchor" THEN Preserving(p) ELSE pc' = "advance" /\ ~Preserving(p)
    BY DEF p
  <1>11. /\ pc' \notin Stepping \cup Carries \cup {"idle", "paused", "reduce", "reduced", "reset", "queue", "join", "batch",
                                                "continue", "record-join"}
    BY DEF Moving, Stepping, Carries
  <1>12. /\ journal.state \notin {"applying", "blocked"} => Placed(journal) /\ Over(journal.current.before, objs, HEAD)
         /\ Awaits(journal.state) => Above(journal.current.before, objs, HEAD) /\ journal.queue[journal.next].kind # "merge"
    BY <1>1 DEF Lined, Tracked
  <1>13. tip'[journal'.branch] = HEAD /\ journal' = journal /\ objs' = objs /\ anchors' = anchors /\ branch' = journal'.branch
    BY <1>1
  <1>14. Held(p, anchors, IF pc' = "anchor" THEN p.next - 1 ELSE 0)
    BY <1>9, <1>10
  <1>15. p.next = journal.next + 1
    BY <1>5, <1>8
  <1>16. QED
    BY <1>1, <1>6, <1>7, <1>11, <1>12, <1>13, <1>14, <1>15 DEF Tracked, Joins, p

LEMMA TrackedEnds ==
    ASSUME Lined, OmitStep \/ RecordApplication \/ RecordJoin
    PROVE  Tracked'
  <1> USE DEF Thinks, Keep, Go, gitVars, headVars
  <1> DEFINE n == Len(objs)
             c == op.current.commit
             h == HEAD
  <1>1. /\ pc # "idle" /\ UNCHANGED <<journal, objs, tip, branch, anchors>>
        /\ MoreSteps /\ (pc = "queue" \/ pc \in Stepping)
    <2>1. /\ UNCHANGED <<journal, objs, tip, branch, anchors>>
          /\ (pc = "queue" /\ MoreSteps) \/ pc \in {"record", "record-join"}
      BY DEF OmitStep, RecordApplication, RecordJoin
    <2>2. QED
      BY <2>1, OperationTrue DEF Stepping, Lined
  <1>2. Sound(op) /\ Typed(op, n) /\ n \in Nat /\ op.next <= Len(op.queue) /\ h \in 1..n
    BY <1>1, OperationTrue, CommitsTrue DEF TypesIInv, MoreSteps, Objects, Lined
  <1>3. pc \in Stepping => c = NextStep.commit
    BY <1>1, OperationTrue DEF AtStep, NextStep, Lined
  <1>4. Level(journal, op) /\ branch = journal.branch /\ op.next = journal.next
    <2>1. CASE pc \in Stepping
      BY <2>1, InStepTrue
    <2>2. CASE pc = "queue"
      <3>1. journal = op
        BY <2>2, Runs DEF Lined, TypesIInv, Starting
      <3>2. QED
        BY <2>2, <3>1 DEF Level, Same, Lined, Tracked
    <2>3. QED
      BY <1>1, <2>1, <2>2
  <1>5. /\ Secured(op, objs, HEAD, anchors) /\ Lineage(objs) /\ Descent(objs)
        /\ h \in objs[h].past /\ Over(h, objs, HEAD)
    <2>1. Secured(journal, objs, HEAD, anchors) /\ Lineage(objs) /\ Descent(objs)
      BY <1>4 DEF Lined, Tracked, HEAD, TypesIInv, Repository
    <2>2. h \in objs[h].past
      BY <1>2, <2>1, PastTrue
    <2>3. QED
      BY <1>4, <2>1, <2>2, Levelled DEF Over
  <1>6. NextStep = op.queue[op.next]
    BY DEF NextStep
  <1>7. pc \in Stepping =>
           /\ op.current.before = Mapped(op, NextStep.parents[1]) /\ Over(op.current.before, objs, HEAD)
           /\ NextStep.kind = "merge" => op.current.joins = Mapped(op, NextStep.parents[2])
           /\ pc = "record" => NextStep.kind # "merge"
           /\ pc = "record-join" /\ NextStep.kind = "merge" => Over(op.current.joins, objs, HEAD)
    <2>1. pc \in Stepping =>
             /\ Placed(op) /\ Over(op.current.before, objs, HEAD)
             /\ pc = "record" => NextStep.kind # "merge"
             /\ pc = "record-join" /\ NextStep.kind = "merge" => Over(op.current.joins, objs, HEAD)
      BY <1>4, InStepTrue, Levelled DEF Carries
    <2>2. QED
      BY <1>6, <2>1 DEF Placed
  <1>8. /\ NextStep.kind # "merge" => Len(NextStep.parents) = 1
        /\ NextStep.kind = "merge" => Len(NextStep.parents) = 2
    <2>1. op.next \in 1..Len(op.queue)
      BY <1>1, OperationTrue DEF Lined
    <2>2. Drawn(op.queue, objs) /\ Planned(op.queue, n)
      BY <1>2, <1>5 DEF Secured, Charted, Typed
    <2>3. QED
      BY <1>6, <2>1, <2>2 DEF Drawn, Planned
  <1>9. pc \in Stepping => \A k \in 1..Len(NextStep.parents) : Over(Mapped(op, NextStep.parents[k]), objs, h)
    <2>1. CASE pc \in Stepping /\ NextStep.kind = "merge" /\ pc = "record-join"
      <3>1. \A k \in 1..Len(NextStep.parents) : k = 1 \/ k = 2
        <4>1. Len(NextStep.parents) = 2
          BY <1>8, <2>1
        <4>2. QED
          BY <4>1
      <3>2. QED
        BY <1>7, <2>1, <3>1
    <2>2. CASE pc \in Stepping /\ NextStep.kind # "merge"
      <3>1. \A k \in 1..Len(NextStep.parents) : k = 1
        <4>1. Len(NextStep.parents) = 1
          BY <1>8, <2>2
        <4>2. QED
          BY <4>1
      <3>2. QED
        BY <1>7, <2>2, <3>1
    <2>3. pc \in Stepping => pc \in {"record", "record-join"}
      BY DEF OmitStep, RecordApplication, RecordJoin, Stepping
    <2>4. QED
      BY <1>7, <2>1, <2>2, <2>3
  <1> HIDE DEF n, c, h
  <1>10. CASE OmitStep
    <2> DEFINE m == Mapped(op, NextStep.parents[1])
               d == NextStep.commit
    <2>1. /\ op' = [op EXCEPT !.rewritten[d] = m, !.next = @ + 1] /\ pc = "queue" /\ NextStep.kind = "omit"
          /\ pc' = IF Preserving(op') THEN "anchor" ELSE "advance"
      BY <1>10, Zenon DEF OmitStep
    <2>2. m \in 1..n /\ d = op.queue[op.next].commit
      BY <1>1, OperationTrue DEF n, Objects, NextStep, Lined
    <2>3. \A k \in 1..Len(NextStep.parents) : Over(Mapped(op, NextStep.parents[k]), objs, m)
      <3>1. \A k \in 1..Len(NextStep.parents) : k = 1
        <4>1. Len(NextStep.parents) = 1
          BY <1>8, <2>1
        <4>2. QED
          BY <4>1
      <3>2. m \in objs[m].past
        BY <1>5, <2>2, PastTrue DEF n
      <3>3. QED
        BY <3>1, <3>2 DEF Over
    <2>4. op.next > 1 => Led(op, objs, HEAD)
      BY <1>5 DEF Secured
    <2>5. op.next = 1 => Over(m, objs, HEAD)
      <3>1. SUFFICES ASSUME op.next = 1 PROVE Over(m, objs, HEAD)
        OBVIOUS
      <3>2. Over(journal.onto, objs, HEAD) /\ journal.onto = op.onto
        BY <1>4, <2>1, <3>1 DEF Lined, Tracked, HEAD, Level, Same
      <3>3. NextStep.parents[1] = NoCommit
        <4>1. 1 \in 1..Len(op.queue) /\ Planned(op.queue, n) /\ 1 \in 1..Len(NextStep.parents)
          <5>1. op.next \in 1..Len(op.queue) /\ Len(NextStep.parents) = 1
            BY <1>1, <1>8, <2>1, OperationTrue DEF Lined
          <5>2. QED
            BY <1>2, <3>1, <5>1 DEF Typed
        <4>2. 1..(1 - 1) = {}
          OBVIOUS
        <4>3. QED
          BY <1>6, <3>1, <4>1, <4>2 DEF Planned
      <3>4. m = op.onto
        BY <3>3, Zenon DEF Mapped
      <3>5. QED
        BY <3>2, <3>4
    <2> HIDE DEF m, d
    <2>6. /\ Same(op, op') /\ op'.next = op.next + 1 /\ op'.rewritten = [op.rewritten EXCEPT ![d] = m]
      BY <1>2, <2>1 DEF Sound, Shaped, Same
    <2>7. Led(op', objs, HEAD) \/ Over(m, objs, HEAD)
      <3>1. SUFFICES ASSUME Straight(op.queue, op.next + 1), op.next # 1 PROVE Over(m, objs, HEAD)
        BY <2>5, <2>6 DEF Led, Same
      <3>2. Within(op, n)
        BY <1>2, QueueWithin
      <3>3. op.next > 1 /\ op.next \in 1..Len(op.queue) /\ op.next - 1 \in 1..Len(op.queue)
            /\ op.queue[op.next - 1].commit # NoCommit
        <4>1. op.next > 1 /\ op.next \in 1..Len(op.queue) /\ op.next - 1 \in 1..Len(op.queue)
          BY <1>2, <3>1, <3>2 DEF Within
        <4>2. QED
          BY <3>2, <4>1 DEF Within
      <3>4. Straight(op.queue, op.next)
        <4>1. \A i \in op.next..Len(op.queue) : i = op.next \/ i \in (op.next + 1)..Len(op.queue)
          BY <3>2 DEF Within
        <4>2. op.queue[op.next].kind # "merge"
          BY <1>6, <2>1
        <4>3. QED
          BY <3>1, <4>1, <4>2 DEF Straight
      <3>5. Over(op.rewritten[op.queue[op.next - 1].commit], objs, HEAD)
        BY <2>4, <3>3, <3>4 DEF Led
      <3>6. op.queue[op.next].parents[1] = op.queue[op.next - 1].commit
        BY <1>5, <3>3, <3>4 DEF Secured, Charted, Drawn
      <3>7. m = op.rewritten[op.queue[op.next - 1].commit]
        BY <1>6, <3>3, <3>6, Zenon DEF Mapped, m
      <3>8. QED
        BY <3>5, <3>7
    <2>8. pc' \in Moving
      BY <2>1 DEF Moving
    <2>9. d = NextStep.commit
      BY DEF d
    <2>10. QED
      BY <1>1, <1>4, <2>1, <2>2, <2>3, <2>6, <2>7, <2>8, <2>9, EndTracks DEF n
  <1>11. ASSUME pc \in Stepping, pc' = (IF Preserving(op') THEN "anchor" ELSE "advance"),
                Same(op, op'), op'.next = op.next + 1, op'.rewritten = [op.rewritten EXCEPT ![c] = h]
         PROVE  Tracked'
    <2>1. pc' \in Moving
      BY <1>11 DEF Moving
    <2>2. c = NextStep.commit /\ h \in 1..Len(objs) /\ Over(h, objs, HEAD)
          /\ \A k \in 1..Len(NextStep.parents) : Over(Mapped(op, NextStep.parents[k]), objs, h)
      BY <1>2, <1>3, <1>5, <1>9, <1>11 DEF n
    <2>3. QED
      BY <1>1, <1>4, <1>11, <2>1, <2>2, EndTracks
  <1>12. CASE RecordJoin
    <2> DEFINE j == [origin |-> c, commit |-> h, parents |-> <<op.current.before, op.current.joins>>]
    <2>1. /\ op' = [op EXCEPT !.joins = Append(@, j), !.rewritten[c] = h, !.next = @ + 1,
                              !.current = NoCurrent, !.state = "applying"]
          /\ pc' = (IF Preserving(op') THEN "anchor" ELSE "advance") /\ pc \in Stepping
      <3>1. pc \in Stepping
        BY <1>12 DEF RecordJoin, Stepping
      <3>2. QED
        BY <1>12, <3>1, Zenon DEF RecordJoin, c, h
    <2> HIDE DEF j
    <2>2. /\ Same(op, op') /\ op'.next = op.next + 1 /\ op'.rewritten = [op.rewritten EXCEPT ![c] = h]
      BY <1>2, <2>1 DEF Sound, Shaped, Same
    <2>3. QED
      BY <1>11, <2>1, <2>2
  <1>13. CASE RecordApplication
    <2>1. pc = "record" /\ pc \in Stepping
          /\ \/ op' = Recorded(op) /\ pc' = IF Preserving(op') THEN "anchor" ELSE "advance"
             \/ op' = [op EXCEPT !.state = "blocked"] /\ pc' = "paused"
      <3>1. pc = "record" /\ pc \in Stepping
        BY <1>13 DEF RecordApplication, Stepping
      <3>2. QED
        BY <1>13, <3>1, Zenon DEF RecordApplication
    <2>2. CASE op' = Recorded(op) /\ pc' = IF Preserving(op') THEN "anchor" ELSE "advance"
      <3> DEFINE app == [origin |-> c, commit |-> h, fork |-> op.current.fork]
                 ab == [survivor |-> h, absorbed |-> Elements(op.queue[op.next].absorbs)]
                 abs == IF op.current.cursor = 0 THEN op.absorptions ELSE Append(op.absorptions, ab)
      <3>1. op' = [op EXCEPT !.applied = Append(@, app), !.absorptions = abs, !.rewritten[c] = h,
                             !.next = @ + 1, !.current = NoCurrent, !.state = "applying"]
        BY <2>2, Zenon DEF Recorded, c, h
      <3> HIDE DEF app, ab, abs
      <3>2. /\ Same(op, op') /\ op'.next = op.next + 1 /\ op'.rewritten = [op.rewritten EXCEPT ![c] = h]
        BY <1>2, <3>1 DEF Sound, Shaped, Same
      <3>3. QED
        BY <1>11, <2>1, <2>2, <3>2
    <2>3. CASE op' = [op EXCEPT !.state = "blocked"] /\ pc' = "paused"
      <3>1. Level(op, op')
        BY <1>2, <2>3, LevelTrue
      <3>2. op'.state = "blocked" /\ ~Awaits("blocked")
        BY <1>2, <2>3 DEF Sound, Shaped, Awaits
      <3>3. QED
        BY <1>1, <2>1, <2>3, <3>1, <3>2, StillTracks DEF Stepping, Carries, Joins
    <2>4. QED
      BY <2>1, <2>2, <2>3
  <1>14. QED
    BY <1>10, <1>12, <1>13

(* A step that ended: its anchor, and the journal that learns of it.       *)
LEMMA TrackedMoves ==
    ASSUME Lined, AnchorStep \/ Advance
    PROVE  Tracked'
  <1> DEFINE n == Len(objs)
             N == Len(op.queue)
             c == op.queue[op.next - 1].commit
  <1>1. /\ pc \in Moving /\ pc # "idle" /\ UNCHANGED <<objs, tip, branch, op>>
        /\ UNCHANGED op
    BY DEF AnchorStep, Advance, gitVars, headVars, Moving
  <1>2. /\ Same(journal, op) /\ op.state = "applying" /\ Typed(op, n) /\ Typed(journal, n)
        /\ journal.state \notin {"applying", "blocked"} => journal.next <= Len(journal.queue)
    BY <1>1, Runs DEF Lined, TypesIInv, Memory
  <1>3. /\ journal.branch # "main" /\ branch = journal.branch /\ tip[journal.branch] = HEAD
        /\ Secured(journal, objs, HEAD, anchors)
        /\ journal.state \notin {"applying", "blocked"} => Placed(journal) /\ Over(journal.current.before, objs, HEAD)
        /\ Awaits(journal.state) => Above(journal.current.before, objs, HEAD) /\ journal.queue[journal.next].kind # "merge"
        /\ op.next = journal.next + 1
        /\ Charted(op, objs) /\ Retraced(op, objs) /\ Led(op, objs, HEAD)
        /\ Held(op, anchors, IF pc = "anchor" THEN op.next - 1 ELSE 0)
    <2>1. branch = journal.branch /\ tip[journal.branch] = HEAD
      BY <1>1 DEF Lined, Tracked, HEAD
    <2>2. QED
      BY <1>1, <2>1 DEF Lined, Tracked
  <1>4. /\ N \in Nat /\ op.next \in Nat /\ journal.next \in Nat /\ journal.next >= 1 /\ op.next > 1
        /\ op.next <= N + 1
    <2>1. Within(op, n) /\ Within(journal, n)
      BY <1>2, QueueWithin
    <2>2. QED
      BY <1>2, <1>3, <2>1 DEF Within, Typed
  <1>5. op.queue = journal.queue /\ op.id = journal.id /\ journal.branch = op.branch
    BY <1>2 DEF Same
  <1>6. CASE Advance
    <2>1. journal' = op /\ pc' = "queue" /\ anchors' = anchors /\ pc = "advance"
      BY <1>6 DEF Advance, Go
    <2>2. Held(op, anchors, 0)
      BY <1>3, <2>1
    <2>3. Secured(op, objs, HEAD, anchors)
      BY <1>3, <2>2 DEF Secured
    <2>4. tip'[op.branch] = HEAD /\ branch' = op.branch
      BY <1>1, <1>3, <1>5
    <2>5. op.next # 1
      BY <1>4
    <2>6. QED
      BY <1>1, <1>2, <1>3, <1>5, <2>1, <2>3, <2>4, <2>5 DEF Tracked, Awaits, Stepping, Moving, Carries, Joins
  <1>7. CASE AnchorStep
    <2>1. /\ anchors' = {a \in anchors : a[1] # op.id \/ a[2] # c} \cup {<<op.id, c, op.rewritten[c]>>}
          /\ pc' = "advance" /\ journal' = journal /\ pc = "anchor"
      BY <1>7 DEF AnchorStep, Go, Anchored
    <2>2. \A i \in 1..N : i < op.next - 1 => op.queue[i].commit # c
      <3>1. Drawn(op.queue, objs) /\ Within(op, n)
        BY <1>2, <1>3, QueueWithin DEF Charted
      <3>2. ASSUME NEW i \in 1..N, i < op.next - 1 PROVE op.queue[i].commit # c
        <4>1. op.next - 1 \in 1..N
          BY <1>4
        <4>2. op.queue[i].commit < c
          BY <3>1, <3>2, <4>1 DEF Drawn
        <4>3. op.queue[i].commit \in 1..n /\ c \in 1..n
          BY <3>1, <4>1 DEF Within
        <4>4. n \in Nat
          BY CommitsTrue DEF Lined, TypesIInv
        <4>5. QED
          BY <4>2, <4>3, <4>4
      <3>3. QED
        BY <3>2
    <2>3. ASSUME NEW x, NEW d, d # c, <<op.id, d, x>> \in anchors
          PROVE  <<op.id, d, x>> \in anchors'
      BY <2>1, <2>3
    <2>4. Held(op, anchors', 0)
      <3>1. ASSUME Preserving(op), NEW i \in 1..N, i < op.next
            PROVE  <<op.id, op.queue[i].commit, op.rewritten[op.queue[i].commit]>> \in anchors'
        <4>1. CASE i = op.next - 1
          BY <2>1, <4>1
        <4>2. CASE i # op.next - 1
          <5>1. <<op.id, op.queue[i].commit, op.rewritten[op.queue[i].commit]>> \in anchors
            BY <1>3, <2>1, <3>1, <4>2 DEF Held
          <5>2. i < op.next - 1
            BY <1>4, <3>1, <4>2
          <5>3. op.queue[i].commit # c
            BY <2>2, <5>2
          <5>4. QED
            BY <2>3, <5>1, <5>3
        <4>3. QED
          BY <4>1, <4>2
      <3>2. QED
        BY <3>1 DEF Held
    <2>5. journal.next <= Len(journal.queue) => Held(journal, anchors', 0)
      <3>1. ASSUME journal.next <= Len(journal.queue), Preserving(journal),
                   NEW i \in 1..Len(journal.queue), i < journal.next
            PROVE  <<journal.id, journal.queue[i].commit, journal.rewritten[journal.queue[i].commit]>> \in anchors'
        <4>1. <<journal.id, journal.queue[i].commit, journal.rewritten[journal.queue[i].commit]>> \in anchors
          <5>1. i # 0
            BY <1>4, <1>5
          <5>2. QED
            BY <1>3, <3>1, <5>1 DEF Secured, Held
        <4>2. i < op.next - 1
          BY <1>3, <1>4, <1>5, <3>1
        <4>3. journal.queue[i].commit # c
          BY <1>5, <2>2, <4>2
        <4>4. QED
          BY <1>5, <2>3, <4>1, <4>3
      <3>2. QED
        BY <3>1 DEF Held
    <2> HIDE DEF c
    <2>6. Secured(journal, objs, HEAD, anchors')
      BY <1>3, <2>5 DEF Secured
    <2>7. tip'[journal.branch] = HEAD /\ branch' = journal.branch
      BY <1>1, <1>3
    <2>8. pc' \notin Stepping \cup Carries \cup {"idle", "paused", "reduce", "reduced", "reset", "queue", "join", "batch",
                                                "continue", "record-join", "anchor"}
      BY <2>1 DEF Stepping, Carries
    <2>9. Held(op', anchors', IF pc' = "anchor" THEN op'.next - 1 ELSE 0)
      BY <1>1, <2>1, <2>4
    <2>10. QED
      BY <1>1, <1>2, <1>3, <2>1, <2>6, <2>7, <2>8, <2>9 DEF Tracked, Joins
  <1>8. QED
    BY <1>6, <1>7

(* Before the queue, between its steps and behind it.                      *)
LEMMA PhaseTracks ==
    ASSUME Lined, UNCHANGED <<objs, branch>>, pc' \in Starting \cup Finishing, branch = journal.branch,
           Level(journal, journal'), journal'.state = "applying",
           anchors' = anchors \/ journal.next > Len(journal.queue),
           NEW h, h = tip'[branch], Led(journal, objs, h),
           pc' \in {"reduce", "reduced", "reset"} => journal.next = 1,
           pc' = "queue" /\ journal.next = 1 => Over(journal.onto, objs, h)
    PROVE  Tracked'
  <1> DEFINE k == journal'
  <1>1. /\ k.branch = journal.branch /\ k.onto = journal.onto /\ k.next = journal.next /\ k.queue = journal.queue
        /\ Level(journal, k) /\ k.state = "applying"
    BY DEF Level, Same
  <1>2. Secured(journal, objs, tip[journal.branch], anchors) /\ journal.branch # "main"
    BY DEF Lined, Tracked
  <1>3. journal.next <= Len(journal.queue) => anchors' = anchors
    <2>1. Within(journal, Len(objs))
      BY QueueWithin DEF Lined, TypesIInv, Memory
    <2>2. QED
      BY <2>1 DEF Within
  <1>4. Secured(journal, objs, h, anchors')
    BY <1>2, <1>3 DEF Secured
  <1>5. Secured(k, objs', h, anchors')
    BY <1>1, <1>4, Levelled
  <1>6. tip'[k.branch] = h /\ branch' = k.branch
    BY <1>1
  <1> HIDE DEF k
  <1>7. /\ pc' \notin Stepping \cup Moving \cup Carries \cup {"idle", "paused", "join", "batch", "continue", "record-join"}
        /\ ~Awaits("applying")
    BY DEF Starting, Finishing, Sharing, Stepping, Moving, Carries, Awaits
  <1>8. QED
    BY <1>1, <1>2, <1>5, <1>6, <1>7 DEF Tracked, Joins, k

LEMMA TrackedPhases ==
    ASSUME Lined,
           \/ RemoveDraftFiles \/ ReduceToHead \/ ResetOnto \/ PositionStep \/ QueueDone
           \/ Verified \/ MaterializeOverlay \/ RecordOverlay \/ Publish
           \/ (ReleaseAnchors /\ pc = "release")
    PROVE  Tracked'
  <1> USE DEF Works, Thinks, Journals, Write, Go, gitVars, headVars
  <1>0. /\ pc \in Starting \cup Finishing /\ pc' \in Starting \cup Finishing /\ UNCHANGED <<objs, branch>>
        /\ anchors' = anchors \/ pc \in Finishing
        /\ pc \in Finishing => tip' = tip
    BY DEF RemoveDraftFiles, ReduceToHead, ResetOnto, PositionStep, QueueDone, Verified, MaterializeOverlay,
           RecordOverlay, Publish, ReleaseAnchors, Starting, Finishing, Sharing
  <1>1. /\ pc # "idle" /\ journal = op /\ op.state = "applying" /\ Sound(op) /\ Typed(op, Len(objs)) /\ Lineage(objs)
        /\ Descent(objs) /\ (pc \in Finishing => op.next > Len(op.queue))
    <2>1. pc # "idle"
      BY <1>0 DEF Starting, Finishing, Sharing
    <2>2. QED
      BY <1>0, <2>1, Runs DEF Lined, TypesIInv, Memory, Repository
  <1>2. /\ branch = journal.branch /\ HEAD = tip[branch] /\ Secured(op, objs, HEAD, anchors) /\ branch \in Branch
        /\ pc \in {"reduce", "reduced", "reset"} => op.next = 1
        /\ pc = "queue" /\ op.next = 1 => Over(op.onto, objs, HEAD)
    BY <1>1 DEF Lined, Tracked, HEAD, TypesIInv, Repository
  <1>3. Level(op, op) /\ tip \in [Branch -> Objects]
    BY DEF Level, Same, Lined, TypesIInv, Repository
  <1>4. CASE RemoveDraftFiles \/ ReduceToHead
    <2>1. UNCHANGED <<journal, tip, anchors>> /\ pc \in {"reduce", "reduced"} /\ pc' \in {"reduced", "reset"}
      BY <1>4 DEF RemoveDraftFiles, ReduceToHead
    <2>2. HEAD = tip'[branch] /\ Led(journal, objs, HEAD) /\ Level(journal, journal') /\ journal'.state = "applying"
      BY <1>1, <1>2, <1>3, <2>1 DEF Secured
    <2>3. QED
      BY <1>0, <1>1, <1>2, <2>1, <2>2, PhaseTracks
  <1>5. CASE ResetOnto
    <2>1. tip' = [tip EXCEPT ![branch] = op.onto] /\ UNCHANGED <<journal, anchors>> /\ pc = "reset" /\ pc' = "queue"
      BY <1>5 DEF ResetOnto
    <2>2. op.onto = tip'[branch] /\ op.onto \in Objects
      BY <1>1, <1>2, <1>3, <2>1, OperationTrue DEF Lined
    <2>3. Over(op.onto, objs, op.onto)
      BY <1>1, <2>2, PastTrue DEF Over, Objects
    <2>4. Led(journal, objs, op.onto) /\ Level(journal, journal') /\ journal'.state = "applying"
      BY <1>1, <1>2, <1>3, <2>1 DEF Led
    <2> DEFINE h == op.onto
    <2> HIDE DEF h
    <2>5. h = tip'[branch] /\ Led(journal, objs, h) /\ Over(journal.onto, objs, h)
      BY <1>1, <2>2, <2>3, <2>4 DEF h
    <2>6. QED
      BY <1>0, <1>1, <1>2, <2>1, <2>4, <2>5, PhaseTracks
  <1>6. CASE PositionStep
    <2> DEFINE h == Mapped(op, NextStep.parents[1])
    <2>1. /\ tip' = [tip EXCEPT ![branch] = h] /\ UNCHANGED <<journal, anchors>> /\ pc = "queue" /\ pc' = "queue"
          /\ MoreSteps
      BY <1>6 DEF PositionStep
    <2>2. h \in Objects /\ op.next <= Len(op.queue) /\ op.next \in 1..Len(op.queue) /\ NextStep = op.queue[op.next]
      BY <1>1, <2>1, OperationTrue DEF Lined, MoreSteps, NextStep
    <2>3. Over(h, objs, h)
      <3> HIDE DEF h
      <3>1. QED
        BY <1>1, <2>2, PastTrue DEF Over, Objects
    <2>4. op.next = 1 => h = op.onto
      <3>1. ASSUME op.next = 1 PROVE NextStep.parents[1] = NoCommit
        <4>1. Planned(op.queue, Len(objs)) /\ Drawn(op.queue, objs)
          BY <1>1, <1>2, <2>2 DEF Typed, Secured, Charted
        <4>2. 1 \in 1..Len(NextStep.parents)
          <5>1. NextStep.kind # "merge" => Len(NextStep.parents) = 1
            BY <2>2, <4>1 DEF Drawn
          <5>2. NextStep.kind = "merge" => Len(NextStep.parents) = 2
            BY <2>2, <4>1 DEF Planned
          <5>3. QED
            BY <5>1, <5>2
        <4>3. 1..(1 - 1) = {} /\ 1 \in 1..Len(op.queue)
          BY <2>2, <3>1
        <4>4. QED
          BY <2>2, <3>1, <4>1, <4>2, <4>3 DEF Planned
      <3>2. QED
        BY <3>1, Zenon DEF Mapped
    <2>5. h = tip'[branch]
      BY <1>2, <1>3, <2>1
    <2>6. Led(journal, objs, h)
      <3>1. Over(Mapped(op, op.queue[op.next].parents[1]), objs, h)
        BY <2>2, <2>3
      <3> HIDE DEF h
      <3>2. QED
        BY <1>1, <1>2, <2>2, <3>1, PlacedLeads DEF Secured
    <2> HIDE DEF h
    <2>7. journal.next = 1 => Over(journal.onto, objs, h)
      BY <1>1, <2>3, <2>4
    <2>8. Level(journal, journal') /\ journal'.state = "applying"
      BY <1>1, <1>3, <2>1
    <2>9. QED
      BY <1>0, <1>2, <2>1, <2>5, <2>6, <2>7, <2>8, PhaseTracks
  <1>7. CASE QueueDone
    <2>1. UNCHANGED <<journal, tip, anchors>> /\ pc' = "verify"
      BY <1>7 DEF QueueDone
    <2>2. HEAD = tip'[branch] /\ Led(journal, objs, HEAD) /\ Level(journal, journal') /\ journal'.state = "applying"
      BY <1>1, <1>2, <1>3, <2>1 DEF Secured
    <2>3. QED
      BY <1>0, <1>2, <2>1, <2>2, PhaseTracks
  <1>8. CASE \/ Verified \/ MaterializeOverlay \/ RecordOverlay \/ Publish \/ (ReleaseAnchors /\ pc = "release")
    <2>1. /\ pc \in Finishing /\ pc' \in Finishing
          /\ journal' = journal \/ journal' = [op EXCEPT !.remat = TRUE]
      BY <1>8 DEF Verified, MaterializeOverlay, RecordOverlay, Publish, ReleaseAnchors, Finishing, Sharing
    <2>2. Level(journal, journal')
      BY <1>1, <1>3, <2>1, LevelTrue
    <2>3. journal'.state = "applying"
      BY <1>1, <2>1 DEF Sound, Shaped
    <2>4. HEAD = tip'[branch] /\ Led(journal, objs, HEAD)
      BY <1>0, <1>1, <1>2, <2>1 DEF Secured
    <2>5. pc' \notin {"reduce", "reduced", "reset", "queue"}
      BY <2>1 DEF Finishing, Sharing
    <2>6. anchors' = anchors \/ journal.next > Len(journal.queue)
      BY <1>0, <1>1, <2>1
    <2>7. QED
      BY <1>0, <1>2, <2>2, <2>3, <2>4, <2>5, <2>6, PhaseTracks
  <1>9. QED
    BY <1>4, <1>5, <1>6, <1>7, <1>8

(* A step of the queue begins, on the commit it states.                    *)
LEMMA TrackedBegins ==
    ASSUME Lined, BeginStep
    PROVE  Tracked'
  <1> DEFINE n == Len(objs)
             k == NextStep.kind
             joined == IF k = "merge" THEN Mapped(op, NextStep.parents[2]) ELSE NoCommit
             c == NextStep.commit
             h == HEAD
  <1>1. /\ pc = "queue" /\ MoreSteps /\ k # "omit" /\ h = Mapped(op, NextStep.parents[1])
        /\ op' = [op EXCEPT !.state = "applying",
                    !.current = [NoCurrent EXCEPT !.commit = c, !.before = h, !.joins = joined]]
        /\ journal' = op' /\ pc' = k /\ UNCHANGED <<objs, tip, branch, anchors>>
    BY DEF BeginStep, Write, Go, Journals, gitVars, headVars, InPlace, NextStep
  <1>2. /\ journal = op /\ Sound(op) /\ Typed(op, n) /\ Lineage(objs) /\ Descent(objs)
        /\ op.next <= Len(op.queue) /\ NextStep = op.queue[op.next] /\ k \in {"pick", "omit", "merge"}
    BY <1>1, Runs, OperationTrue DEF Lined, TypesIInv, Memory, Repository, Starting, MoreSteps, NextStep
  <1>3. /\ branch = journal.branch /\ h = tip[branch] /\ Secured(op, objs, h, anchors) /\ op.branch # "main"
    BY <1>1, <1>2 DEF Lined, Tracked, HEAD
  <1>4. Over(h, objs, h)
    <2>1. h \in 1..Len(objs)
      BY CommitsTrue DEF Lined, TypesIInv, Objects
    <2>2. QED
      BY <1>2, <2>1, PastTrue DEF Over
  <1> HIDE DEF h, joined, c, k, n
  <1>5. /\ Same(op, op') /\ op'.next = op.next /\ op'.rewritten = op.rewritten /\ op'.state = "applying"
        /\ op'.current = [NoCurrent EXCEPT !.commit = c, !.before = h, !.joins = joined]
    BY <1>1, <1>2 DEF Sound, Shaped, Same
  <1>6. op'.current.before = h /\ op'.current.joins = joined
    BY <1>5 DEF NoCurrent
  <1>7. Secured(op', objs, h, anchors)
    <2>1. op'.queue = op.queue /\ op'.id = op.id
      BY <1>5 DEF Same
    <2>2. QED
      BY <1>3, <1>5, <2>1 DEF Secured, Charted, Retraced, Led, Held, Preserving
  <1>8. Placed(op')
    <2>1. op'.queue = op.queue /\ op'.onto = op.onto /\ op'.next = op.next /\ op'.rewritten = op.rewritten
      BY <1>5 DEF Same
    <2>0. \A x : Mapped(op', x) = Mapped(op, x)
      BY <2>1 DEF Mapped
    <2>2. Mapped(op', NextStep.parents[1]) = h
      BY <1>1, <2>0
    <2>3. k = "merge" => Mapped(op', NextStep.parents[2]) = joined
      BY <2>0 DEF joined
    <2>4. NextStep.kind = k
      BY DEF k
    <2>5. QED
      BY <1>2, <1>6, <2>1, <2>2, <2>3, <2>4 DEF Placed
  <1>9. op'.branch = op.branch /\ op'.queue = op.queue /\ Level(op', op')
    BY <1>5 DEF Level, Same
  <1>10. tip'[op'.branch] = h /\ branch' = op'.branch /\ op'.branch # "main"
    BY <1>1, <1>2, <1>3, <1>9
  <1>11. pc' \in {"pick", "merge"}
    BY <1>1, <1>2
  <1>12. /\ pc' \notin Moving \cup Carries \cup {"idle", "paused", "reduce", "reduced", "reset", "queue", "join", "batch",
                                               "continue", "record-join"}
         /\ ~Awaits("applying")
    BY <1>11 DEF Moving, Carries, Awaits
  <1>13. QED
    BY <1>1, <1>4, <1>5, <1>6, <1>7, <1>8, <1>9, <1>10, <1>12 DEF Tracked, Joins

(* A command that stops leaves a journal that may be taken up.             *)
LEMMA StopTracks ==
    ASSUME Lined, pc # "idle", pc' = "idle", UNCHANGED <<objs, tip, branch, anchors>>,
           \/ journal' = journal
           \/ /\ Level(journal, journal')
              /\ \/ journal'.state \in {"applying", "blocked"}
                 \/ pc = "paused" /\ journal'.state = op.state
    PROVE  Tracked'
  <1> DEFINE k == journal'
             h == tip[journal.branch]
  <1>1. /\ journal.branch # "main" /\ branch = journal.branch /\ Secured(journal, objs, h, anchors)
        /\ journal.state \notin {"applying", "blocked"} \/ pc \in Stepping =>
              Placed(journal) /\ Over(journal.current.before, objs, h)
        /\ Awaits(journal.state) \/ (pc = "paused" /\ Awaits(op.state)) =>
              Above(journal.current.before, objs, h) /\ journal.queue[journal.next].kind # "merge"
    BY DEF Lined, Tracked
  <1>2. /\ Level(journal, k)
        /\ journal' = journal \/ k.state \in {"applying", "blocked"} \/ (pc = "paused" /\ k.state = op.state)
    BY DEF Level, Same
  <1> HIDE DEF h
  <1>3. /\ k.branch = journal.branch /\ k.next = journal.next /\ k.queue = journal.queue
        /\ k.current.before = journal.current.before
        /\ Secured(k, objs, h, anchors) /\ (Placed(journal) => Placed(k))
    BY <1>1, <1>2, Levelled DEF Level, Same
  <1>4. /\ k.state \notin {"applying", "blocked"} => Placed(k) /\ Over(k.current.before, objs, h)
        /\ Awaits(k.state) => Above(k.current.before, objs, h) /\ k.queue[k.next].kind # "merge"
    BY <1>1, <1>2, <1>3 DEF Awaits, Stepping
  <1>5. tip'[k.branch] = h
    BY <1>3 DEF h
  <1> HIDE DEF k
  <1>6. pc' \notin Stepping \cup Moving \cup Carries \cup {"paused", "reduce", "reduced", "reset", "queue", "join", "batch",
                                               "continue", "record-join"}
    BY DEF Stepping, Moving, Carries
  <1>7. QED
    BY <1>1, <1>3, <1>4, <1>5, <1>6 DEF Tracked, Joins, k

LEMMA TrackedStops ==
    ASSUME Lined, Pause \/ Mismatch \/ OverlayMismatch \/ CommitFails \/ Crash
    PROVE  Tracked'
  <1> USE DEF Stop, Go, gitVars, headVars
  <1>1. pc # "idle" /\ pc' = "idle" /\ UNCHANGED <<objs, tip, branch, anchors>>
    BY DEF Pause, Mismatch, OverlayMismatch, CommitFails, Crash
  <1>2. CASE CommitFails \/ Crash
    <2>1. journal' = journal
      BY <1>2 DEF CommitFails, Crash
    <2>2. QED
      BY <1>1, <2>1, StopTracks
  <1>3. Sound(op) /\ Typed(op, Len(objs))
    BY <1>1, OperationTrue DEF Lined
  <1>4. ASSUME Pause \/ Mismatch \/ OverlayMismatch
        PROVE  Level(journal, op)
    <2>1. pc \in Stepping \cup Finishing
      BY <1>4 DEF Pause, Mismatch, OverlayMismatch, Stepping, Finishing
    <2>2. CASE pc \in Stepping
      BY <2>2, InStepTrue
    <2>3. CASE pc \in Finishing
      BY <1>1, <2>3, Runs DEF Lined, TypesIInv, Level, Same
    <2>4. QED
      BY <2>1, <2>2, <2>3
  <1>5. CASE Pause \/ Mismatch \/ OverlayMismatch
    <2>1. \/ journal' = op /\ pc = "paused"
          \/ journal' = [op EXCEPT !.state = "blocked"]
          \/ journal' = [op EXCEPT !.remat = TRUE, !.state = "blocked"]
      BY <1>5 DEF Pause, Mismatch, OverlayMismatch
    <2>2. Level(op, journal')
      BY <1>3, <2>1, LevelTrue
    <2>3. Level(journal, journal')
      BY <1>4, <1>5, <2>2, LevelTwice
    <2>4. (journal' = op /\ pc = "paused") \/ journal'.state = "blocked"
      BY <1>3, <2>1 DEF Sound, Shaped
    <2>5. QED
      BY <1>1, <2>3, <2>4, StopTracks
  <1>6. QED
    BY <1>2, <1>5

(* A journal that is taken up again goes on from where it was left.        *)
LEMMA TrackedContinues ==
    ASSUME Lined, Continues
    PROVE  Tracked'
  <1> USE DEF Resumes, Write, Go, gitVars, headVars, treeVars
  <1> DEFINE h == HEAD
  <1>0. Sound(journal) /\ Typed(journal, Len(objs)) /\ Level(journal, journal)
    BY DEF Lined, TypesIInv, RebaseIInv, RebaseKinds, Memory, Level, Same
  <1>1. ASSUME pc' \in {"continue", "reword", "edit", "absorb"}, Level(journal, op'),
               journal' = journal \/ journal' = op', UNCHANGED <<objs, tip, branch, anchors>>, Continuable(journal),
               journal.state = "conflicted" \/ Awaits(journal.state),
               pc' = "continue" => /\ journal.state = "conflicted" /\ journal'.state = "conflicted"
                                   /\ mh' = mh,
               pc' # "continue" => Awaits(journal.state)
        PROVE  Tracked'
    <2> DEFINE k == journal'
               p == op'
    <2>1. branch = journal.branch /\ h = tip[journal.branch]
      BY <1>1 DEF Continuable, OnBranch, HEAD
    <2>2. ~Awaits("conflicted") /\ journal.state \notin {"applying", "blocked"}
      BY <1>1 DEF Awaits
    <2>3. /\ journal.branch # "main" /\ Secured(journal, objs, h, anchors)
          /\ Placed(journal) /\ Over(journal.current.before, objs, h)
          /\ Awaits(journal.state) => Above(journal.current.before, objs, h) /\ journal.queue[journal.next].kind # "merge"
      BY <2>1, <2>2 DEF Lined, Tracked
    <2>4. Level(journal, k) /\ Level(k, p)
      BY <1>0, <1>1, LevelTwice
    <2> HIDE DEF h
    <2>5. /\ k.branch = journal.branch /\ k.next = journal.next /\ k.queue = journal.queue
          /\ k.current.before = journal.current.before /\ k.current.joins = journal.current.joins
          /\ Secured(k, objs, h, anchors) /\ Placed(k)
      BY <2>3, <2>4, Levelled DEF Level, Same
    <2>6. pc' = "continue" /\ k.queue[k.next].kind = "merge" => mh' = k.current.joins
      BY <1>1, <2>2, <2>5 DEF Continuable, PendingInGit, Awaits
    <2>7. Awaits(k.state) \/ pc' \in Carries => Above(k.current.before, objs, h) /\ k.queue[k.next].kind # "merge"
      BY <1>1, <2>2, <2>3, <2>5 DEF Carries
    <2>8. tip'[k.branch] = h /\ branch' = k.branch /\ k.branch # "main"
      BY <1>1, <2>1, <2>3, <2>5
    <2> HIDE DEF k, p
    <2>9. /\ pc' \notin Moving \cup {"idle", "paused", "reduce", "reduced", "reset", "queue", "join", "batch", "record-join"}
      BY <1>1 DEF Moving
    <2>10. QED
      BY <1>1, <2>3, <2>4, <2>5, <2>6, <2>7, <2>8, <2>9 DEF Tracked, Joins, k, p
  <1>2. ASSUME NEW fork \in BOOLEAN, ContinueConflict(fork)
        PROVE  Tracked'
    <2>1. /\ pc' = "continue" /\ journal' = op' /\ journal.state = "conflicted" /\ Continuable(journal) /\ mh' = mh
          /\ op' = [journal EXCEPT !.current.fork = @ \/ fork] /\ UNCHANGED <<objs, tip, branch, anchors>>
      BY <1>2 DEF ContinueConflict
    <2>2. Level(journal, op') /\ op'.state = journal.state
      BY <1>0, <2>1, LevelForked
    <2>3. QED
      BY <1>1, <2>1, <2>2
  <1>3. CASE ContinueMessage \/ ContinueContent
    <2>1. pc' \in {"reword", "edit"} /\ op' = journal /\ journal' = journal /\ Continuable(journal)
          /\ journal.state \in {"awaiting-message", "awaiting-content"} /\ UNCHANGED <<objs, tip, branch, anchors>>
      BY <1>3 DEF ContinueMessage, ContinueContent
    <2>2. QED
      BY <1>0, <1>1, <2>1 DEF Awaits
  <1>4. CASE ContinueAbsorption
    <2>1. /\ pc' = "absorb" /\ journal' = op' /\ journal.state = "awaiting-absorption" /\ Continuable(journal)
          /\ op' = [journal EXCEPT !.current.cursor = @ + 1, !.state = "applying"]
          /\ UNCHANGED <<objs, tip, branch, anchors>>
      BY <1>4 DEF ContinueAbsorption
    <2>2. Level(journal, op')
      BY <1>0, <2>1, LevelTrue
    <2>3. QED
      BY <1>1, <2>1, <2>2 DEF Awaits
  <1>5. QED
    BY <1>2, <1>3, <1>4, Zenon DEF Continues

(* A new operation has done nothing yet.                                   *)
LEMMA BegunTracked ==
    ASSUME TypesIInv, Descent(objs), Begins
    PROVE  Tracked'
  <1>1. PICK request \in asks[ops + 1], accept \in BOOLEAN : Begin(request, accept)
    BY Zenon DEF Begins
  <1> DEFINE onto == tip["main"]
             queue == Queue(HEAD, onto, request.program)
             rewritten == [c \in {queue[i].commit : i \in 1..Len(queue)} |-> NoCommit]
             on == branch
             head == HEAD
             draft == request.overlay
             approved == request.forecasted
             number == ops + 1
             begun == NewOperation(number, on, head, onto, queue, rewritten, draft, approved)
  <1>2. /\ op' = begun /\ journal' = begun /\ pc' \in {"reset", "reduce"} /\ on # "main"
        /\ UNCHANGED <<objs, branch, tip, anchors>>
    BY <1>1 DEF Begin, Write, Go, NewOperation, gitVars, headVars
  <1>3. request.program \in Program
    BY <1>1, AsksTrue DEF Begins
  <1>4. Drawn(queue, objs) /\ Planned(queue, Len(objs))
    <2>1. HEAD \in Objects /\ onto \in Objects /\ Lineage(objs)
      BY CommitsTrue DEF TypesIInv, Repository
    <2>2. QED
      BY <1>3, <2>1, QueueDrawn, QueuePlanned
  <1>5. on = branch
    OBVIOUS
  <1>6. DOMAIN rewritten = {queue[i].commit : i \in 1..Len(queue)} /\ \A c \in DOMAIN rewritten : rewritten[c] = NoCommit
    OBVIOUS
  <1> HIDE DEF onto, queue, on, head, draft, approved, number, rewritten
  <1>7. BegunAs(begun, number, on, head, onto, queue, rewritten, draft, approved)
    BY Begun, Zenon
  <1> HIDE DEF begun
  <1>8. /\ begun.branch = on /\ begun.queue = queue /\ begun.next = 1 /\ begun.rewritten = rewritten
        /\ begun.state = "applying"
    BY <1>7, Zenon DEF BegunAs
  <1>9. Charted(begun, objs)
    <2>1. \A c \in DOMAIN begun.rewritten : \E i \in 1..Len(queue) : queue[i].commit = c
      BY <1>6, <1>8
    <2>2. \A i \in 1..Len(queue) : begun.rewritten[queue[i].commit] = NoCommit
      BY <1>6, <1>8
    <2>3. QED
      BY <1>4, <1>8, <2>1, <2>2 DEF Charted
  <1>10. \A i \in 1..Len(queue) : ~(i < begun.next)
    BY <1>4, <1>8, LenProperties DEF Planned
  <1>11. \A h : Secured(begun, objs, h, anchors)
    BY <1>8, <1>9, <1>10 DEF Secured, Retraced, Led, Held
  <1>12. /\ pc' \notin Stepping \cup Moving \cup Carries \cup {"idle", "paused", "queue", "join", "batch",
                                               "continue", "record-join"}
         /\ ~Awaits("applying")
    BY <1>2 DEF Stepping, Moving, Carries, Awaits
  <1>13. branch' = begun.branch /\ begun.branch # "main"
    BY <1>2, <1>5, <1>8
  <1>14. QED
    BY <1>2, <1>8, <1>11, <1>12, <1>13 DEF Tracked, Joins

(* Commits on top of HEAD, one way or the other.                           *)
Raise ==
    \E parents, of, named, content :
        /\ parents = <<HEAD>> \/ \E second \in Objects : parents = <<HEAD, second>>
        /\ AddCommit(parents, of, named, content)

LEMMA RaiseTrue ==
    ASSUME Repository, Descent(objs), Raise
    PROVE  /\ Descent(objs') /\ Grows(objs, objs')
           /\ tip'[branch] = New /\ \A b \in Branch : b # branch => tip'[b] = tip[b]
           /\ \A b : Over(b, objs, HEAD) => Above(b, objs', New)
  <1>1. PICK parents, of, named, content :
           /\ parents = <<HEAD>> \/ \E second \in Objects : parents = <<HEAD, second>>
           /\ AddCommit(parents, of, named, content)
    BY Zenon DEF Raise
  <1>2. /\ objs' = Append(objs, Made(objs, parents, of, named, content))
        /\ tip' = [tip EXCEPT ![branch] = New] /\ tip \in [Branch -> Objects] /\ branch \in Branch /\ HEAD \in Objects
    BY <1>1, CommitsTrue DEF AddCommit, Repository
  <1>3. PICK second \in Objects : parents = <<HEAD>> \/ parents = <<HEAD, second>>
    BY <1>1, <1>2
  <1>4. Descent(objs') /\ Grows(objs, objs') /\ \A b : Over(b, objs, HEAD) => Above(b, objs', New)
    BY <1>2, <1>3, Raises
  <1>5. tip'[branch] = New /\ \A b \in Branch : b # branch => tip'[b] = tip[b]
    BY <1>2
  <1>6. QED
    BY <1>4, <1>5

LEMMA PersonRaises ==
    ASSUME Repository, GitContinue \/ CommitAbsorbed \/ CommitOwn
    PROVE  Raise
  <1>1. \/ \E of, named, content : AddCommit(<<HEAD>>, of, named, content)
        \/ mh # NoCommit /\ AddCommit(<<HEAD, mh>>, None, FALSE, index)
    <2>1. CASE GitContinue
      <3>1. \/ AddCommit(<<HEAD>>, objs[cp].of, objs[cp].named, index)
            \/ mh # NoCommit /\ AddCommit(<<HEAD, mh>>, None, FALSE, index)
        BY <2>1 DEF GitContinue
      <3>2. QED
        BY <3>1, Zenon
    <2>2. CASE CommitAbsorbed \/ CommitOwn
      BY <2>2, Zenon DEF CommitAbsorbed, CommitOwn
    <2>3. QED
      BY <2>1, <2>2
  <1>2. mh # NoCommit => mh \in Objects
    <2>1. mh \in 0..Len(objs) /\ Len(objs) \in Nat
      BY CommitsTrue DEF Repository
    <2>2. QED
      BY <2>1 DEF Objects, NoCommit
  <1>3. QED
    BY <1>1, <1>2, Zenon DEF Raise

LEMMA CommandRaises ==
    ASSUME TypesIInv, PickApplies \/ ContinuePick \/ CommitJoin
    PROVE  Raise
  <1>1. \/ \E of, named, content : AddCommit(<<HEAD>>, of, named, content)
        \/ mh # NoCommit /\ AddCommit(<<HEAD, mh>>, None, FALSE, index)
    <2>1. CASE CommitJoin
      BY <2>1 DEF CommitJoin, TypesIInv, Standing
    <2>2. CASE PickApplies \/ ContinuePick
      BY <2>2, Zenon DEF PickApplies, ContinuePick
    <2>3. QED
      BY <2>1, <2>2
  <1>2. mh # NoCommit => mh \in Objects
    <2>1. mh \in 0..Len(objs) /\ Len(objs) \in Nat
      BY CommitsTrue DEF TypesIInv, Repository
    <2>2. QED
      BY <2>1 DEF Objects, NoCommit
  <1>3. QED
    BY <1>1, <1>2, Zenon DEF Raise

(* The repository only grows, and every commit comes after its parents.    *)
LEMMA DescentStep ==
    ASSUME TypesIInv, Descent(objs), [Next]_vars
    PROVE  Descent(objs') /\ Grows(objs, objs')
  <1>0. Repository /\ Lineage(objs) /\ Len(objs) \in Nat
    BY CommitsTrue DEF TypesIInv, Repository
  <1>1. CASE objs' = objs
    BY <1>0, <1>1 DEF Grows
  <1>2. CASE PickApplies \/ ContinuePick \/ CommitJoin \/ GitContinue \/ CommitAbsorbed \/ CommitOwn
    BY <1>0, <1>2, CommandRaises, PersonRaises, RaiseTrue
  <1>3. CASE Meld \/ RewordStep \/ EditStep
    <2>1. \E of, named, content : Amend(of, named, content)
      BY <1>3, Zenon DEF Meld, RewordStep, EditStep
    <2>2. PICK of, named, content : Amend(of, named, content)
      BY <2>1, Zenon
    <2>3. QED
      BY <1>0, <2>2, Replaces
  <1>4. CASE MainMoves
    <2> DEFINE parents == <<tip["main"]>>
    <2>1. objs' = Append(objs, Made(objs, parents, None, FALSE, {}))
      BY <1>4 DEF MainMoves
    <2>2. parents \in Seq(1..Len(objs)) /\ Len(parents) <= 2
      BY <1>0, CommitsTrue DEF Objects
    <2> HIDE DEF parents
    <2>3. QED
      BY <1>0, <2>1, <2>2, DescentGrows
  <1>5. QED
    BY <1>1, <1>2, <1>3, <1>4, ObjectsKept DEF Commits

(* What the person does leaves the journal where it is, and its branch on  *)
(* what the operation made.                                                *)
LEMMA RestTracks ==
    ASSUME Lined, pc = "idle", UNCHANGED <<journal, pc, anchors>>, Grows(objs, objs'),
           NEW h, h = tip'[journal.branch],
           \A b : Over(b, objs, tip[journal.branch]) => Over(b, objs', h),
           \A b : Above(b, objs, tip[journal.branch]) => Above(b, objs', h)
    PROVE  Tracked'
  <1> DEFINE g == tip[journal.branch]
  <1>1. /\ journal.branch # "main" /\ Secured(journal, objs, g, anchors)
        /\ journal.state \notin {"applying", "blocked"} => Placed(journal) /\ Over(journal.current.before, objs, g)
        /\ Awaits(journal.state) => Above(journal.current.before, objs, g) /\ journal.queue[journal.next].kind # "merge"
    BY DEF Lined, Tracked
  <1>2. Lineage(objs) /\ Typed(journal, Len(objs))
    BY DEF Lined, TypesIInv, Repository, Memory
  <1> HIDE DEF g
  <1>3. (\A b : Over(b, objs, g) => Over(b, objs', h)) /\ (\A b : Above(b, objs, g) => Above(b, objs', h))
    BY DEF g
  <1>4. Led(journal, objs, g)
    BY <1>1 DEF Secured
  <1>5. Led(journal, objs', h)
    BY <1>3, <1>4, LedGrows
  <1>6. Secured(journal, objs', h, anchors)
    BY <1>1, <1>2, <1>5, SecuredGrows
  <1>7. pc' \notin Stepping \cup Moving \cup Carries \cup {"paused", "reduce", "reduced", "reset", "queue", "join", "batch",
                                               "continue", "record-join"}
    BY DEF Stepping, Moving, Carries
  <1>8. QED
    BY <1>1, <1>3, <1>6, <1>7 DEF Tracked, Joins

(* A commit stays above what it was above, in a repository that grows.     *)
LEMMA AboveGrows ==
    ASSUME NEW s, NEW z, Grows(s, z), NEW g \in 1..Len(s)
    PROVE  \A b : (Over(b, s, g) => Over(b, z, g)) /\ (Above(b, s, g) => Above(b, z, g))
  BY DEF Grows, Over, Above

LEMMA TrackedRests ==
    ASSUME Lined, [Next]_vars, PersonStep \/ Forecasts \/ UNCHANGED <<gitVars, procVars, journal, anchors>>
    PROVE  Tracked'
  <1> DEFINE g == tip[journal.branch]
  <1>0. /\ TypesIInv /\ Repository /\ Descent(objs) /\ Grows(objs, objs') /\ journal.branch \in Branch /\ journal.branch # "main"
        /\ g \in 1..Len(objs) /\ tip \in [Branch -> Objects] /\ branch \in Branch
    <2>1. Repository /\ journal.branch \in Branch /\ journal.branch # "main" /\ TypesIInv /\ Descent(objs)
      BY DEF Lined, Tracked, TypesIInv, Memory, Typed
    <2>2. Grows(objs, objs')
      BY <2>1, DescentStep
    <2>3. QED
      BY <2>1, <2>2 DEF Repository, Objects
  <1> HIDE DEF g
  <1>1. ASSUME pc = "idle", UNCHANGED <<journal, pc, anchors>>, tip'[journal.branch] = g
        PROVE  Tracked'
    <2>1. \A b : (Over(b, objs, g) => Over(b, objs', g)) /\ (Above(b, objs, g) => Above(b, objs', g))
      BY <1>0, AboveGrows
    <2>2. g = tip'[journal.branch]
      BY <1>1
    <2>3. /\ \A b : Over(b, objs, tip[journal.branch]) => Over(b, objs', g)
          /\ \A b : Above(b, objs, tip[journal.branch]) => Above(b, objs', g)
      BY <2>1 DEF g
    <2>4. QED
      BY <1>0, <1>1, <2>2, <2>3, RestTracks
  <1> USE DEF Outside, Acts, ActsIf, AtRest, procVars
  <1>2. CASE GitContinue \/ CommitAbsorbed \/ CommitOwn
    <2>1. pc = "idle" /\ UNCHANGED <<journal, pc, anchors>>
      BY <1>2 DEF GitContinue, CommitAbsorbed, CommitOwn
    <2>2. /\ tip'[branch] = New /\ \A b \in Branch : b # branch => tip'[b] = tip[b]
          /\ \A b : Over(b, objs, HEAD) => Above(b, objs', New)
      BY <1>0, <1>2, PersonRaises, RaiseTrue
    <2>3. CASE branch = journal.branch
      <3> DEFINE h == New
      <3>1. h = tip'[journal.branch] /\ HEAD = tip[journal.branch]
        BY <2>2, <2>3 DEF HEAD
      <3> HIDE DEF h
      <3>2. /\ \A b : Over(b, objs, tip[journal.branch]) => Over(b, objs', h)
            /\ \A b : Above(b, objs, tip[journal.branch]) => Above(b, objs', h)
        <4>1. \A b : Over(b, objs, tip[journal.branch]) => Above(b, objs', h)
          BY <2>2, <3>1 DEF h
        <4>2. QED
          BY <4>1 DEF Over, Above
      <3>3. QED
        BY <1>0, <2>1, <3>1, <3>2, RestTracks
    <2>4. CASE branch # journal.branch
      BY <1>0, <1>1, <2>1, <2>2, <2>4 DEF g
    <2>5. QED
      BY <2>3, <2>4
  <1>3. CASE MainMoves
    <2>1. pc = "idle" /\ UNCHANGED <<journal, pc, anchors>> /\ tip' = [tip EXCEPT !["main"] = New]
      BY <1>3 DEF MainMoves
    <2>2. tip'[journal.branch] = g
      BY <1>0, <2>1 DEF g
    <2>3. QED
      BY <1>1, <2>1, <2>2
  <1>4. CASE Resolve \/ GitAbandon \/ ThrowAway \/ Edit \/ CaptureDraft \/ CleanUp \/ GoBack
    <2>1. pc = "idle" /\ UNCHANGED <<journal, pc, anchors, tip>>
      BY <1>4 DEF Resolve, GitAbandon, ThrowAway, Edit, CaptureDraft, CleanUp, GoBack, headVars
    <2>2. QED
      BY <1>1, <2>1 DEF g
  <1>5. CASE \E b \in Branch : Checkout(b) \/ Land(b)
    <2>1. PICK b \in Branch : Checkout(b) \/ Land(b)
      BY <1>5
    <2>2. pc = "idle" /\ UNCHANGED <<journal, pc, anchors>> /\ (tip' = tip \/ tip' = [tip EXCEPT !["main"] = tip[b]])
      BY <2>1 DEF Checkout, Land
    <2>3. tip'[journal.branch] = g
      BY <1>0, <2>2 DEF g
    <2>4. QED
      BY <1>1, <2>2, <2>3
  <1>6. CASE Forecasts
    <2>1. ~Pending /\ pc = "idle" /\ UNCHANGED <<journal, pc, anchors, tip>>
      BY <1>6 DEF Forecasts, Forecast, gitVars, headVars
    <2>2. QED
      BY <1>1, <2>1 DEF g
  <1>7. CASE UNCHANGED <<gitVars, procVars, journal, anchors>>
    <2>1. UNCHANGED <<objs, branch, tip, mh, pc, op, journal, anchors>>
      BY <1>7 DEF gitVars, headVars, treeVars
    <2>2. Tracked
      BY DEF Lined
    <2>3. QED
      BY <2>1, <2>2 DEF Tracked, Joins
  <1>8. QED
    BY <1>2, <1>3, <1>4, <1>5, <1>6, <1>7, Zenon DEF PersonStep

(* Only a new operation is not being undone where the last one was; and    *)
(* only an abort undoes.                                                   *)
LEMMA UndoKept ==
    ASSUME RebaseIInv, pc \in Undoing => undoing, [Next]_vars, ~Begins
    PROVE  /\ pc' \in Undoing => undoing'
           /\ Pending' /\ ~undoing' => Pending /\ ~undoing
  <1> USE DEF Works, Thinks, Journals, Go, Stop, Keep, Write, histVars
  <1>0. pc # "idle" => Pending
    BY Runs
  <1>1. ASSUME pc # "idle", undoing' = undoing, pc' \notin Undoing \/ pc \in Undoing
        PROVE  (pc' \in Undoing => undoing') /\ (Pending' /\ ~undoing' => Pending /\ ~undoing)
    BY <1>0, <1>1
  <1>2. CASE \/ RemoveDraftFiles \/ ReduceToHead \/ ResetOnto \/ OmitStep \/ PositionStep \/ PickApplies
             \/ PickConflicts \/ StepBlocked \/ MergeApplies \/ MergeConflicts \/ MergeJoinsNothing
    <2>1. pc' \in {"reduced", "reset", "queue", "anchor", "advance", "finish", "absorb", "paused", "join"}
          /\ undoing' = undoing /\ pc # "idle"
      BY <1>2 DEF RemoveDraftFiles, ReduceToHead, ResetOnto, OmitStep, PositionStep, PickApplies, PickConflicts,
         StepBlocked, MergeApplies, MergeConflicts, MergeJoinsNothing
    <2>2. QED
      BY <1>1, <2>1 DEF Undoing
  <1>3. CASE \/ Pause \/ ApplyForecast \/ Mismatch \/ ContinuePick \/ CommitJoin
             \/ BeginAbsorption \/ AbsorbApplies \/ AbsorbConflicts \/ AbsorbBlocked \/ AdvanceCursor \/ Meld
    <2>1. pc' \in {"idle", "batch", "record", "record-join", "absorb", "cursor", "paused", "finish"}
          /\ undoing' = undoing /\ pc # "idle"
      BY <1>3 DEF Pause, ApplyForecast, Mismatch, ContinuePick, CommitJoin, BeginAbsorption, AbsorbApplies,
         AbsorbConflicts, AbsorbBlocked, AdvanceCursor, Meld
    <2>2. QED
      BY <1>1, <2>1 DEF Undoing
  <1>4. CASE \/ FinishStep \/ RecordApplication \/ RecordJoin \/ AnchorStep \/ Advance \/ QueueDone \/ Verified
             \/ MaterializeOverlay \/ RecordOverlay \/ OverlayMismatch
    <2>1. pc' \in {"paused", "record", "anchor", "advance", "queue", "verify", "publish", "materialize", "remat", "idle"}
          /\ undoing' = undoing /\ pc # "idle"
      BY <1>4 DEF FinishStep, RecordApplication, RecordJoin, AnchorStep, Advance, QueueDone, Verified,
         MaterializeOverlay, RecordOverlay, OverlayMismatch
    <2>2. QED
      BY <1>1, <2>1 DEF Undoing
  <1>5. CASE Publish \/ ClearJournal \/ RewordStep \/ EditStep \/ CommitFails \/ Crash
    <2>1. pc' \in {"release", "publish", "idle", "record", "paused"} /\ undoing' = undoing /\ pc # "idle"
      BY <1>5 DEF Publish, ClearJournal, RewordStep, EditStep, CommitFails, Crash
    <2>2. QED
      BY <1>1, <2>1 DEF Undoing
  <1>6. CASE AbortReset \/ AbortRestore \/ ReleaseAnchors
    <2>1. pc # "idle" /\ undoing' = undoing /\ (pc \in {"undo", "restore", "undone"} \/ pc' = "clear")
      BY <1>6 DEF AbortReset, AbortRestore, ReleaseAnchors
    <2>2. QED
      BY <1>1, <2>1 DEF Undoing
  <1>7. CASE AbortClear
    BY <1>7 DEF AbortClear, Pending, Undoing
  <1>8. CASE Abort
    BY <1>8 DEF Abort
  <1>9. CASE BeginStep
    <2>1. pc = "queue" /\ MoreSteps /\ pc' = NextStep.kind /\ undoing' = undoing
      BY <1>9 DEF BeginStep
    <2>2. op.next \in Nat \ {0} /\ Len(op.queue) \in Nat /\ Sound(op) /\ op.next <= Len(op.queue)
      BY <2>1 DEF RebaseIInv, RebaseKinds, Sound, MoreSteps
    <2>3. pc' \in {"pick", "omit", "merge"}
      BY <2>1, <2>2 DEF Sound, NextStep
    <2>4. QED
      BY <1>1, <2>1, <2>3 DEF Undoing
  <1>10. CASE Continues
    <2>1. Pending /\ undoing' = undoing /\ pc' \in {"continue", "reword", "edit", "absorb"}
      BY <1>10 DEF Continues, ContinueConflict, ContinueMessage, ContinueContent, ContinueAbsorption, Resumes
    <2>2. QED
      BY <2>1 DEF Undoing
  <1>11. ASSUME UNCHANGED <<journal, pc, undoing>>
         PROVE  (pc' \in Undoing => undoing') /\ (Pending' /\ ~undoing' => Pending /\ ~undoing)
    BY <1>11 DEF Pending
  <1>12. CASE PersonStep
    <2> USE DEF Outside, Acts, ActsIf, AtRest, procVars
    <2>1. ASSUME Resolve \/ GitContinue \/ GitAbandon \/ CommitAbsorbed \/ ThrowAway
          PROVE  UNCHANGED <<journal, pc, undoing>>
      BY <2>1 DEF Resolve, GitContinue, GitAbandon, CommitAbsorbed, ThrowAway
    <2>2. ASSUME NEW b \in Branch, Checkout(b) \/ Land(b)
          PROVE  UNCHANGED <<journal, pc, undoing>>
      BY <2>2 DEF Checkout, Land
    <2>3. ASSUME CommitOwn \/ Edit \/ CaptureDraft \/ MainMoves \/ CleanUp \/ GoBack
          PROVE  UNCHANGED <<journal, pc, undoing>>
      BY <2>3 DEF CommitOwn, Edit, CaptureDraft, MainMoves, CleanUp, GoBack
    <2>4. UNCHANGED <<journal, pc, undoing>>
      BY <1>12, <2>1, <2>2, <2>3, Zenon DEF PersonStep
    <2>5. QED
      BY <1>11, <2>4
  <1>13. CASE Forecasts \/ UNCHANGED vars
    <2>1. UNCHANGED <<journal, pc, undoing>>
      BY <1>13 DEF Forecasts, Forecast, procVars, vars
    <2>2. QED
      BY <1>11, <2>1
  <1>14. QED
    BY <1>2, <1>3, <1>4, <1>5, <1>6, <1>7, <1>8, <1>9, <1>10, <1>12, <1>13, Zenon DEF Next, CommandStep

-----------------------------------------------------------------------------

(* The invariant.                                                          *)

LEMMA LinesStart == Init => LinesIInv
  <1> SUFFICES ASSUME Init PROVE LinesIInv
    OBVIOUS
  <1>1. PICK case \in Cases : objs = Store(case.repo)
    BY Zenon DEF Init
  <1>2. Descent(objs)
    BY <1>1, CasesAssumption, StoreTrue
  <1>3. pc = "idle" /\ ~Pending
    BY DEF Init, Pending
  <1>4. QED
    BY <1>2, <1>3, TypesStart DEF LinesIInv, Undoing

LEMMA LinesStep ==
    ASSUME LinesIInv, [Next]_vars
    PROVE  LinesIInv'
  <1>0. TypesIInv /\ Descent(objs) /\ RebaseIInv /\ (pc \in Undoing => undoing)
    BY DEF LinesIInv, TypesIInv
  <1>1. TypesIInv' /\ Descent(objs')
    BY <1>0, TypesStep, DescentStep
  <1>2. CASE Begins
    <2>1. Tracked'
      BY <1>0, <1>2, BegunTracked
    <2>2. pc' \in {"reset", "reduce"}
      BY <1>2 DEF Begins, Begin, Go
    <2>3. QED
      BY <1>1, <2>1, <2>2 DEF LinesIInv, Undoing
  <1>3. CASE ~Begins
    <2>1. /\ pc' \in Undoing => undoing'
          /\ Pending' /\ ~undoing' => Pending /\ ~undoing
      BY <1>0, <1>3, UndoKept
    <2>2. ASSUME Pending', ~undoing' PROVE Tracked'
      <3>1. Lined /\ pc \notin Undoing
        BY <2>1, <2>2 DEF LinesIInv, Lined
      <3>2. ~ClearJournal /\ ~AbortClear /\ ~Abort
        BY <2>2 DEF ClearJournal, AbortClear, Abort, Pending
      <3>3. ~AbortReset /\ ~AbortRestore /\ (ReleaseAnchors => pc = "release")
        BY <3>1 DEF AbortReset, AbortRestore, ReleaseAnchors, Undoing
      <3>4. CASE CommandStep
        BY <3>1, <3>2, <3>3, <3>4, TrackedInStep, TrackedCommits, TrackedEnds, TrackedMoves, TrackedPhases,
           TrackedBegins, TrackedStops, Zenon DEF CommandStep
      <3>5. CASE Continues
        BY <3>1, <3>5, TrackedContinues
      <3>6. CASE Crash
        BY <3>1, <3>6, TrackedStops
      <3>7. CASE PersonStep \/ Forecasts
        BY <3>1, <3>7, TrackedRests
      <3>8. CASE UNCHANGED vars
        BY <3>1, <3>8, TrackedRests DEF vars
      <3>9. QED
        BY <1>3, <3>2, <3>4, <3>5, <3>6, <3>7, <3>8, Zenon DEF Next
    <2>3. QED
      BY <1>1, <2>1, <2>2 DEF LinesIInv
  <1>4. QED
    BY <1>2, <1>3

LEMMA LinesInvariant == Spec => []LinesIInv
  <1>1. LinesIInv /\ [Next]_vars => LinesIInv'
    BY LinesStep
  <1>2. QED
    BY <1>1, LinesStart, PTL DEF Spec

(* A line behind HEAD, and beside it the anchors.                          *)
LEMMA LinesHold ==
    ASSUME LinesIInv
    PROVE  AnchorsHold
  <1> DEFINE o == journal
             h == tip[journal.branch]
             n == Len(objs)
  <1>1. SUFFICES ASSUME Pending, ~undoing, NEW c \in DOMAIN o.rewritten
                 PROVE  o.rewritten[c] \in Reachable \cup {NoCommit}
    BY DEF AnchorsHold
  <1>2. /\ Charted(o, objs) /\ Retraced(o, objs) /\ Led(o, objs, h)
        /\ o.next <= Len(o.queue) => Held(o, anchors, 0)
    BY <1>1 DEF LinesIInv, Tracked, Secured
  <1>3. Lineage(objs) /\ Descent(objs) /\ Typed(o, n) /\ h \in 1..n /\ o.branch \in Branch
    BY DEF LinesIInv, TypesIInv, Repository, Memory, Typed, Objects
  <1>4. /\ Len(o.queue) \in Nat /\ o.next \in Nat
        /\ \A i \in 1..Len(o.queue) : i < o.next => o.rewritten[o.queue[i].commit] \in 1..n
    <2>1. Within(o, n)
      BY <1>3, QueueWithin
    <2>2. QED
      BY <2>1 DEF Within
  <1>5. PICK i \in 1..Len(o.queue) : o.queue[i].commit = c
    BY <1>1, <1>2 DEF Charted
  <1> DEFINE r == o.rewritten[c]
  <1>6. objs[h].past \subseteq Reachable /\ \A a \in anchors : objs[a[3]].past \subseteq Reachable
    BY <1>3, Zenon DEF Reachable
  <1> HIDE DEF o, h, n
  <1>7. CASE i >= o.next
    BY <1>2, <1>5, <1>7 DEF Charted
  <1>8. CASE i < o.next /\ Straight(o.queue, o.next)
    <2> DEFINE l == o.next - 1
               last == o.queue[l].commit
    <2>1. l \in 1..Len(o.queue) /\ i <= l /\ l < o.next /\ l + 1 = o.next /\ o.next > 1
      <3>1. l \in 1..Len(o.queue)
        BY <1>3, <1>4, <1>8 DEF Typed
      <3>2. QED
        BY <1>4, <1>8, <3>1
    <2> HIDE DEF l
    <2>2. c \in objs[last].past
      BY <1>2, <1>5, <1>8, <2>1 DEF Charted, Drawn
    <2>3. r \in objs[o.rewritten[last]].past
      BY <1>2, <1>5, <1>8, <2>1, <2>2 DEF Retraced
    <2>4. o.rewritten[last] \in objs[h].past
      BY <1>2, <1>8, <2>1 DEF Led, Over, l
    <2>5. objs[o.rewritten[last]].past \subseteq objs[h].past
      <3> HIDE DEF last
      <3>1. QED
        BY <1>3, <2>4, PastTrue DEF n
    <2>6. QED
      BY <1>6, <2>3, <2>5
  <1>9. CASE i < o.next /\ ~Straight(o.queue, o.next)
    <2>1. PICK k \in o.next..Len(o.queue) : o.queue[k].kind = "merge"
      BY <1>9 DEF Straight
    <2>2. k \in 1..Len(o.queue) /\ o.next <= Len(o.queue)
      BY <1>3, <1>4, <2>1 DEF Typed
    <2>3. Preserving(o) /\ Held(o, anchors, 0) /\ i # 0
      BY <1>2, <1>4, <2>1, <2>2 DEF Preserving
    <2>4. <<o.id, c, r>> \in anchors
      BY <1>5, <1>9, <2>3 DEF Held
    <2>5. r \in objs[r].past
      <3>1. r \in 1..n
        BY <1>4, <1>5, <1>9
      <3> HIDE DEF r
      <3>2. QED
        BY <1>3, <3>1, PastTrue DEF n
    <2> HIDE DEF r
    <2>6. objs[r].past \subseteq Reachable
      <3>1. <<o.id, c, r>>[3] = r
        OBVIOUS
      <3>2. QED
        BY <1>6, <2>4, <3>1
    <2>7. QED
      BY <2>5, <2>6 DEF r
  <1>10. QED
    BY <1>4, <1>7, <1>8, <1>9 DEF o

-----------------------------------------------------------------------------

(* "Keep every rewritten commit named by a ref": in every history, with    *)
(* every topology, wherever a command is killed, a pick or a join stops, a *)
(* message or a content is awaited, and whatever the person does in        *)
(* between (PersonStep: nothing there moves a branch back), each commit    *)
(* that the mapping of a pending operation names is in the past of a       *)
(* branch or of an anchor - until an abort has begun. Where no merge is    *)
(* left the rewritten commits are one line that HEAD comes after; before   *)
(* one, each has an anchor of its own (AnchorStep, which comes before      *)
(* Advance).                                                               *)
THEOREM RewrittenStayReachable == Spec => []AnchorsHold
  <1>1. LinesIInv => AnchorsHold
    BY LinesHold
  <1>2. QED
    BY <1>1, LinesInvariant, PTL

=============================================================================
