--------------------------- MODULE ForecastsProofs ---------------------------
(***************************************************************************)
(* Proofs about the object session of Sessions, for every repository and   *)
(* every bound: answers belong to their requests, and a catalog is whole.  *)
(* And about Forecasts, which are made with such sessions, for every       *)
(* source branch, every program and target, and every bound.               *)
(***************************************************************************)
EXTENDS Forecasts, FiniteSetTheorems, SequenceTheorems, WellFoundedInduction, TLAPS

(* What comes back for an expression.                                      *)
Value == Tree \cup {Missing}
Reply == Value \cup {"odd"}

Buffers == [ok : BOOLEAN, answers : Seq(Expression \X Reply), written : BOOLEAN]

(* The variables' kinds, and that what the repository now holds for an     *)
(* expression is among what it held.                                       *)
SessionKinds ==
    /\ kind = "objects" /\ present \subseteq Tree /\ refAt \in Value
    /\ held \in [Expression -> SUBSET Value]
    /\ \A t \in Tree : held[t] \subseteq {t, Missing}
    /\ \A e \in Expression : Held(e) \in held[e]
    /\ request \in Seq(Expression) /\ pending \in Seq(Expression) /\ inpipe \in Seq(Expression)
    /\ outpipe \in Seq(Reply) /\ collected \in Seq(Expression \X Reply) /\ buffer \in Buffers
    /\ call.ask \in Seq(Expression) /\ call.trees \in Nat
    /\ call = [op |-> call.op, stage |-> call.stage, ask |-> call.ask,
               sizes |-> call.sizes, trees |-> call.trees, notes |-> call.notes]

(* The cache remembers what cannot have changed since.                     *)
CacheTrue == \A hit \in cache : hit[2] \in Tree /\ hit[3] \in held[hit[2]]

(* Nothing of an earlier request is under way.                             *)
Dry == gitp # "noticed" => inpipe = <<>> /\ outpipe = <<>>
Quiet == request = <<>> /\ pending = <<>> /\ Dry

(* Answers to what was asked, each one the repository gave.                *)
Given(answers) == {answers[i][1] : i \in 1..Len(answers)}
Right(answers) ==
    \A i \in 1..Len(answers) : answers[i][1] \in ToSet(call.ask) /\ answers[i][2] \in held[answers[i][1]]
KnownNow(e) == Known(call.stage, e)

(* The request waits for the worker, the worker is gone with it, or it is  *)
(* in the pipes: answers first, in the order of the requests, then         *)
(* requests not answered yet.                                              *)
Posted ==
    /\ request # <<>> /\ pending = <<>> /\ Dry
    /\ ToSet(request) \subseteq ToSet(call.ask) /\ Len(request) <= Len(call.ask)
    /\ \A e \in ToSet(call.ask) : KnownNow(e) \/ e \in ToSet(request)
Gone == request = <<>> /\ pending = <<>> /\ worker = "dead"
Flowing ==
    /\ request = <<>> /\ pending # <<>> /\ gitp # "noticed"
    /\ Len(pending) = Len(outpipe) + Len(inpipe)
    /\ \A j \in 1..Len(outpipe) : outpipe[j] = "odd" \/ outpipe[j] \in held[pending[j]]
    /\ \A j \in 1..Len(inpipe) : inpipe[j] = pending[Len(outpipe) + j]
    /\ ToSet(pending) \subseteq ToSet(call.ask) /\ Right(collected)
    /\ Len(collected) + Len(pending) <= Len(call.ask)
    /\ \A e \in ToSet(call.ask) : KnownNow(e) \/ e \in ToSet(pending) \/ e \in Given(collected)

(* Once the session failed or closed nothing is asked of it any more.      *)
Talking ==
    /\ spc = "waiting" => state = "open"
    /\ spc = "shutting" => state # "open"
    /\ state = "open" /\ spc # "waiting" => Quiet
    /\ spc = "waiting" /\ buffer.written /\ buffer.ok =>
          /\ Quiet /\ Right(buffer.answers) /\ Len(buffer.answers) <= Len(call.ask)
          /\ \A e \in ToSet(call.ask) : KnownNow(e) \/ e \in Given(buffer.answers)
    /\ spc = "waiting" /\ ~buffer.written => Posted \/ Gone \/ Flowing

(* What a query has brought.                                               *)
GotTrue ==
    spc = "got" =>
        /\ {r[1] : r \in result} = ToSet(call.ask) /\ \A r \in result : r[2] \in held[r[1]]
        /\ call.ask = <<Ref>> => \E v \in held[Ref] : result = {<<Ref, v>>}

(* A listing has seen some of the trees of a root the ref was at, and asks *)
(* for all the others they lead to.                                        *)
Listed(t, seen) ==
    /\ seen \subseteq Below(t) /\ ToSet(call.ask) \subseteq Below(t) /\ t \in seen \cup ToSet(call.ask)
    /\ \A u \in seen : Parts[u] \subseteq seen \cup ToSet(call.ask)
    /\ call.notes = UNION {Attached[u] : u \in seen}
    /\ call.trees >= 1 /\ (call.stage = "info" => call.trees > 1)
Starting == call.stage = "info" /\ call.ask = <<Ref>> /\ call.trees = 1 /\ call.notes = {}
ListTrue ==
    call.op = "list" /\ spc \in {"ask", "waiting", "got"} =>
        Starting \/ \E t \in held[Ref] \ {Missing} : \E seen \in SUBSET Tree : Listed(t, seen)

SessionIInv ==
    /\ SessionKinds /\ CacheTrue /\ Talking /\ GotTrue /\ ListTrue /\ AnswersTrue /\ CatalogWhole

-----------------------------------------------------------------------------
(* Sequences and sets.                                                     *)

(* A set of natural numbers that has a member has a least one.             *)
LEMMA LeastMember ==
    ASSUME NEW T \in SUBSET Nat, T # {}
    PROVE  \E k \in T : \A j \in T : k <= j
  <1>1. PICK k \in T : \A j \in T : ~ (<<j, k>> \in OpToRel(<, Nat))
    BY NatLessThanWellFounded, WFMin, Zenon
  <1>2. \A j \in T : ~ (j < k)
    BY <1>1 DEF OpToRel
  <1>3. QED
    BY <1>2

LEMMA Elements ==
    ASSUME NEW S, NEW s \in Seq(S)
    PROVE  /\ ToSet(s) = {s[i] : i \in 1..Len(s)} /\ ToSet(s) \subseteq S /\ Len(s) \in Nat
           /\ s = <<>> <=> Len(s) = 0
           /\ \A i \in 1..Len(s) : s[i] \in ToSet(s)
  BY LenProperties, ElementOfSeq, EmptySeq DEF ToSet

(* Without its first element.                                              *)
LEMMA RemoveFirstTrue ==
    ASSUME NEW S, NEW s \in Seq(S), s # <<>>
    PROVE  /\ RemoveAt(s, 1) \in Seq(S) /\ Len(RemoveAt(s, 1)) = Len(s) - 1
           /\ \A i \in 1..(Len(s) - 1) : RemoveAt(s, 1)[i] = s[i + 1]
  <1>1. Len(s) \in Nat \ {0} /\ \A i \in 1..Len(s) : s[i] \in S
    BY Elements
  <1>2. SubSeq(s, 1, 0) = <<>>
    BY SubSeqEmpty
  <1> DEFINE rest == SubSeq(s, 2, Len(s))
  <1>3. /\ rest \in Seq(S) /\ Len(rest) = Len(s) - 1
        /\ \A i \in 1..(Len(s) - 1) : rest[i] = s[i + 1]
    <2>1. Len(s) \in Int /\ 2 \in Int /\ \A i \in 2..Len(s) : s[i] \in S
      BY <1>1
    <2>2. /\ rest \in Seq(S) /\ Len(rest) = IF 2 <= Len(s) THEN Len(s) - 2 + 1 ELSE 0
          /\ \A i \in 1..(Len(s) - 2 + 1) : rest[i] = s[2 + i - 1]
      BY <2>1, SubSeqProperties
    <2> HIDE DEF rest
    <2>3. QED
      <3>1. Len(rest) = Len(s) - 1
        <4>1. CASE 2 <= Len(s)
          BY <1>1, <2>2, <4>1
        <4>2. CASE Len(s) = 1
          BY <2>2, <4>2
        <4>3. Len(s) = 1 \/ 2 <= Len(s)
          <5>1. \A n \in Nat \ {0} : n = 1 \/ 2 <= n
            OBVIOUS
          <5>2. QED
            BY <1>1, <5>1
        <4>4. QED
          BY <4>1, <4>2, <4>3
      <3>2. ASSUME NEW i \in 1..(Len(s) - 1) PROVE rest[i] = s[i + 1]
        <4>1. i \in 1..(Len(s) - 2 + 1) /\ 2 + i - 1 = i + 1
          BY <1>1
        <4>2. rest[i] = s[2 + i - 1]
          BY <2>2, <4>1
        <4>3. QED
          BY <4>1, <4>2
      <3>3. QED
        BY <2>2, <3>1, <3>2
  <1>4. RemoveAt(s, 1) = <<>> \o rest
    BY <1>2 DEF RemoveAt
  <1> HIDE DEF rest
  <1>5. QED
    BY <1>3, <1>4, ConcatEmptySeq

(* A finite set as a sequence has the elements of the set.                 *)
LEMMA SequenceOfSet ==
    ASSUME NEW S, IsFiniteSet(S)
    PROVE  SetToSeq(S) \in Seq(S) /\ ToSet(SetToSeq(S)) = S
  <1> DEFINE n == Cardinality(S)
             f == SetToSeq(S)
  <1>1. n \in Nat /\ \E g : g \in Bijection(1..n, S)
    BY FS_CardinalityType DEF ExistsBijection
  <1>2. f \in Injection(1..n, S)
    <2>1. \E g \in [1..n -> S] : IsInjective(g)
      BY <1>1 DEF Bijection, Injection
    <2>2. QED
      BY <2>1, Zenon DEF SetToSeq, Injection
  <1> HIDE DEF f
  <1>3. f \in Surjection(1..n, S)
    <2>1. Cardinality(1..n) = n
      BY <1>1, FS_Interval
    <2>2. QED
      BY <1>2, <2>1, FS_Injection
  <1>4. f \in [1..n -> S] /\ \A x \in S : \E i \in 1..n : f[i] = x
    BY <1>2, <1>3 DEF Injection, Surjection
  <1>5. f \in Seq(S) /\ DOMAIN f = 1..n
    BY <1>1, <1>4, SeqDef
  <1>6. ToSet(f) = S
    BY <1>4, <1>5 DEF ToSet
  <1>7. QED
    BY <1>5, <1>6 DEF f

-----------------------------------------------------------------------------
(* What is not in the cache.                                               *)

LeftBody(command, asked, left, n) ==
    [i \in 0..n |-> IF i = 0 THEN <<>>
                    ELSE IF Known(command, asked[i]) THEN left[i - 1]
                    ELSE Append(left[i - 1], asked[i])]
Left(command, asked) == CHOOSE left : left = LeftBody(command, asked, left, Len(asked))

LEMMA LeftExists ==
    ASSUME NEW command, NEW asked, Len(asked) \in Nat
    PROVE  /\ Left(command, asked) = LeftBody(command, asked, Left(command, asked), Len(asked))
           /\ Unknown(command, asked) = Left(command, asked)[Len(asked)]
  <1> DEFINE Bad == {n \in Nat : ~ \E left : left = LeftBody(command, asked, left, n)}
  <1>1. Bad = {}
    <2>1. SUFFICES ASSUME Bad # {} PROVE FALSE
      OBVIOUS
    <2>2. PICK k \in Bad : \A j \in Bad : k <= j
      BY <2>1, LeastMember
    <2>3. CASE k = 0
      <3>1. [i \in 0..0 |-> <<>>] = LeftBody(command, asked, [i \in 0..0 |-> <<>>], 0)
        BY DEF LeftBody
      <3>2. QED
        BY <2>2, <2>3, <3>1
    <2>4. CASE k # 0
      <3>1. k - 1 \in Nat /\ k - 1 \notin Bad
        BY <2>2, <2>4
      <3>2. PICK g : g = LeftBody(command, asked, g, k - 1)
        BY <3>1
      <3> DEFINE f == [i \in 0..k |-> IF i < k THEN g[i]
                                      ELSE IF Known(command, asked[k]) THEN g[k - 1]
                                      ELSE Append(g[k - 1], asked[k])]
      <3>3. \A i \in 0..(k - 1) : g[i] = IF i = 0 THEN <<>>
                                        ELSE IF Known(command, asked[i]) THEN g[i - 1]
                                        ELSE Append(g[i - 1], asked[i])
        BY <3>1, <3>2 DEF LeftBody
      <3>4. \A i \in 0..k : f[i] = IF i = 0 THEN <<>>
                                  ELSE IF Known(command, asked[i]) THEN f[i - 1]
                                  ELSE Append(f[i - 1], asked[i])
        BY <2>2, <2>4, <3>3
      <3>5. f = LeftBody(command, asked, f, k)
        BY <3>4 DEF LeftBody
      <3>6. QED
        BY <2>2, <3>5
    <2>5. QED
      BY <2>3, <2>4
  <1>2. \E left : left = LeftBody(command, asked, left, Len(asked))
    BY <1>1
  <1>3. Left(command, asked) = LeftBody(command, asked, Left(command, asked), Len(asked))
    BY <1>2, Zenon DEF Left
  <1>4. Unknown(command, asked) = Left(command, asked)[Len(asked)]
    BY Zenon DEF Unknown, Left, LeftBody
  <1>5. QED
    BY <1>3, <1>4

(* What is left after the first i expressions.                             *)
LeftTrue(command, asked, left, i) ==
    /\ left \in Seq(ToSet(asked)) /\ Len(left) <= i
    /\ \A m \in 1..i : Known(command, asked[m]) \/ asked[m] \in ToSet(left)

LEMMA LeftGrows ==
    ASSUME NEW command, NEW asked \in Seq(Expression), NEW k \in 1..Len(asked), NEW left,
           LeftTrue(command, asked, left, k - 1)
    PROVE  /\ Known(command, asked[k]) => LeftTrue(command, asked, left, k)
           /\ ~Known(command, asked[k]) => LeftTrue(command, asked, Append(left, asked[k]), k)
  <1>1. Len(asked) \in Nat /\ asked[k] \in ToSet(asked) /\ left \in Seq(ToSet(asked))
    BY Elements DEF LeftTrue
  <1>2. \A m \in 1..k : m = k \/ m \in 1..(k - 1)
    BY <1>1
  <1> DEFINE longer == Append(left, asked[k])
  <1>3. /\ longer \in Seq(ToSet(asked)) /\ Len(longer) = Len(left) + 1 /\ Len(left) \in Nat
        /\ \A j \in 1..Len(left) : longer[j] = left[j]
        /\ longer[Len(left) + 1] = asked[k]
    BY <1>1, AppendProperties, LenProperties
  <1> HIDE DEF longer
  <1>4. ToSet(left) \subseteq ToSet(longer) /\ asked[k] \in ToSet(longer)
    <2>1. ToSet(left) = {left[j] : j \in 1..Len(left)} /\ ToSet(longer) = {longer[j] : j \in 1..Len(longer)}
      BY <1>1, <1>3, Elements
    <2>2. \A j \in 1..Len(left) : j \in 1..Len(longer)
      BY <1>3
    <2>3. Len(left) + 1 \in 1..Len(longer)
      BY <1>3
    <2>4. QED
      BY <1>3, <2>1, <2>2, <2>3
  <1>5. Known(command, asked[k]) => LeftTrue(command, asked, left, k)
    BY <1>1, <1>2 DEF LeftTrue
  <1>6. LeftTrue(command, asked, longer, k)
    BY <1>2, <1>3, <1>4 DEF LeftTrue
  <1>7. QED
    BY <1>5, <1>6 DEF longer

(* The request asks for nothing else, and for all the cache has not.       *)
LEMMA UnknownTrue ==
    ASSUME NEW command, NEW asked \in Seq(Expression)
    PROVE  /\ Unknown(command, asked) \in Seq(Expression)
           /\ ToSet(Unknown(command, asked)) \subseteq ToSet(asked)
           /\ Len(Unknown(command, asked)) <= Len(asked)
           /\ \A e \in ToSet(asked) : Known(command, e) \/ e \in ToSet(Unknown(command, asked))
  <1> DEFINE left == Left(command, asked)
             Bad == {i \in 0..Len(asked) : ~LeftTrue(command, asked, left[i], i)}
  <1>0. Len(asked) \in Nat /\ ToSet(asked) = {asked[i] : i \in 1..Len(asked)} /\ ToSet(asked) \subseteq Expression
    BY Elements
  <1>1. \A i \in 0..Len(asked) : left[i] = IF i = 0 THEN <<>>
                                          ELSE IF Known(command, asked[i]) THEN left[i - 1]
                                          ELSE Append(left[i - 1], asked[i])
    <2>1. left = LeftBody(command, asked, left, Len(asked))
      BY <1>0, LeftExists
    <2> HIDE DEF left
    <2>2. QED
      BY <1>0, <2>1 DEF LeftBody
  <1> HIDE DEF left
  <1>2. Bad = {}
    <2>1. SUFFICES ASSUME Bad # {} PROVE FALSE
      OBVIOUS
    <2>2. PICK k \in Bad : \A j \in Bad : k <= j
      <3>1. Bad \in SUBSET Nat
        BY <1>0
      <3> HIDE DEF Bad
      <3>2. QED
        BY <2>1, <3>1, LeastMember
    <2>3. CASE k = 0
      <3>1. left[0] = <<>>
        BY <1>0, <1>1
      <3>2. LeftTrue(command, asked, <<>>, 0)
        BY DEF LeftTrue
      <3>3. QED
        BY <2>3, <3>1, <3>2
    <2>4. CASE k # 0
      <3>1. k - 1 \in 0..Len(asked) /\ k \in 1..Len(asked) /\ ~(k <= k - 1)
        BY <1>0, <2>4
      <3>2. k - 1 \notin Bad
        BY <2>2, <3>1
      <3>3. LeftTrue(command, asked, left[k - 1], k - 1)
        BY <3>1, <3>2
      <3>4. left[k] = IF Known(command, asked[k]) THEN left[k - 1] ELSE Append(left[k - 1], asked[k])
        BY <1>1, <2>4
      <3>5. LeftTrue(command, asked, left[k], k)
        BY <3>1, <3>3, <3>4, LeftGrows
      <3>6. QED
        BY <3>5
    <2>5. QED
      BY <2>3, <2>4
  <1>3. LeftTrue(command, asked, left[Len(asked)], Len(asked))
    <2>1. Len(asked) \in 0..Len(asked)
      BY <1>0
    <2>2. QED
      BY <1>2, <2>1
  <1>4. Unknown(command, asked) = left[Len(asked)]
    BY <1>0, LeftExists DEF left
  <1> DEFINE rest == left[Len(asked)]
  <1>5. /\ rest \in Seq(ToSet(asked)) /\ Len(rest) <= Len(asked)
        /\ \A m \in 1..Len(asked) : Known(command, asked[m]) \/ asked[m] \in ToSet(rest)
    BY <1>3 DEF LeftTrue
  <1> HIDE DEF rest
  <1>6. ToSet(rest) \subseteq ToSet(asked) /\ rest \in Seq(Expression)
    BY <1>0, <1>5, Elements, SeqMonotonic
  <1>7. QED
    BY <1>0, <1>4, <1>5, <1>6 DEF rest
-----------------------------------------------------------------------------
(* What the repository holds.                                              *)

(* The trees below a tree: the tree, the parts of each of them, no more.   *)
LEMMA BelowTrue ==
    ASSUME NEW t \in Tree
    PROVE  /\ t \in Below(t) /\ Below(t) \subseteq Tree
           /\ \A u \in Below(t) : Parts[u] \subseteq Below(t)
           /\ \A seen \in SUBSET Tree :
                 t \in seen /\ (\A u \in seen : Parts[u] \subseteq seen) => Below(t) \subseteq seen
  <1>1. \A u \in Tree : Parts[u] \subseteq Tree
    BY TreeAssumption
  <1>2. t \in Below(t) /\ Below(t) \subseteq Tree
    BY DEF Below
  <1>3. \A u \in Below(t) : Parts[u] \subseteq Below(t)
    <2> SUFFICES ASSUME NEW u \in Below(t), NEW w \in Parts[u], NEW seen \in SUBSET Tree,
                        t \in seen, \A v \in seen : Parts[v] \subseteq seen
                 PROVE  w \in seen
      BY <1>1, <1>2 DEF Below
    <2>1. u \in seen
      BY DEF Below
    <2>2. QED
      BY <2>1
  <1>4. QED
    BY <1>2, <1>3 DEF Below

(* What Git says, now and after a step.                                    *)
LEMMA HeldIs ==
    ASSUME present \subseteq Tree
    PROVE  /\ Held(Ref) = refAt
           /\ \A t \in Tree : Held(t) = IF t \in present THEN t ELSE Missing
  <1>1. Ref \notin present /\ \A t \in Tree : t # Ref
    BY TreeAssumption
  <1>2. Held(Ref) = refAt
    BY <1>1, Zenon DEF Held
  <1>3. \A t \in Tree : t \in present => Held(t) = t
    BY <1>1, Zenon DEF Held
  <1>4. \A t \in Tree : t \notin present => Held(t) = Missing
    BY <1>1, Zenon DEF Held
  <1>5. QED
    BY <1>2, <1>3, <1>4

LEMMA HeldBecomes ==
    ASSUME present' \subseteq Tree
    PROVE  /\ Held(Ref)' = refAt'
           /\ \A t \in Tree : Held(t)' = IF t \in present' THEN t ELSE Missing
  <1>1. Ref \notin present' /\ \A t \in Tree : t # Ref
    BY TreeAssumption
  <1>2. Held(Ref)' = refAt'
    BY <1>1, Zenon DEF Held
  <1>3. \A t \in Tree : t \in present' => Held(t)' = t
    BY <1>1, Zenon DEF Held
  <1>4. \A t \in Tree : t \notin present' => Held(t)' = Missing
    BY <1>1, Zenon DEF Held
  <1>5. QED
    BY <1>2, <1>3, <1>4

LEMMA HeldSame ==
    ASSUME UNCHANGED repoVars, NEW e
    PROVE  Held(e)' = Held(e)
  BY DEF Held, repoVars

-----------------------------------------------------------------------------
(* The worker and its Git process.                                         *)

Machine == WorkerStep \/ GitStep \/ VersionUnknown \/ GitAnswersOddly \/ GitFails

LEMMA MachineFrame ==
    ASSUME kind = "objects", Machine
    PROVE  /\ UNCHANGED <<kind, repoVars, state, cache, callVars, held, misled>>
           /\ buffer.written => buffer' = buffer
           /\ TakeRequest \/ ParseResponse \/ NoticeExit \/ KillHung \/ GitAnswers
                 \/ GitEnds \/ GitAnswersOddly \/ GitFails
  <1> USE DEF WorkerOnly, GitOnly, Respond
  <1>1. ~ObserveVersion /\ ~VersionUnknown
    BY DEF ObserveVersion, VersionUnknown
  <1>2. CASE TakeRequest
    BY <1>2 DEF TakeRequest
  <1>3. CASE ParseResponse
    BY <1>3 DEF ParseResponse
  <1>4. CASE NoticeExit
    BY <1>4 DEF NoticeExit
  <1>5. CASE KillHung
    BY <1>5 DEF KillHung
  <1>6. CASE GitAnswers
    BY <1>6 DEF GitAnswers
  <1>7. CASE GitEnds
    BY <1>7 DEF GitEnds
  <1>8. CASE GitAnswersOddly
    BY <1>8 DEF GitAnswersOddly
  <1>9. CASE GitFails
    BY <1>9 DEF GitFails
  <1>10. QED
    BY <1>1, <1>2, <1>3, <1>4, <1>5, <1>6, <1>7, <1>8, <1>9 DEF Machine, WorkerStep, GitStep

LEMMA FailureKind == Failure \in Buffers /\ Failure.written /\ ~Failure.ok
  <1>1. <<>> \in Seq(Expression \X Reply)
    BY EmptySeq
  <1>2. QED
    BY <1>1 DEF Failure, Buffers

(* What the worker and Git write are requests and answers.                 *)
LEMMA MachineKinds ==
    ASSUME SessionKinds, Machine
    PROVE  SessionKinds'
  <1>0. UNCHANGED <<kind, repoVars, callVars, held>>
    BY MachineFrame DEF SessionKinds
  <1>1. \A e : Held(e)' = Held(e)
    BY <1>0, HeldSame
  <1>2. ASSUME request' \in Seq(Expression), pending' \in Seq(Expression), inpipe' \in Seq(Expression),
               outpipe' \in Seq(Reply), collected' \in Seq(Expression \X Reply), buffer' \in Buffers
        PROVE  SessionKinds'
    BY <1>0, <1>1, <1>2 DEF SessionKinds, repoVars, callVars
  <1> USE DEF Respond
  <1>3. <<>> \in Seq(Expression) /\ <<>> \in Seq(Expression \X Reply)
    BY EmptySeq
  <1>4. /\ request \in Seq(Expression) /\ pending \in Seq(Expression) /\ inpipe \in Seq(Expression)
        /\ outpipe \in Seq(Reply) /\ collected \in Seq(Expression \X Reply) /\ buffer \in Buffers
        /\ kind = "objects"
    BY DEF SessionKinds
  <1>5. CASE TakeRequest
    <2>1. request' = <<>> /\ UNCHANGED outpipe
      BY <1>5 DEF TakeRequest, NoRequest
    <2>2. pending \o request \in Seq(Expression) /\ inpipe \o request \in Seq(Expression)
      BY <1>4, ConcatProperties
    <2>3. /\ pending' = pending \/ pending' = pending \o request
          /\ inpipe' = inpipe \/ inpipe' = inpipe \o request
          /\ collected' = collected \/ collected' = <<>>
          /\ buffer' = buffer \/ buffer' = Failure
      BY <1>5 DEF TakeRequest
    <2>4. QED
      BY <1>2, <1>3, <1>4, <2>1, <2>2, <2>3, FailureKind
  <1>6. CASE ParseResponse
    <2> DEFINE got == Append(collected, <<pending[1], Head(outpipe)>>)
    <2>1. /\ pending # <<>> /\ outpipe # <<>> /\ UNCHANGED <<request, inpipe>>
          /\ pending' = RemoveAt(pending, 1) /\ collected' = got /\ outpipe' = Tail(outpipe)
          /\ \/ buffer' = buffer \/ buffer' = Failure
             \/ buffer' = [ok |-> TRUE, answers |-> got, written |-> TRUE]
      BY <1>6 DEF ParseResponse, Oldest
    <2>2. RemoveAt(pending, 1) \in Seq(Expression)
      BY <1>4, <2>1, RemoveFirstTrue
    <2>3. Tail(outpipe) \in Seq(Reply) /\ Head(outpipe) \in Reply
      BY <1>4, <2>1, HeadTailProperties
    <2>4. pending[1] \in Expression
      <3>1. Len(pending) \in Nat \ {0}
        BY <1>4, <2>1, Elements
      <3>2. QED
        BY <1>4, <3>1, ElementOfSeq
    <2>5. got \in Seq(Expression \X Reply)
      BY <1>4, <2>3, <2>4, AppendProperties
    <2> HIDE DEF got
    <2>6. buffer' \in Buffers
      <3>1. [ok |-> TRUE, answers |-> got, written |-> TRUE] \in Buffers
        BY <2>5 DEF Buffers
      <3>2. QED
        BY <1>4, <2>1, <3>1, FailureKind
    <2>7. QED
      BY <1>2, <1>4, <2>1, <2>2, <2>3, <2>5, <2>6
  <1>7. CASE NoticeExit
    <2>1. /\ pending' = <<>> /\ UNCHANGED <<request, collected, inpipe, outpipe>>
          /\ buffer' = buffer \/ buffer' = Failure
      BY <1>7 DEF NoticeExit
    <2>2. QED
      BY <1>2, <1>3, <1>4, <2>1, FailureKind
  <1>8. CASE KillHung \/ GitEnds \/ GitFails
    <2>1. UNCHANGED <<request, buffer, pending, collected, inpipe, outpipe>>
      BY <1>8 DEF KillHung, GitEnds, GitFails, GitOnly
    <2>2. QED
      BY <1>2, <1>4, <2>1
  <1>9. CASE GitAnswers \/ GitAnswersOddly
    <2>1. inpipe # <<>> /\ inpipe' = Tail(inpipe) /\ UNCHANGED <<request, buffer, pending, collected>>
      BY <1>9 DEF GitAnswers, GitAnswersOddly, GitOnly
    <2>2. Tail(inpipe) \in Seq(Expression) /\ Head(inpipe) \in Expression
      BY <1>4, <2>1, HeadTailProperties
    <2>3. Held(Head(inpipe)) \in Reply
      BY <2>2 DEF SessionKinds, Reply
    <2>4. outpipe' = Append(outpipe, Held(Head(inpipe))) \/ outpipe' = Append(outpipe, "odd")
      BY <1>4, <1>9 DEF GitAnswers, GitAnswersOddly, Answer, Odd
    <2>5. outpipe' \in Seq(Reply)
      <3>1. "odd" \in Reply
        BY DEF Reply
      <3>2. \A r \in Reply : Append(outpipe, r) \in Seq(Reply)
        BY <1>4, AppendProperties
      <3>3. QED
        BY <2>3, <2>4, <3>1, <3>2
    <2>6. QED
      BY <1>2, <1>4, <2>1, <2>2, <2>5
  <1>10. QED
    BY <1>4, <1>5, <1>6, <1>7, <1>8, <1>9, MachineFrame

(* Nothing comes out of a quiet session.                                   *)
LEMMA MachineQuiet ==
    ASSUME kind = "objects", Quiet, spc # "shutting", Machine
    PROVE  Quiet' /\ buffer' = buffer
  <1> USE DEF Quiet, Dry, NoRequest
  <1>1. CASE TakeRequest
    BY <1>1 DEF TakeRequest
  <1>2. CASE ParseResponse
    BY <1>2 DEF ParseResponse
  <1>3. CASE NoticeExit
    BY <1>3 DEF NoticeExit
  <1>4. CASE KillHung
    BY <1>4 DEF KillHung
  <1>5. CASE GitAnswers \/ GitAnswersOddly
    BY <1>5 DEF GitAnswers, GitAnswersOddly
  <1>6. CASE GitEnds \/ GitFails
    <2>1. gitp = "running" /\ UNCHANGED <<request, buffer, pending, inpipe, outpipe>>
      BY <1>6 DEF GitEnds, GitFails, GitOnly
    <2>2. QED
      BY <2>1
  <1>7. QED
    BY <1>1, <1>2, <1>3, <1>4, <1>5, <1>6, MachineFrame

(* A request posted is taken whole, refused, or lost with the worker.      *)
LEMMA MachinePosted ==
    ASSUME SessionKinds, spc = "waiting", ~buffer.written, Posted, Machine
    PROVE  \/ buffer'.written /\ ~buffer'.ok
           \/ ~buffer'.written /\ (Posted \/ Gone \/ Flowing)'
  <1>0. /\ kind = "objects" /\ UNCHANGED <<cache, call, held>>
        /\ request \in Seq(Expression)
    BY MachineFrame DEF SessionKinds, callVars
  <1>1. request # <<>> /\ pending = <<>> /\ Dry
    BY DEF Posted
  <1>2. CASE UNCHANGED <<request, pending, buffer>> /\ Dry'
    BY <1>0, <1>2 DEF Posted, KnownNow, Known
  <1>3. CASE TakeRequest
    <2>1. CASE unusable \/ gitp = "noticed"
      <3>1. CASE Respond(Failure)
        BY <3>1, FailureKind DEF Respond
      <3>2. CASE worker' = "dead" /\ UNCHANGED <<buffer, pending>>
        BY <1>1, <1>3, <3>2 DEF TakeRequest, Gone, NoRequest
      <3>3. QED
        BY <1>3, <2>1, <3>1, <3>2 DEF TakeRequest
    <2>2. CASE ~(unusable \/ gitp = "noticed")
      <3>1. CASE worker' = "dead" /\ UNCHANGED <<buffer, pending>>
        BY <1>1, <1>3, <3>1 DEF TakeRequest, Gone, NoRequest
      <3>2. CASE ~(worker' = "dead" /\ UNCHANGED <<buffer, pending>>)
        <4>1. /\ pending' = pending \o request /\ collected' = <<>> /\ inpipe' = inpipe \o request
              /\ UNCHANGED <<buffer, gitp, outpipe>> /\ request' = <<>>
          BY <1>0, <1>3, <2>2, <3>2 DEF TakeRequest, NoRequest
        <4>2. inpipe = <<>> /\ outpipe = <<>> /\ gitp # "noticed"
          BY <1>1, <2>2 DEF Dry
        <4>3. <<>> \o request = request
          BY <1>0, ConcatEmptySeq
        <4>4. pending' = request /\ inpipe' = request /\ outpipe' = <<>>
          BY <1>1, <4>1, <4>2, <4>3
        <4>5. Len(<<>>) = 0 /\ Len(request) \in Nat
          BY <1>0, LenProperties
        <4>6. /\ ToSet(request) \subseteq ToSet(call.ask) /\ Len(<<>>) + Len(request) <= Len(call.ask)
              /\ \A e \in ToSet(call.ask) : Known(call.stage, e) \/ e \in ToSet(request)
          BY <4>5 DEF Posted, KnownNow
        <4>7. Right(collected)'
          BY <4>1, <4>5 DEF Right
        <4>8. \A e : KnownNow(e)' = Known(call.stage, e)
          BY <1>0 DEF KnownNow, Known
        <4>9. ToSet(pending)' = ToSet(request) /\ ToSet(call.ask)' = ToSet(call.ask)
          BY <1>0, <4>4
        <4>10. /\ Len(pending') = Len(outpipe') + Len(inpipe')
               /\ \A j \in 1..Len(outpipe') : FALSE
               /\ \A j \in 1..Len(inpipe') : inpipe'[j] = pending'[Len(outpipe') + j]
          BY <4>4, <4>5
        <4>11. Flowing'
          BY <1>0, <1>1, <4>1, <4>2, <4>4, <4>6, <4>7, <4>8, <4>9, <4>10 DEF Flowing
        <4>12. QED
          BY <4>1, <4>11
      <3>3. QED
        BY <3>1, <3>2
    <2>3. QED
      BY <2>1, <2>2
  <1>4. CASE ParseResponse
    BY <1>1, <1>4 DEF ParseResponse
  <1>5. CASE NoticeExit
    BY <1>1, <1>2, <1>5 DEF NoticeExit, Dry
  <1>6. CASE KillHung
    BY <1>6 DEF KillHung
  <1>7. CASE GitAnswers \/ GitAnswersOddly
    BY <1>1, <1>7 DEF GitAnswers, GitAnswersOddly, Dry
  <1>8. CASE GitEnds \/ GitFails
    <2>1. gitp = "running" /\ UNCHANGED <<request, buffer, pending, inpipe, outpipe>>
      BY <1>8 DEF GitEnds, GitFails, GitOnly
    <2>2. QED
      BY <1>1, <1>2, <2>1 DEF Dry
  <1>9. QED
    BY <1>0, <1>3, <1>4, <1>5, <1>6, <1>7, <1>8, MachineFrame

LEMMA MachineGone ==
    ASSUME kind = "objects", spc = "waiting", ~buffer.written, Gone, Machine
    PROVE  ~buffer'.written /\ Gone'
  <1>1. ~WorkerStep
    BY DEF WorkerStep, TakeRequest, ObserveVersion, ParseResponse, NoticeExit, KillHung, WorkerOnly, Gone
  <1>2. ~VersionUnknown
    BY DEF VersionUnknown
  <1>3. UNCHANGED <<request, buffer, pending, worker>>
    BY <1>1, <1>2 DEF Machine, GitStep, GitAnswers, GitEnds, GitAnswersOddly, GitFails, GitOnly
  <1>4. QED
    BY <1>3 DEF Gone
(* Answers keep to the requests they belong to, and the last one ends the  *)
(* batch.                                                                  *)
LEMMA MachineFlowing ==
    ASSUME SessionKinds, spc = "waiting", ~buffer.written, Flowing, Machine
    PROVE  \/ buffer'.written /\ ~buffer'.ok
           \/ /\ buffer'.written /\ Quiet' /\ Right(buffer.answers)' /\ Len(buffer'.answers) <= Len(call.ask)
              /\ \A e \in ToSet(call.ask) : KnownNow(e)' \/ e \in Given(buffer.answers)'
           \/ ~buffer'.written /\ Flowing'
  <1>0. /\ kind = "objects" /\ UNCHANGED <<cache, call, held, spc>>
        /\ pending \in Seq(Expression) /\ inpipe \in Seq(Expression) /\ outpipe \in Seq(Reply)
        /\ collected \in Seq(Expression \X Reply)
    BY MachineFrame DEF SessionKinds, callVars
  <1>1. /\ request = <<>> /\ pending # <<>> /\ gitp # "noticed"
        /\ Len(pending) = Len(outpipe) + Len(inpipe)
        /\ \A j \in 1..Len(outpipe) : outpipe[j] = "odd" \/ outpipe[j] \in held[pending[j]]
        /\ \A j \in 1..Len(inpipe) : inpipe[j] = pending[Len(outpipe) + j]
        /\ ToSet(pending) \subseteq ToSet(call.ask) /\ Right(collected)
        /\ Len(collected) + Len(pending) <= Len(call.ask)
        /\ \A e \in ToSet(call.ask) : KnownNow(e) \/ e \in ToSet(pending) \/ e \in Given(collected)
    BY DEF Flowing
  <1>2. /\ Len(pending) \in Nat \ {0} /\ Len(outpipe) \in Nat /\ Len(inpipe) \in Nat /\ Len(collected) \in Nat
        /\ outpipe = <<>> <=> Len(outpipe) = 0
        /\ inpipe = <<>> <=> Len(inpipe) = 0
    BY <1>0, <1>1, Elements
  <1>3. \A e : KnownNow(e)' = KnownNow(e)
    BY <1>0 DEF KnownNow, Known
  <1>4. CASE UNCHANGED <<request, pending, inpipe, outpipe, collected, buffer>> /\ gitp' # "noticed"
    <2>1. Flowing'
      BY <1>0, <1>1, <1>3, <1>4 DEF Flowing, Right
    <2>2. QED
      BY <1>4, <2>1
  <1>5. CASE TakeRequest
    BY <1>1, <1>5 DEF TakeRequest, NoRequest
  <1>6. CASE ParseResponse
    <2> DEFINE answer == Head(outpipe)
               got == Append(collected, <<pending[1], answer>>)
    <2>1. /\ outpipe # <<>> /\ UNCHANGED <<request, inpipe, gitp>>
          /\ pending' = RemoveAt(pending, 1) /\ collected' = got /\ outpipe' = Tail(outpipe)
          /\ \/ answer = "odd" /\ Respond(Failure)
             \/ answer # "odd" /\ Len(pending) > 1 /\ UNCHANGED buffer
             \/ answer # "odd" /\ Len(pending) = 1 /\ Respond([ok |-> TRUE, answers |-> got, written |-> TRUE])
             \/ Respond(Failure)
      BY <1>0, <1>6 DEF ParseResponse, Oldest, Odd
    <2>2. CASE Respond(Failure)
      BY <2>2, FailureKind DEF Respond
    <2>3. answer = outpipe[1] /\ answer \in Reply
      BY <1>0, <2>1, HeadTailProperties
    <2>4. pending[1] \in Expression /\ pending[1] \in ToSet(call.ask)
      <3>1. 1 \in 1..Len(pending) /\ pending[1] \in ToSet(pending)
        BY <1>0, <1>2, Elements
      <3>2. ToSet(pending) \subseteq Expression
        BY <1>0, Elements
      <3>3. QED
        BY <1>1, <3>1, <3>2
    <2>5. /\ got \in Seq(Expression \X Reply) /\ Len(got) = Len(collected) + 1
          /\ \A i \in 1..Len(collected) : got[i] = collected[i]
          /\ got[Len(collected) + 1] = <<pending[1], answer>>
      BY <1>0, <2>3, <2>4, AppendProperties
    <2> HIDE DEF got
    <2>6. ASSUME answer # "odd" PROVE answer \in held[pending[1]]
      <3>1. 1 \in 1..Len(outpipe)
        BY <1>2, <2>1
      <3>2. QED
        BY <1>1, <2>3, <2>6, <3>1
    <2> HIDE DEF answer
    <2>7. ASSUME answer # "odd"
          PROVE  \A i \in 1..Len(got) : got[i][1] \in ToSet(call.ask) /\ got[i][2] \in held[got[i][1]]
      <3> TAKE i \in 1..Len(got)
      <3>1. CASE i = Len(collected) + 1
        BY <2>4, <2>5, <2>6, <2>7, <3>1
      <3>2. CASE i # Len(collected) + 1
        <4>1. i \in 1..Len(collected)
          BY <1>2, <2>5, <3>2
        <4>2. QED
          BY <1>1, <2>5, <4>1 DEF Right
      <3>3. QED
        BY <3>1, <3>2
    <2>8. Given(collected) \subseteq Given(got) /\ pending[1] \in Given(got)
      <3>1. \A i \in 1..Len(collected) : i \in 1..Len(got)
        BY <1>2, <2>5
      <3>2. Len(collected) + 1 \in 1..Len(got) /\ <<pending[1], answer>>[1] = pending[1]
        BY <1>2, <2>5
      <3>3. QED
        BY <2>5, <3>1, <3>2 DEF Given
    <2>9. /\ pending' \in Seq(Expression) /\ Len(pending') = Len(pending) - 1
          /\ \A i \in 1..(Len(pending) - 1) : pending'[i] = pending[i + 1]
      BY <1>0, <1>1, <2>1, RemoveFirstTrue
    <2>10. /\ outpipe' \in Seq(Reply) /\ Len(outpipe') = Len(outpipe) - 1
           /\ \A i \in 1..(Len(outpipe) - 1) : outpipe'[i] = outpipe[i + 1]
      BY <1>0, <2>1, HeadTailProperties
    <2>11. CASE answer # "odd" /\ Len(pending) = 1 /\ Respond([ok |-> TRUE, answers |-> got, written |-> TRUE])
      <3>1. buffer' = [ok |-> TRUE, answers |-> got, written |-> TRUE]
        BY <2>11 DEF Respond
      <3>2. buffer'.written /\ buffer'.answers = got
        BY <3>1
      <3>3. Len(outpipe) = 1 /\ Len(inpipe) = 0
        <4>1. Len(pending) = Len(outpipe) + Len(inpipe) /\ Len(pending) = 1
          BY <1>1, <2>11
        <4>2. Len(outpipe) \in Nat \ {0} /\ Len(inpipe) \in Nat
          BY <1>2, <2>1
        <4>3. \A a \in Nat \ {0}, b \in Nat : a + b = 1 => a = 1 /\ b = 0
          OBVIOUS
        <4>4. Len(outpipe) + Len(inpipe) = 1
          BY <4>1
        <4>5. QED
          BY <4>2, <4>3, <4>4
      <3>4. pending' = <<>> /\ outpipe' = <<>> /\ inpipe' = <<>>
        BY <1>2, <2>1, <2>9, <2>10, <2>11, <3>3, EmptySeq, Elements
      <3>5. Quiet'
        BY <1>1, <2>1, <3>4 DEF Quiet, Dry
      <3>6. Right(buffer.answers)'
        BY <1>0, <2>7, <2>11, <3>2 DEF Right
      <3>7. \A e \in ToSet(pending) : e = pending[1]
        BY <1>0, <2>11, Elements
      <3>8. \A e \in ToSet(call.ask) : KnownNow(e)' \/ e \in Given(buffer.answers)'
        <4>1. Given(buffer.answers)' = Given(got)
          BY <3>2 DEF Given
        <4>2. QED
          BY <1>1, <1>3, <2>8, <3>7, <4>1
      <3>9. QED
        BY <1>1, <1>2, <2>5, <2>11, <3>2, <3>5, <3>6, <3>8
    <2>12. CASE answer # "odd" /\ Len(pending) > 1 /\ UNCHANGED buffer
      <3>1. Len(pending') = Len(outpipe') + Len(inpipe') /\ pending' # <<>>
        BY <1>1, <1>2, <2>1, <2>9, <2>10, <2>12, EmptySeq
      <3>2. \A j \in 1..Len(outpipe') : outpipe'[j] = "odd" \/ outpipe'[j] \in held[pending'[j]]
        <4> TAKE j \in 1..Len(outpipe')
        <4>1. j \in 1..(Len(outpipe) - 1) /\ j \in 1..(Len(pending) - 1) /\ j + 1 \in 1..Len(outpipe)
          BY <1>1, <1>2, <2>10
        <4>2. outpipe'[j] = outpipe[j + 1] /\ pending'[j] = pending[j + 1]
          BY <2>9, <2>10, <4>1
        <4>3. QED
          BY <1>1, <4>1, <4>2
      <3>3. \A j \in 1..Len(inpipe') : inpipe'[j] = pending'[Len(outpipe') + j]
        <4> TAKE j \in 1..Len(inpipe')
        <4>1. inpipe'[j] = inpipe[j] /\ j \in 1..Len(inpipe)
          BY <2>1
        <4>2. /\ Len(outpipe') + j \in 1..(Len(pending) - 1)
              /\ (Len(outpipe') + j) + 1 = Len(outpipe) + j
          BY <1>1, <1>2, <2>1, <2>10, <4>1
        <4>3. pending'[Len(outpipe') + j] = pending[Len(outpipe) + j]
          BY <2>9, <4>2
        <4>4. QED
          BY <1>1, <4>1, <4>3
      <3>4. ToSet(pending') \subseteq ToSet(pending) /\ \A e \in ToSet(pending) : e = pending[1] \/ e \in ToSet(pending')
        <4>1. /\ ToSet(pending) = {pending[i] : i \in 1..Len(pending)}
              /\ ToSet(pending') = {pending'[i] : i \in 1..Len(pending')}
          BY <1>0, <2>9, Elements
        <4>2. \A i \in 1..Len(pending') : i + 1 \in 1..Len(pending) /\ pending'[i] = pending[i + 1]
          BY <1>2, <2>9
        <4>3. \A i \in 1..Len(pending) : i = 1 \/ (i - 1 \in 1..Len(pending') /\ pending'[i - 1] = pending[i])
          <5> TAKE i \in 1..Len(pending)
          <5>1. i # 1 => i - 1 \in 1..(Len(pending) - 1) /\ (i - 1) + 1 = i
            BY <1>2
          <5>2. QED
            BY <2>9, <5>1
        <4>4. ToSet(pending') \subseteq ToSet(pending)
          BY <4>1, <4>2
        <4>5. \A e \in ToSet(pending) : e = pending[1] \/ e \in ToSet(pending')
          <5> TAKE e \in ToSet(pending)
          <5>1. PICK i \in 1..Len(pending) : e = pending[i]
            BY <4>1
          <5>2. QED
            BY <4>1, <4>3, <5>1
        <4>6. QED
          BY <4>4, <4>5
      <3>5. Right(collected)'
        BY <1>0, <2>1, <2>7, <2>12 DEF Right
      <3>6. Given(collected)' = Given(got)
        BY <2>1 DEF Given
      <3>7. ToSet(pending)' = ToSet(pending') /\ ToSet(call.ask)' = ToSet(call.ask)
        BY <1>0
      <3>8. \A e \in ToSet(call.ask) : KnownNow(e)' \/ e \in ToSet(pending') \/ e \in Given(got)
        BY <1>1, <1>3, <2>8, <3>4
      <3>9. ToSet(pending') \subseteq ToSet(call.ask) /\ Len(collected') + Len(pending') <= Len(call.ask)
        BY <1>1, <1>2, <2>1, <2>5, <2>9, <3>4
      <3>10. Flowing'
        BY <1>0, <1>1, <2>1, <3>1, <3>2, <3>3, <3>5, <3>6, <3>7, <3>8, <3>9 DEF Flowing
      <3>11. QED
        BY <2>12, <3>10
    <2>13. QED
      BY <2>1, <2>2, <2>11, <2>12 DEF answer
  <1>7. CASE NoticeExit
    BY <1>1, <1>7, FailureKind DEF NoticeExit, Respond
  <1>8. CASE KillHung
    BY <1>8 DEF KillHung
  <1>9. CASE GitEnds \/ GitFails
    <2>1. gitp' \in {"exited", "hung"} /\ UNCHANGED <<request, buffer, pending, collected, inpipe, outpipe>>
      BY <1>9 DEF GitEnds, GitFails, GitOnly
    <2>2. QED
      BY <1>4, <2>1
  <1>10. CASE GitAnswers \/ GitAnswersOddly
    <2> DEFINE reply == Head(outpipe')
    <2>1. /\ inpipe # <<>> /\ inpipe' = Tail(inpipe) /\ gitp' = gitp
          /\ UNCHANGED <<request, buffer, pending, collected>>
          /\ \E r \in {"odd", Held(Head(inpipe))} : outpipe' = Append(outpipe, r)
      BY <1>0, <1>10 DEF GitAnswers, GitAnswersOddly, GitOnly, Answer, Odd
    <2>2. PICK r \in {"odd", Held(Head(inpipe))} : outpipe' = Append(outpipe, r)
      BY <2>1
    <2>3. /\ Head(inpipe) = inpipe[1] /\ Head(inpipe) \in Expression
          /\ Len(inpipe') = Len(inpipe) - 1
          /\ \A i \in 1..(Len(inpipe) - 1) : inpipe'[i] = inpipe[i + 1]
      BY <1>0, <2>1, HeadTailProperties
    <2>4. r = "odd" \/ r \in held[inpipe[1]]
      BY <2>2, <2>3 DEF SessionKinds
    <2>5. r \in Reply
      BY <2>2, <2>3 DEF SessionKinds, Reply
    <2>6. /\ Len(outpipe') = Len(outpipe) + 1 /\ outpipe'[Len(outpipe) + 1] = r
          /\ \A i \in 1..Len(outpipe) : outpipe'[i] = outpipe[i]
      BY <1>0, <2>2, <2>5, AppendProperties
    <2>7. inpipe[1] = pending[Len(outpipe) + 1]
      <3>1. 1 \in 1..Len(inpipe)
        BY <1>2, <2>1
      <3>2. QED
        BY <1>1, <3>1
    <2>8. Len(pending') = Len(outpipe') + Len(inpipe')
      <3>1. Len(pending') = Len(pending) /\ Len(pending) = Len(outpipe) + Len(inpipe)
        BY <1>1, <2>1
      <3>2. Len(outpipe) \in Nat /\ Len(inpipe) \in Nat
        BY <1>2
      <3>3. QED
        BY <2>3, <2>6, <3>1, <3>2
    <2>9. \A j \in 1..Len(outpipe') : outpipe'[j] = "odd" \/ outpipe'[j] \in held[pending'[j]]
      <3> TAKE j \in 1..Len(outpipe')
      <3>1. CASE j = Len(outpipe) + 1
        BY <2>1, <2>4, <2>6, <2>7, <3>1
      <3>2. CASE j # Len(outpipe) + 1
        <4>1. j \in 1..Len(outpipe)
          BY <1>2, <2>6, <3>2
        <4>2. QED
          BY <1>1, <2>1, <2>6, <4>1
      <3>3. QED
        BY <3>1, <3>2
    <2>10. \A j \in 1..Len(inpipe') : inpipe'[j] = pending'[Len(outpipe') + j]
      <3> TAKE j \in 1..Len(inpipe')
      <3>1. j \in 1..(Len(inpipe) - 1) /\ j + 1 \in 1..Len(inpipe)
        BY <1>2, <2>3
      <3>2. inpipe'[j] = pending[Len(outpipe) + (j + 1)]
        BY <1>1, <2>3, <3>1
      <3>3. Len(outpipe) + (j + 1) = Len(outpipe') + j
        BY <1>2, <2>6, <3>1
      <3>4. QED
        BY <2>1, <3>2, <3>3
    <2>11. Flowing'
      BY <1>0, <1>1, <1>3, <2>1, <2>8, <2>9, <2>10 DEF Flowing, Right
    <2>12. QED
      BY <2>1, <2>11
  <1>11. QED
    BY <1>0, <1>5, <1>6, <1>7, <1>8, <1>9, <1>10, MachineFrame

LEMMA MachineTalk ==
    ASSUME SessionKinds, Talking, Machine
    PROVE  Talking'
  <1>0. /\ kind = "objects" /\ UNCHANGED <<spc, call, state, cache, held>>
        /\ buffer.written => buffer' = buffer
    BY MachineFrame DEF SessionKinds, callVars
  <1>1. CASE spc # "waiting"
    <2>1. state = "open" => Quiet'
      BY <1>0, <1>1, MachineQuiet DEF Talking
    <2>2. QED
      BY <1>0, <1>1, <2>1 DEF Talking
  <1>2. CASE spc = "waiting" /\ buffer.written
    <2>1. buffer' = buffer
      BY <1>0, <1>2
    <2>2. CASE buffer.ok
      <3>1. /\ Right(buffer.answers) /\ Quiet /\ Len(buffer.answers) <= Len(call.ask)
            /\ \A e \in ToSet(call.ask) : KnownNow(e) \/ e \in Given(buffer.answers)
        BY <1>2, <2>2 DEF Talking
      <3>2. Quiet'
        BY <1>0, <1>2, <3>1, MachineQuiet
      <3>3. Right(buffer.answers)'
        BY <1>0, <2>1, <3>1 DEF Right
      <3>4. (\A e \in ToSet(call.ask) : KnownNow(e) \/ e \in Given(buffer.answers))'
        BY <1>0, <2>1, <3>1 DEF KnownNow, Known, Given
      <3>5. QED
        BY <1>0, <1>2, <2>1, <2>2, <3>2, <3>3, <3>4 DEF Talking
    <2>3. CASE ~buffer.ok
      BY <1>0, <1>2, <2>1, <2>3 DEF Talking
    <2>4. QED
      BY <2>2, <2>3
  <1>3. CASE spc = "waiting" /\ ~buffer.written
    <2>1. CASE Posted
      <3>1. \/ buffer'.written /\ ~buffer'.ok
            \/ ~buffer'.written /\ (Posted \/ Gone \/ Flowing)'
        BY <1>3, <2>1, MachinePosted
      <3>2. QED
        BY <1>0, <1>3, <3>1 DEF Talking
    <2>2. CASE Gone
      <3>1. ~buffer'.written /\ Gone'
        BY <1>0, <1>3, <2>2, MachineGone
      <3>2. QED
        BY <1>0, <1>3, <3>1 DEF Talking
    <2>3. CASE Flowing
      <3>1. \/ buffer'.written /\ ~buffer'.ok
            \/ /\ buffer'.written /\ Quiet' /\ Right(buffer.answers)' /\ Len(buffer'.answers) <= Len(call.ask)
               /\ \A e \in ToSet(call.ask) : KnownNow(e)' \/ e \in Given(buffer.answers)'
            \/ ~buffer'.written /\ Flowing'
        BY <1>3, <2>3, MachineFlowing
      <3>2. ToSet(call.ask)' = ToSet(call.ask)
        BY <1>0
      <3>3. QED
        BY <1>0, <1>3, <3>1, <3>2 DEF Talking
    <2>4. QED
      BY <1>3, <2>1, <2>2, <2>3 DEF Talking
  <1>4. QED
    BY <1>1, <1>2, <1>3
-----------------------------------------------------------------------------
(* The command.                                                            *)

(* The command moves between its own places.                               *)
LEMMA TalkMoves ==
    ASSUME Talking, UNCHANGED workerVars, state' = "open" => state = "open",
           spc # "waiting", spc' # "waiting", spc' = "shutting" => state' # "open"
    PROVE  Talking'
  <1>1. state' = "open" => Quiet'
    BY DEF Talking, Quiet, Dry, workerVars
  <1>2. QED
    BY <1>1 DEF Talking

(* The read is given up.                                                   *)
LEMMA TalkEnds ==
    ASSUME state' # "open", spc' # "waiting"
    PROVE  Talking'
  BY DEF Talking

(* A listing goes on, or is no longer one through the session.             *)
LEMMA ListKept ==
    ASSUME ListTrue, UNCHANGED call, held[Ref] \subseteq held'[Ref],
           spc' \in {"ask", "waiting", "got"} => spc \in {"ask", "waiting", "got"}
    PROVE  ListTrue'
  <1> SUFFICES ASSUME call.op = "list", spc' \in {"ask", "waiting", "got"}, ~Starting'
               PROVE  \E t \in held'[Ref] \ {Missing} : \E seen \in SUBSET Tree : Listed(t, seen)'
    BY DEF ListTrue
  <1>1. ~Starting
    BY DEF Starting
  <1>2. PICK t \in held[Ref] \ {Missing}, seen \in SUBSET Tree : Listed(t, seen)
    BY <1>1 DEF ListTrue
  <1>3. Listed(t, seen)'
    BY <1>2 DEF Listed
  <1>4. QED
    BY <1>3

(* What the command does to the kinds when the repository stays.           *)
LEMMA KindsStay ==
    ASSUME SessionKinds, UNCHANGED <<kind, repoVars, held, workerVars, call>>
    PROVE  SessionKinds'
  <1>1. \A e : Held(e)' = Held(e)
    BY HeldSame
  <1>2. QED
    BY <1>1 DEF SessionKinds, repoVars, workerVars

LEMMA CacheStays ==
    ASSUME CacheTrue, UNCHANGED <<cache, held>>
    PROVE  CacheTrue'
  BY DEF CacheTrue

(* A read begins: what the ref is from now on is what may be told.         *)
LEMMA StartsRight ==
    ASSUME SessionIInv, \/ \E asked \in Asks : StartRead(asked)
                        \/ StartList
    PROVE  SessionIInv'
  <1>1. /\ spc = "free" /\ spc' = "ask" /\ UNCHANGED <<kind, repoVars, state, cache, workerVars>>
        /\ held' = [held EXCEPT ![Ref] = {refAt}]
    BY DEF StartRead, StartList, CommandOnly
  <1>2. \/ \E asked \in Asks : call' = [op |-> "read", stage |-> "info", ask |-> asked,
                                        sizes |-> 0, trees |-> 0, notes |-> {}]
        \/ call' = [op |-> "list", stage |-> "info", ask |-> <<Ref>>, sizes |-> 0, trees |-> 1, notes |-> {}]
    BY DEF StartRead, StartList, NoCall
  <1>3. <<Ref>> \in Seq(Expression) /\ \A asked \in Asks : asked \in Seq(Expression)
    BY TreeAssumption DEF Expression
  <1>4. /\ call'.ask \in Seq(Expression) /\ call'.trees \in Nat
        /\ call' = [op |-> call'.op, stage |-> call'.stage, ask |-> call'.ask,
                    sizes |-> call'.sizes, trees |-> call'.trees, notes |-> call'.notes]
        /\ call'.op = "list" => Starting'
    BY <1>2, <1>3 DEF Starting
  <1>5. /\ held' \in [Expression -> SUBSET Value] /\ refAt \in Value
        /\ \A t \in Tree : t # Ref /\ t \in Expression /\ held'[t] = held[t]
        /\ held'[Ref] = {refAt}
    BY <1>1, TreeAssumption DEF SessionIInv, SessionKinds, Expression
  <1>6. \A e : Held(e)' = Held(e)
    BY <1>1, HeldSame
  <1>7. \A e \in Expression : Held(e)' \in held'[e]
    <2>1. Held(Ref) = refAt
      BY HeldIs DEF SessionIInv, SessionKinds
    <2>2. QED
      BY <1>5, <1>6, <2>1 DEF SessionIInv, SessionKinds, Expression
  <1>8. SessionKinds'
    BY <1>1, <1>4, <1>5, <1>7 DEF SessionIInv, SessionKinds, repoVars, workerVars
  <1>9. CacheTrue'
    BY <1>1, <1>5 DEF SessionIInv, CacheTrue
  <1>10. Talking'
    BY <1>1, TalkMoves DEF SessionIInv
  <1>11. QED
    BY <1>1, <1>4, <1>8, <1>9, <1>10 DEF SessionIInv, GotTrue, ListTrue, AnswersTrue, CatalogWhole

(* The command writes: it remembers nothing.                               *)
LEMMA MutatesRight ==
    ASSUME SessionIInv, NEW t \in Roots, Mutate(t)
    PROVE  SessionIInv'
  <1>1. /\ spc = "free" /\ UNCHANGED <<kind, state, workerVars, callVars>> /\ t \in Tree
        /\ refAt' = t /\ present' = present \cup Below(t) /\ cache' = {} /\ held' = Now
    BY TreeAssumption DEF Mutate, Invalidated
  <1>2. present' \subseteq Tree
    BY <1>1, BelowTrue DEF SessionIInv, SessionKinds
  <1>3. Held(Ref)' = t /\ \A u \in Tree : Held(u)' \in {u, Missing}
    BY <1>1, <1>2, HeldBecomes
  <1>4. held' = [e \in Expression |-> {Held(e)'}]
    BY <1>1 DEF Now
  <1>5. \A e \in Expression : Held(e)' \in Value
    BY <1>1, <1>3 DEF Expression, Value
  <1>6. /\ held' \in [Expression -> SUBSET Value] /\ \A u \in Tree : held'[u] \subseteq {u, Missing}
        /\ \A e \in Expression : Held(e)' \in held'[e]
    BY <1>3, <1>4, <1>5 DEF Expression
  <1>7. SessionKinds'
    BY <1>1, <1>2, <1>6 DEF SessionIInv, SessionKinds, workerVars, callVars, Value
  <1>8. Talking'
    BY <1>1, TalkMoves DEF SessionIInv, callVars
  <1>9. QED
    BY <1>1, <1>7, <1>8 DEF SessionIInv, CacheTrue, GotTrue, ListTrue, AnswersTrue, CatalogWhole, callVars

(* Others publish: what was held stays a truth of the read under way.      *)
LEMMA OthersRight ==
    ASSUME SessionIInv, NEW t \in Roots, OthersPublish(t)
    PROVE  SessionIInv'
  <1>1. /\ spc # "back" /\ UNCHANGED <<kind, state, cache, workerVars, callVars>> /\ t \in Tree
        /\ refAt' = t /\ present' = present \cup Below(t)
        /\ held' = [e \in Expression |-> held[e] \cup {Held(e)'}]
    BY TreeAssumption DEF OthersPublish
  <1>2. present' \subseteq Tree
    BY <1>1, BelowTrue DEF SessionIInv, SessionKinds
  <1>3. Held(Ref)' = t /\ \A u \in Tree : Held(u)' \in {u, Missing}
    BY <1>1, <1>2, HeldBecomes
  <1>4. \A e \in Expression : Held(e)' \in Value
    BY <1>1, <1>3 DEF Expression, Value
  <1>5. /\ held' \in [Expression -> SUBSET Value] /\ \A u \in Tree : held'[u] \subseteq {u, Missing}
        /\ \A e \in Expression : Held(e)' \in held'[e] /\ held[e] \subseteq held'[e]
    BY <1>1, <1>3, <1>4 DEF Expression, SessionIInv, SessionKinds
  <1>6. SessionKinds'
    BY <1>1, <1>2, <1>5 DEF SessionIInv, SessionKinds, workerVars, callVars, Value
  <1>7. CacheTrue'
    BY <1>1, <1>5 DEF SessionIInv, CacheTrue, Expression
  <1>8. ASSUME NEW answers \in Seq(Expression \X Reply), Right(answers)
        PROVE  Right(answers)'
    <2>1. \A i \in 1..Len(answers) : answers[i][1] \in Expression
      BY ElementOfSeq
    <2>2. QED
      BY <1>1, <1>5, <1>8, <2>1 DEF Right, callVars
  <1>9. Talking'
    <2>0. /\ pending \in Seq(Expression) /\ collected \in Seq(Expression \X Reply)
          /\ buffer.answers \in Seq(Expression \X Reply) /\ outpipe \in Seq(Reply) /\ inpipe \in Seq(Expression)
      BY DEF SessionIInv, SessionKinds, Buffers
    <2>1. UNCHANGED <<spc, call, cache, state, gitp, worker, request, buffer, pending, collected, inpipe, outpipe>>
      BY <1>1 DEF workerVars, callVars
    <2>2. Quiet => Quiet'
      BY <2>1 DEF Quiet, Dry
    <2>3. Posted => Posted'
      BY <2>1 DEF Posted, Dry, KnownNow, Known
    <2>4. Gone => Gone'
      BY <2>1 DEF Gone
    <2>5. Right(buffer.answers) => Right(buffer.answers)'
      BY <1>8, <2>0, <2>1 DEF Right
    <2>6. Flowing => Flowing'
      <3> SUFFICES ASSUME Flowing PROVE Flowing'
        OBVIOUS
      <3>1. Right(collected)'
        BY <1>8, <2>0, <2>1 DEF Right, Flowing
      <3>2. \A j \in 1..Len(outpipe) : outpipe[j] = "odd" \/ outpipe[j] \in held'[pending[j]]
        <4> TAKE j \in 1..Len(outpipe)
        <4>1. j \in 1..Len(pending)
          BY <2>0, LenProperties DEF Flowing
        <4>2. pending[j] \in Expression
          BY <2>0, <4>1, ElementOfSeq
        <4>3. QED
          BY <1>5, <4>2 DEF Flowing
      <3>3. QED
        BY <2>1, <3>1, <3>2 DEF Flowing, KnownNow, Known, Given
    <2>7. (\A e \in ToSet(call.ask) : KnownNow(e) \/ e \in Given(buffer.answers))
          => (\A e \in ToSet(call.ask) : KnownNow(e) \/ e \in Given(buffer.answers))'
      BY <2>1 DEF KnownNow, Known, Given
    <2>8. QED
      BY <2>1, <2>2, <2>3, <2>4, <2>5, <2>6, <2>7 DEF SessionIInv, Talking
  <1>10. GotTrue'
    <2> SUFFICES ASSUME spc = "got"
                 PROVE  /\ {r[1] : r \in result} = ToSet(call.ask) /\ \A r \in result : r[2] \in held'[r[1]]
                        /\ call.ask = <<Ref>> => \E v \in held'[Ref] : result = {<<Ref, v>>}
      BY <1>1 DEF GotTrue, callVars
    <2>1. /\ {r[1] : r \in result} = ToSet(call.ask) /\ \A r \in result : r[2] \in held[r[1]]
          /\ call.ask = <<Ref>> => \E v \in held[Ref] : result = {<<Ref, v>>}
      BY DEF SessionIInv, GotTrue
    <2>2. ToSet(call.ask) \subseteq Expression
      BY Elements DEF SessionIInv, SessionKinds
    <2>3. \A r \in result : r[1] \in Expression
      BY <2>1, <2>2
    <2>4. QED
      BY <1>5, <2>1, <2>3 DEF Expression
  <1>11. ListTrue'
    BY <1>1, <1>5, ListKept DEF SessionIInv, Expression, callVars
  <1>12. QED
    BY <1>1, <1>6, <1>7, <1>9, <1>10, <1>11 DEF SessionIInv, AnswersTrue, CatalogWhole, callVars

(* What the ref is at is never remembered.                                 *)
LEMMA RefUnknown ==
    ASSUME SessionIInv
    PROVE  ~KnownNow(Ref) /\ ToSet(<<Ref>>) = {Ref} /\ Len(<<Ref>>) = 1
  <1>1. Ref \notin Tree
    BY TreeAssumption
  <1>2. ~KnownNow(Ref)
    BY <1>1 DEF KnownNow, Known, SessionIInv, CacheTrue
  <1>3. QED
    BY <1>2 DEF ToSet

(* A request is posted, or the cache has all of it, or the session is not  *)
(* to be asked.                                                            *)
LEMMA AsksRight ==
    ASSUME SessionIInv, Ask
    PROVE  SessionIInv'
  <1> DEFINE missing == Unknown(call.stage, call.ask)
  <1>1. /\ kind = "objects" /\ spc = "ask" /\ UNCHANGED <<kind, repoVars, state, cache, call, held>>
        /\ call.ask \in Seq(Expression) /\ call.stage = call.stage
    BY DEF Ask, CommandOnly, SessionIInv, SessionKinds
  <1>2. /\ missing \in Seq(Expression) /\ ToSet(missing) \subseteq ToSet(call.ask)
        /\ Len(missing) <= Len(call.ask)
        /\ \A e \in ToSet(call.ask) : KnownNow(e) \/ e \in ToSet(missing)
    BY <1>1, UnknownTrue DEF KnownNow
  <1> HIDE DEF missing
  <1>3. CacheTrue' /\ ListTrue'
    <2>1. held[Ref] \subseteq held'[Ref]
      BY <1>1
    <2>2. QED
      BY <1>1, <2>1, CacheStays, ListKept DEF SessionIInv
  <1>4. CASE state # "open" /\ spc' = "ordinary" /\ UNCHANGED <<result, workerVars>>
    <2>1. SessionKinds' /\ Talking'
      BY <1>1, <1>4, KindsStay, TalkMoves DEF SessionIInv
    <2>2. QED
      BY <1>3, <1>4, <2>1 DEF SessionIInv, GotTrue, AnswersTrue, CatalogWhole
  <1>5. CASE missing = <<>> /\ result' = Hits(call.stage, call.ask) /\ spc' = "got" /\ UNCHANGED workerVars
    <2>1. SessionKinds' /\ Talking'
      BY <1>1, <1>5, KindsStay, TalkMoves DEF SessionIInv
    <2>2. \A e \in ToSet(call.ask) : KnownNow(e)
      BY <1>2, <1>5 DEF ToSet
    <2>3. GotTrue'
      <3>1. \A r \in result' : r[1] \in ToSet(call.ask) /\ r[2] \in held[r[1]]
        BY <1>5 DEF Hits, SessionIInv, CacheTrue
      <3>2. ASSUME NEW e \in ToSet(call.ask) PROVE \E r \in result' : r[1] = e
        <4>1. PICK hit \in cache : hit[1] = call.stage /\ hit[2] = e
          BY <2>2 DEF KnownNow, Known
        <4>2. <<hit[2], hit[3]>> \in result'
          BY <1>5, <4>1 DEF Hits
        <4>3. <<hit[2], hit[3]>>[1] = e
          BY <4>1
        <4>4. QED
          BY <4>2, <4>3
      <3>3. call.ask # <<Ref>>
        BY <2>2, RefUnknown
      <3>4. QED
        BY <1>1, <3>1, <3>2, <3>3 DEF GotTrue
    <2>4. QED
      BY <1>3, <1>5, <2>1, <2>3 DEF SessionIInv, AnswersTrue, CatalogWhole
  <1>6. CASE /\ state = "open" /\ missing # <<>> /\ request' = missing /\ buffer' = Empty /\ spc' = "waiting"
             /\ gitp' = (IF gitp = "none" THEN "running" ELSE gitp)
             /\ UNCHANGED <<pending, collected, inpipe, outpipe>>
    <2>1. Empty \in Buffers /\ ~Empty.written
      <3>1. <<>> \in Seq(Expression \X Reply)
        BY EmptySeq
      <3>2. QED
        BY <3>1 DEF Empty, Buffers
    <2>2. SessionKinds'
      <3>1. \A e : Held(e)' = Held(e)
        BY <1>1, HeldSame
      <3>2. QED
        BY <1>1, <1>2, <1>6, <2>1, <3>1 DEF SessionIInv, SessionKinds, repoVars
    <2>3. Quiet
      BY <1>1, <1>6 DEF SessionIInv, Talking
    <2>4. Dry'
      BY <1>6, <2>3 DEF Quiet, Dry
    <2>5. Posted'
      BY <1>1, <1>2, <1>6, <2>3, <2>4 DEF Posted, Quiet, KnownNow, Known
    <2>6. Talking'
      BY <1>1, <1>6, <2>1, <2>5 DEF Talking
    <2>7. QED
      BY <1>3, <1>6, <2>2, <2>6 DEF SessionIInv, GotTrue, AnswersTrue, CatalogWhole
  <1>7. QED
    BY <1>1, <1>4, <1>5, <1>6 DEF Ask, missing

(* An answer is what was asked for and not known.                          *)
LEMMA ReceivesRight ==
    ASSUME SessionIInv, Receive
    PROVE  SessionIInv'
  <1>1. /\ kind = "objects" /\ spc = "waiting" /\ spc' = "got"
        /\ UNCHANGED <<kind, repoVars, state, call, held, workerVars>>
        /\ result' = Answers \cup Hits(call.stage, call.ask)
        /\ cache' = cache \cup {<<call.stage, a[1], a[2]>> : a \in {b \in Answers : b[1] # Ref}}
    BY DEF Receive, CommandOnly, SessionIInv, SessionKinds
  <1>2. /\ Quiet /\ Right(buffer.answers) /\ state = "open" /\ Len(buffer.answers) <= Len(call.ask)
        /\ \A e \in ToSet(call.ask) : KnownNow(e) \/ e \in Given(buffer.answers)
    BY DEF Receive, SessionIInv, Talking
  <1>3. SessionKinds'
    BY <1>1, KindsStay DEF SessionIInv
  <1>4. \A a \in Answers : a[1] \in ToSet(call.ask) /\ a[2] \in held[a[1]]
    BY <1>2 DEF Answers, Right
  <1>5. CacheTrue'
    <2>1. ToSet(call.ask) \subseteq Tree \cup {Ref}
      BY Elements DEF SessionIInv, SessionKinds, Expression
    <2>2. \A hit \in cache' : hit \in cache \/ \E a \in Answers : a[1] # Ref /\ hit = <<call.stage, a[1], a[2]>>
      BY <1>1
    <2>3. QED
      BY <1>1, <1>4, <2>1, <2>2 DEF SessionIInv, CacheTrue
  <1>6. Talking'
    BY <1>1, <1>2 DEF Talking, Quiet, Dry, workerVars
  <1>7. GotTrue'
    <2>1. \A r \in result' : r[1] \in ToSet(call.ask) /\ r[2] \in held[r[1]]
      BY <1>1, <1>4 DEF Hits, SessionIInv, CacheTrue
    <2>2. ASSUME NEW e \in ToSet(call.ask) PROVE \E r \in result' : r[1] = e
      <3>1. CASE KnownNow(e)
        <4>1. PICK hit \in cache : hit[1] = call.stage /\ hit[2] = e
          BY <3>1 DEF KnownNow, Known
        <4>2. <<hit[2], hit[3]>> \in result'
          BY <1>1, <4>1 DEF Hits
        <4>3. <<hit[2], hit[3]>>[1] = e
          BY <4>1
        <4>4. QED
          BY <4>2, <4>3
      <3>2. CASE e \in Given(buffer.answers)
        <4>1. PICK i \in 1..Len(buffer.answers) : e = buffer.answers[i][1]
          BY <3>2 DEF Given
        <4>2. <<buffer.answers[i][1], buffer.answers[i][2]>> \in result'
          BY <1>1 DEF Answers
        <4>3. <<buffer.answers[i][1], buffer.answers[i][2]>>[1] = e
          BY <4>1
        <4>4. QED
          BY <4>2, <4>3
      <3>3. QED
        BY <1>2, <3>1, <3>2
    <2>3. ASSUME call.ask = <<Ref>> PROVE \E v \in held[Ref] : result' = {<<Ref, v>>}
      <3> DEFINE a == buffer.answers
      <3>1. Len(call.ask) = 1 /\ Ref \in ToSet(call.ask) /\ ToSet(call.ask) = {Ref} /\ ~KnownNow(Ref)
        BY <2>3, RefUnknown DEF SessionIInv
      <3>2. Ref \in Given(a) /\ Len(a) \in Nat /\ Len(a) <= 1
        BY <1>2, <3>1, LenProperties DEF SessionIInv, SessionKinds, Buffers
      <3>3. 1..Len(a) = {1}
        BY <3>2 DEF Given
      <3>4. a[1][1] = Ref /\ a[1][2] \in held[Ref]
        BY <1>2, <3>1, <3>3 DEF Right
      <3>5. Answers = {<<Ref, a[1][2]>>}
        BY <3>3, <3>4 DEF Answers
      <3>6. Hits(call.stage, call.ask) = {}
        BY <3>1 DEF Hits, KnownNow, Known
      <3>7. QED
        BY <1>1, <3>4, <3>5, <3>6
    <2>4. QED
      BY <1>1, <2>1, <2>2, <2>3 DEF GotTrue
  <1>8. ListTrue'
    BY <1>1, ListKept DEF SessionIInv
  <1>9. QED
    BY <1>1, <1>3, <1>5, <1>6, <1>7, <1>8 DEF SessionIInv, AnswersTrue, CatalogWhole
(* The session is given up, closed, or read past.                          *)
LEMMA EndsRight ==
    ASSUME SessionIInv, ReceiveFailure \/ TimesOut \/ TimesOutEarly \/ Leave \/ ShutDown
    PROVE  SessionIInv'
  <1>1. /\ UNCHANGED <<kind, repoVars, cache, call, result, held>>
        /\ spc' \in {"shutting", "ordinary", "out"}
    BY DEF ReceiveFailure, TimesOut, TimesOutEarly, Leave, ShutDown, CommandOnly
  <1>2. state' # "open" \/ (state' = "open" /\ FALSE)
    <2>1. CASE ReceiveFailure \/ TimesOut \/ TimesOutEarly \/ Leave
      BY <2>1 DEF ReceiveFailure, TimesOut, TimesOutEarly, Leave
    <2>2. CASE ShutDown
      BY <2>2 DEF ShutDown, SessionIInv, Talking
    <2>3. QED
      BY <2>1, <2>2
  <1>3. Talking'
    BY <1>1, <1>2, TalkEnds
  <1>4. SessionKinds'
    <2>1. CASE ReceiveFailure \/ TimesOut \/ TimesOutEarly \/ Leave
      <3>1. UNCHANGED workerVars
        BY <2>1 DEF ReceiveFailure, TimesOut, TimesOutEarly, Leave
      <3>2. QED
        BY <1>1, <3>1, KindsStay DEF SessionIInv
    <2>2. CASE ShutDown
      <3>1. /\ request' = <<>> /\ buffer' = Empty /\ pending' = <<>> /\ collected' = <<>>
            /\ inpipe' = <<>> /\ outpipe' = <<>>
        BY <2>2 DEF ShutDown, NoRequest
      <3>2. \A S : <<>> \in Seq(S)
        BY EmptySeq
      <3>3. Empty \in Buffers
        BY <3>2 DEF Empty, Buffers
      <3>4. \A e : Held(e)' = Held(e)
        BY <1>1, HeldSame
      <3>5. QED
        BY <1>1, <3>1, <3>2, <3>3, <3>4 DEF SessionIInv, SessionKinds, repoVars
    <2>3. QED
      BY <2>1, <2>2
  <1>5. QED
    BY <1>1, <1>3, <1>4, CacheStays DEF SessionIInv, GotTrue, ListTrue, AnswersTrue, CatalogWhole

(* A process of the command's own sees the repository as it is.            *)
LEMMA OrdinaryRight ==
    ASSUME SessionIInv, Ordinary \/ OrdinaryFails \/ Return
    PROVE  SessionIInv'
  <1>1. /\ UNCHANGED <<kind, repoVars, cache, held, workerVars, state>> /\ kind = "objects"
        /\ spc \in {"ordinary", "back"} /\ spc' \in {"back", "free"}
    BY DEF Ordinary, OrdinaryFails, Return, CommandOnly
  <1>2. Talking' /\ CacheTrue' /\ GotTrue' /\ ListTrue'
    BY <1>1, TalkMoves, CacheStays DEF SessionIInv, GotTrue, ListTrue
  <1>3. CASE Ordinary
    <2>1. /\ spc' = "back" /\ UNCHANGED call
          /\ result' = IF call.op = "list"
                       THEN IF refAt = Missing THEN {} ELSE Catalog(refAt)
                       ELSE {<<e, Held(e)>> : e \in ToSet(call.ask)}
      BY <1>3 DEF Ordinary
    <2>2. SessionKinds'
      BY <1>1, <2>1, KindsStay DEF SessionIInv
    <2>3. ToSet(call.ask) \subseteq Expression /\ refAt \in held[Ref]
      <3>1. ToSet(call.ask) \subseteq Expression
        BY Elements DEF SessionIInv, SessionKinds
      <3>2. Held(Ref) = refAt /\ Held(Ref) \in held[Ref]
        BY HeldIs DEF SessionIInv, SessionKinds, Expression
      <3>3. QED
        BY <3>1, <3>2
    <2>4. ASSUME call.op = "read"
          PROVE  {r[1] : r \in result'} = ToSet(call.ask) /\ \A r \in result' : r[2] \in held[r[1]]
      <3>1. result' = {<<e, Held(e)>> : e \in ToSet(call.ask)}
        BY <2>1, <2>4
      <3>2. \A e : <<e, Held(e)>>[1] = e /\ <<e, Held(e)>>[2] = Held(e)
        OBVIOUS
      <3>3. \A e \in ToSet(call.ask) : Held(e) \in held[e]
        BY <2>3 DEF SessionIInv, SessionKinds
      <3>4. ASSUME NEW r \in result'
            PROVE  r[1] \in ToSet(call.ask) /\ r[2] \in held[r[1]]
        BY <3>1, <3>2, <3>3
      <3>5. ASSUME NEW e \in ToSet(call.ask)
            PROVE  \E r \in result' : r[1] = e
        <4>1. <<e, Held(e)>> \in result' /\ <<e, Held(e)>>[1] = e
          BY <3>1
        <4>2. QED
          BY <4>1
      <3>6. QED
        BY <3>4, <3>5
    <2>5. AnswersTrue'
      BY <1>1, <2>1, <2>4 DEF AnswersTrue
    <2>6. CatalogWhole'
      BY <1>1, <2>1, <2>3 DEF CatalogWhole, Catalog
    <2>7. QED
      BY <1>2, <2>2, <2>5, <2>6 DEF SessionIInv
  <1>4. CASE OrdinaryFails
    <2>1. UNCHANGED call /\ misled' = TRUE
      BY <1>4 DEF OrdinaryFails
    <2>2. SessionKinds'
      BY <1>1, <2>1, KindsStay DEF SessionIInv
    <2>3. QED
      BY <1>2, <2>1, <2>2 DEF SessionIInv, AnswersTrue, CatalogWhole
  <1>5. CASE Return
    <2>1. spc' = "free" /\ call' = NoCall
      BY <1>5 DEF Return
    <2>2. /\ call'.ask \in Seq(Expression) /\ call'.trees \in Nat
          /\ call' = [op |-> call'.op, stage |-> call'.stage, ask |-> call'.ask,
                      sizes |-> call'.sizes, trees |-> call'.trees, notes |-> call'.notes]
      <3>1. <<>> \in Seq(Expression)
        BY EmptySeq
      <3>2. QED
        BY <2>1, <3>1 DEF NoCall
    <2>3. \A e : Held(e)' = Held(e)
      BY <1>1, HeldSame
    <2>4. SessionKinds'
      BY <1>1, <2>2, <2>3 DEF SessionIInv, SessionKinds, repoVars, workerVars
    <2>5. QED
      BY <1>2, <2>1, <2>4 DEF SessionIInv, AnswersTrue, CatalogWhole
  <1>6. QED
    BY <1>3, <1>4, <1>5

LEMMA ReturnsRight ==
    ASSUME SessionIInv, ReadReturns
    PROVE  SessionIInv'
  <1>1. /\ spc = "got" /\ spc' = "back" /\ call.op = "read"
        /\ UNCHANGED <<kind, repoVars, state, cache, workerVars, call, result, held>>
    BY DEF ReadReturns, CommandOnly
  <1>2. SessionKinds' /\ Talking' /\ CacheTrue'
    BY <1>1, KindsStay, TalkMoves, CacheStays DEF SessionIInv
  <1>3. QED
    BY <1>1, <1>2 DEF SessionIInv, GotTrue, ListTrue, AnswersTrue, CatalogWhole

-----------------------------------------------------------------------------
(* A listing, level by level.                                              *)

(* What every step of a listing keeps.                                     *)
LEMMA ListStep ==
    ASSUME SessionIInv, spc = "got", spc' \in {"ask", "back", "ordinary"},
           UNCHANGED <<kind, repoVars, state, cache, workerVars, held, misled>>,
           call'.ask \in Seq(Expression), call'.trees \in Nat, call'.op = "list",
           call' = [op |-> call'.op, stage |-> call'.stage, ask |-> call'.ask,
                    sizes |-> call'.sizes, trees |-> call'.trees, notes |-> call'.notes],
           spc' = "ask" => ListTrue',
           spc' = "back" => \E t \in held[Ref] : result' = IF t = Missing THEN {} ELSE Catalog(t)
    PROVE  SessionIInv'
  <1>1. \A e : Held(e)' = Held(e)
    BY HeldSame
  <1>2. SessionKinds'
    BY <1>1 DEF SessionIInv, SessionKinds, repoVars, workerVars
  <1>3. Talking' /\ CacheTrue'
    BY TalkMoves, CacheStays DEF SessionIInv
  <1>4. ListTrue' /\ GotTrue' /\ AnswersTrue' /\ CatalogWhole'
    BY DEF ListTrue, GotTrue, AnswersTrue, CatalogWhole, Catalog
  <1>5. QED
    BY <1>2, <1>3, <1>4 DEF SessionIInv

(* What was found of the trees asked for is those trees, or a gap.         *)
LEMMA FoundTrue ==
    ASSUME SessionIInv, spc = "got"
    PROVE  /\ call.ask = <<Ref>> => \E v \in held[Ref] : Found = {v}
           /\ ToSet(call.ask) \subseteq Tree /\ Missing \notin Found => Found = ToSet(call.ask)
  <1>1. /\ {r[1] : r \in result} = ToSet(call.ask) /\ \A r \in result : r[2] \in held[r[1]]
        /\ call.ask = <<Ref>> => \E v \in held[Ref] : result = {<<Ref, v>>}
    BY DEF SessionIInv, GotTrue
  <1>2. ASSUME ToSet(call.ask) \subseteq Tree, Missing \notin Found
        PROVE  Found = ToSet(call.ask)
    <2>1. \A r \in result : r[1] \in Tree /\ r[2] \in Found
      BY <1>1, <1>2 DEF Found
    <2>2. \A r \in result : r[2] = r[1]
      BY <1>1, <1>2, <2>1 DEF SessionIInv, SessionKinds
    <2>3. QED
      BY <1>1, <2>2 DEF Found
  <1>3. ASSUME call.ask = <<Ref>> PROVE \E v \in held[Ref] : Found = {v}
    <2>1. PICK v \in held[Ref] : result = {<<Ref, v>>}
      BY <1>1, <1>3
    <2>2. <<Ref, v>>[2] = v
      OBVIOUS
    <2>3. Found = {v}
      BY <2>1, <2>2 DEF Found
    <2>4. QED
      BY <2>3
  <1>4. QED
    BY <1>2, <1>3

(* The trees a listing asks for, as a request.                             *)
LEMMA AsksFor ==
    ASSUME NEW S \in SUBSET Tree
    PROVE  SetToSeq(S) \in Seq(Expression) /\ ToSet(SetToSeq(S)) = S
  <1>1. IsFiniteSet(S)
    BY TreeAssumption, FS_Subset
  <1>2. S \subseteq Expression
    BY DEF Expression
  <1>3. QED
    BY <1>1, <1>2, SequenceOfSet, SeqMonotonic

(* The sizes of a level have come in.                                      *)
LEMMA SizedRight ==
    ASSUME SessionIInv, ListSized
    PROVE  SessionIInv'
  <1> DEFINE sizes == call.sizes + MapThenSumSet(LAMBDA t : Size[t], Found \ {Missing})
  <1>1. /\ spc = "got" /\ call.op = "list" /\ call.stage = "info"
        /\ UNCHANGED <<kind, repoVars, state, cache, workerVars, held, misled>>
        /\ call.ask \in Seq(Expression) /\ call.trees \in Nat
        /\ call = [op |-> call.op, stage |-> call.stage, ask |-> call.ask,
                   sizes |-> call.sizes, trees |-> call.trees, notes |-> call.notes]
    BY DEF ListSized, Go, CommandOnly, SessionIInv, SessionKinds
  <1> HIDE DEF sizes
  <1>2. \/ call' = call /\ spc' = "back" /\ call.trees = 1 /\ Found = {Missing} /\ result' = {}
        \/ call' = call /\ spc' = "ordinary"
        \/ /\ spc' = "ask" /\ Missing \notin Found
           /\ call' = [call EXCEPT !.stage = "contents", !.ask = SetToSeq(Found), !.sizes = sizes]
    BY DEF ListSized, Go, sizes
  <1>3. Starting \/ \E t \in held[Ref] \ {Missing} : \E seen \in SUBSET Tree : Listed(t, seen)
    BY <1>1 DEF SessionIInv, ListTrue
  <1>4. held[Ref] \subseteq Tree \cup {Missing}
    BY DEF SessionIInv, SessionKinds, Expression, Value
  <1>5. CASE call' = call /\ spc' = "back" /\ call.trees = 1 /\ Found = {Missing} /\ result' = {}
    <2>1. Starting
      BY <1>1, <1>3, <1>5 DEF Listed
    <2>2. Missing \in held[Ref]
      BY <1>1, <1>5, <2>1, FoundTrue DEF Starting
    <2>3. QED
      BY <1>1, <1>5, <2>2, ListStep
  <1>6. CASE call' = call /\ spc' = "ordinary"
    BY <1>1, <1>6, ListStep
  <1>7. CASE /\ spc' = "ask" /\ Missing \notin Found
             /\ call' = [call EXCEPT !.stage = "contents", !.ask = SetToSeq(Found), !.sizes = sizes]
    <2>1. \E t \in held[Ref] \ {Missing} : \E seen \in SUBSET Tree :
             /\ seen \subseteq Below(t) /\ Found \subseteq Below(t) /\ t \in seen \cup Found
             /\ \A u \in seen : Parts[u] \subseteq seen \cup Found
             /\ call.notes = UNION {Attached[u] : u \in seen} /\ call.trees >= 1
      <3>1. CASE Starting
        <4>1. PICK v \in held[Ref] : Found = {v}
          BY <1>1, <3>1, FoundTrue DEF Starting
        <4>2. v # Missing /\ v \in Tree
          BY <1>4, <1>7, <4>1
        <4>3. v \in Below(v)
          BY <4>2, BelowTrue
        <4>4. UNION {Attached[u] : u \in {}} = {}
          OBVIOUS
        <4>5. {} \subseteq Below(v) /\ Found \subseteq Below(v) /\ v \in {} \cup Found /\ {} \in SUBSET Tree
          BY <4>1, <4>3
        <4>6. call.notes = UNION {Attached[u] : u \in {}} /\ call.trees >= 1
          BY <3>1, <4>4 DEF Starting
        <4>7. QED
          BY <4>2, <4>5, <4>6
      <3>2. CASE \E t \in held[Ref] \ {Missing} : \E seen \in SUBSET Tree : Listed(t, seen)
        <4>1. PICK t \in held[Ref] \ {Missing}, seen \in SUBSET Tree : Listed(t, seen)
          BY <3>2
        <4>2. ToSet(call.ask) \subseteq Tree
          BY <1>4, <4>1, BelowTrue DEF Listed
        <4>3. Found = ToSet(call.ask)
          BY <1>1, <1>7, <4>2, FoundTrue
        <4>4. QED
          BY <4>1, <4>3 DEF Listed
      <3>3. QED
        BY <1>3, <3>1, <3>2
    <2>2. PICK t \in held[Ref] \ {Missing}, seen \in SUBSET Tree :
             /\ seen \subseteq Below(t) /\ Found \subseteq Below(t) /\ t \in seen \cup Found
             /\ \A u \in seen : Parts[u] \subseteq seen \cup Found
             /\ call.notes = UNION {Attached[u] : u \in seen} /\ call.trees >= 1
      BY <2>1
    <2>3. Found \in SUBSET Tree
      BY <1>4, <2>2, BelowTrue
    <2>4. SetToSeq(Found) \in Seq(Expression) /\ ToSet(SetToSeq(Found)) = Found
      BY <2>3, AsksFor
    <2>5. call' = [op |-> "list", stage |-> "contents", ask |-> SetToSeq(Found), sizes |-> sizes,
                   trees |-> call.trees, notes |-> call.notes]
      BY <1>1, <1>7
    <2>6. /\ call'.op = "list" /\ call'.stage = "contents" /\ call'.ask = SetToSeq(Found)
          /\ call'.trees = call.trees /\ call'.notes = call.notes
          /\ call' = [op |-> call'.op, stage |-> call'.stage, ask |-> call'.ask,
                      sizes |-> call'.sizes, trees |-> call'.trees, notes |-> call'.notes]
      BY <2>5
    <2>7. Listed(t, seen)'
      BY <2>2, <2>4, <2>6 DEF Listed
    <2>8. ListTrue'
      BY <1>1, <2>7 DEF ListTrue
    <2>9. QED
      BY <1>1, <1>7, <2>4, <2>6, <2>8, ListStep
  <1>8. QED
    BY <1>2, <1>5, <1>6, <1>7

(* The trees of a level have been read.                                    *)
LEMMA ReadRight ==
    ASSUME SessionIInv, ListRead
    PROVE  SessionIInv'
  <1> DEFINE here == UNION {Attached[t] : t \in Found}
             next == UNION {Parts[t] : t \in Found}
             notes == call.notes \cup here
             visited == call.trees + Cardinality(next)
  <1>1. /\ spc = "got" /\ call.op = "list" /\ call.stage = "contents"
        /\ UNCHANGED <<kind, repoVars, state, cache, workerVars, held, misled>>
        /\ call.ask \in Seq(Expression) /\ call.trees \in Nat
        /\ call = [op |-> call.op, stage |-> call.stage, ask |-> call.ask,
                   sizes |-> call.sizes, trees |-> call.trees, notes |-> call.notes]
    BY DEF ListRead, Go, CommandOnly, SessionIInv, SessionKinds
  <1>2. \/ call' = call /\ spc' = "ordinary"
        \/ Missing \notin Found /\ next = {} /\ call' = call /\ spc' = "back" /\ result' = notes
        \/ /\ Missing \notin Found /\ next # {} /\ spc' = "ask"
           /\ call' = [call EXCEPT !.stage = "info", !.ask = SetToSeq(next), !.notes = notes, !.trees = visited]
    <2>1. Missing \notin Found => Found \ {Missing} = Found
      OBVIOUS
    <2>2. QED
      BY <2>1 DEF ListRead, Go
  <1>3. PICK t \in held[Ref] \ {Missing}, seen \in SUBSET Tree : Listed(t, seen)
    BY <1>1 DEF SessionIInv, ListTrue, Starting
  <1>4. t \in Tree
    BY <1>3 DEF SessionIInv, SessionKinds, Expression, Value
  <1>5. /\ t \in Below(t) /\ Below(t) \subseteq Tree
        /\ \A u \in Below(t) : Parts[u] \subseteq Below(t)
        /\ \A trees \in SUBSET Tree :
              t \in trees /\ (\A u \in trees : Parts[u] \subseteq trees) => Below(t) \subseteq trees
    BY <1>4, BelowTrue
  <1>6. /\ seen \subseteq Below(t) /\ ToSet(call.ask) \subseteq Below(t) /\ t \in seen \cup ToSet(call.ask)
        /\ \A u \in seen : Parts[u] \subseteq seen \cup ToSet(call.ask)
        /\ call.notes = UNION {Attached[u] : u \in seen} /\ call.trees >= 1
    BY <1>3 DEF Listed
  <1>7. Missing \notin Found => Found = ToSet(call.ask)
    BY <1>1, <1>5, <1>6, FoundTrue
  <1> HIDE DEF here, next
  <1>8. Missing \notin Found => notes = UNION {Attached[u] : u \in seen \cup Found}
    BY <1>6 DEF here
  <1> HIDE DEF notes, visited
  <1>9. CASE call' = call /\ spc' = "ordinary"
    BY <1>1, <1>9, ListStep
  <1>10. CASE Missing \notin Found /\ next = {} /\ call' = call /\ spc' = "back" /\ result' = notes
    <2>1. \A u \in seen \cup Found : Parts[u] \subseteq seen \cup Found
      BY <1>6, <1>7, <1>10 DEF next
    <2>2. Below(t) \subseteq seen \cup Found
      BY <1>5, <1>6, <1>7, <1>10, <2>1
    <2>3. Below(t) = seen \cup Found
      BY <1>6, <1>7, <1>10, <2>2
    <2>4. result' = Catalog(t)
      BY <1>8, <1>10, <2>3 DEF Catalog
    <2>5. QED
      BY <1>1, <1>3, <1>10, <2>4, ListStep
  <1>11. CASE /\ Missing \notin Found /\ next # {} /\ spc' = "ask"
              /\ call' = [call EXCEPT !.stage = "info", !.ask = SetToSeq(next), !.notes = notes, !.trees = visited]
    <2>1. next \subseteq Below(t) /\ next \in SUBSET Tree
      BY <1>5, <1>6, <1>7, <1>11 DEF next
    <2>2. SetToSeq(next) \in Seq(Expression) /\ ToSet(SetToSeq(next)) = next
      BY <2>1, AsksFor
    <2>3. visited \in Nat /\ visited > 1
      <3>1. IsFiniteSet(next)
        BY <2>1, TreeAssumption, FS_Subset
      <3>2. Cardinality(next) \in Nat \ {0}
        BY <1>11, <3>1, FS_CardinalityType, FS_EmptySet
      <3>3. QED
        BY <1>1, <1>6, <3>2 DEF visited
    <2>4. call' = [op |-> "list", stage |-> "info", ask |-> SetToSeq(next), sizes |-> call.sizes,
                   trees |-> visited, notes |-> notes]
      BY <1>1, <1>11
    <2>5. /\ call'.op = "list" /\ call'.stage = "info" /\ call'.ask = SetToSeq(next)
          /\ call'.trees = visited /\ call'.notes = notes
          /\ call' = [op |-> call'.op, stage |-> call'.stage, ask |-> call'.ask,
                      sizes |-> call'.sizes, trees |-> call'.trees, notes |-> call'.notes]
      BY <2>4
    <2>6. PICK trees \in SUBSET Tree : trees = seen \cup Found
      BY <1>5, <1>6, <1>7, <1>11
    <2>7. /\ trees \subseteq Below(t) /\ t \in trees
          /\ \A u \in trees : Parts[u] \subseteq trees \cup next
          /\ notes = UNION {Attached[u] : u \in trees}
      BY <1>6, <1>7, <1>8, <1>11, <2>6 DEF next
    <2>8. Listed(t, trees)'
      BY <1>1, <2>1, <2>2, <2>3, <2>5, <2>7 DEF Listed
    <2>9. ListTrue'
      BY <1>1, <1>3, <2>8 DEF ListTrue
    <2>10. QED
      BY <1>1, <1>11, <2>2, <2>3, <2>5, <2>9, ListStep
  <1>12. QED
    BY <1>2, <1>9, <1>10, <1>11

-----------------------------------------------------------------------------
(* The theorems.                                                           *)

LEMMA SessionStarts == kind = "objects" /\ SessionInit => SessionIInv
  <1> SUFFICES ASSUME kind = "objects", SessionInit PROVE SessionIInv
    OBVIOUS
  <1>1. /\ refAt \in Roots \cup {Missing} /\ present = IF refAt = Missing THEN {} ELSE Below(refAt)
        /\ held = [e \in Expression |-> {Held(e)}] /\ call = NoCall /\ buffer = Empty /\ cache = {}
        /\ request = <<>> /\ pending = <<>> /\ collected = <<>> /\ inpipe = <<>> /\ outpipe = <<>>
        /\ spc = "free"
    BY DEF SessionInit, NoRequest
  <1>2. refAt \in Value /\ present \subseteq Tree
    BY <1>1, TreeAssumption, BelowTrue DEF Value
  <1>3. Held(Ref) = refAt /\ \A t \in Tree : Held(t) \in {t, Missing}
    BY <1>2, HeldIs
  <1>4. \A e \in Expression : Held(e) \in Value
    BY <1>2, <1>3 DEF Expression, Value
  <1>5. /\ held \in [Expression -> SUBSET Value] /\ \A t \in Tree : held[t] \subseteq {t, Missing}
        /\ \A e \in Expression : Held(e) \in held[e]
    BY <1>1, <1>3, <1>4 DEF Expression
  <1>6. \A S : <<>> \in Seq(S)
    BY EmptySeq
  <1>7. buffer \in Buffers
    BY <1>1, <1>6 DEF Empty, Buffers
  <1>8. /\ call.ask \in Seq(Expression) /\ call.trees \in Nat
        /\ call = [op |-> call.op, stage |-> call.stage, ask |-> call.ask,
                   sizes |-> call.sizes, trees |-> call.trees, notes |-> call.notes]
    BY <1>1, <1>6 DEF NoCall
  <1>9. SessionKinds
    BY <1>1, <1>2, <1>5, <1>6, <1>7, <1>8 DEF SessionKinds
  <1>10. Talking
    BY <1>1 DEF Talking, Quiet, Dry
  <1>11. QED
    BY <1>1, <1>9, <1>10 DEF SessionIInv, CacheTrue, GotTrue, ListTrue, AnswersTrue, CatalogWhole

LEMMA SessionStep == SessionIInv /\ [SessionNext]_sessionVars => SessionIInv'
  <1> SUFFICES ASSUME SessionIInv, [SessionNext]_sessionVars PROVE SessionIInv'
    OBVIOUS
  <1>1. CASE UNCHANGED sessionVars
    <2>1. /\ UNCHANGED <<kind, repoVars, held, workerVars, call>> /\ UNCHANGED <<cache, held, state, spc, result, misled>>
      BY <1>1 DEF sessionVars, callVars
    <2>2. SessionKinds' /\ CacheTrue' /\ ListTrue'
      BY <2>1, KindsStay, CacheStays, ListKept DEF SessionIInv
    <2>3. GotTrue' /\ AnswersTrue' /\ CatalogWhole'
      BY <2>1 DEF SessionIInv, GotTrue, AnswersTrue, CatalogWhole
    <2>4. Talking'
      BY <2>1 DEF SessionIInv, Talking, Quiet, Dry, Posted, Gone, Flowing, Right, Given, KnownNow, Known, workerVars
    <2>5. QED
      BY <2>2, <2>3, <2>4 DEF SessionIInv
  <1>2. CASE Machine
    <2>1. SessionKinds' /\ Talking'
      BY <1>2, MachineKinds, MachineTalk DEF SessionIInv
    <2>2. UNCHANGED <<kind, state, cache, spc, call, result, held, misled>>
      BY <1>2, MachineFrame DEF SessionIInv, SessionKinds, callVars
    <2>3. CacheTrue' /\ ListTrue'
      BY <2>2, CacheStays, ListKept DEF SessionIInv
    <2>4. GotTrue' /\ AnswersTrue' /\ CatalogWhole'
      BY <2>2 DEF SessionIInv, GotTrue, AnswersTrue, CatalogWhole
    <2>5. QED
      BY <2>1, <2>3, <2>4 DEF SessionIInv
  <1>3. CASE \/ (\E asked \in Asks : StartRead(asked)) \/ StartList
             \/ \E t \in Roots : Mutate(t) \/ OthersPublish(t)
    BY <1>3, StartsRight, MutatesRight, OthersRight
  <1>4. CASE Ask \/ Receive
    BY <1>4, AsksRight, ReceivesRight
  <1>5. CASE ReceiveFailure \/ TimesOut \/ TimesOutEarly \/ Leave \/ ShutDown
    BY <1>5, EndsRight
  <1>6. CASE Ordinary \/ OrdinaryFails \/ Return
    BY <1>6, OrdinaryRight
  <1>7. CASE ReadReturns \/ ListSized \/ ListRead
    BY <1>7, ReturnsRight, SizedRight, ReadRight
  <1>8. QED
    BY <1>1, <1>2, <1>3, <1>4, <1>5, <1>6, <1>7 DEF SessionNext, CommandGoesOn, Fault, Machine

LEMMA SessionInvariant == SessionSpec => []SessionIInv
  BY SessionStarts, SessionStep, PTL DEF SessionSpec

(* What a read is told is what the repository held while it ran, whatever  *)
(* is cached, pipelined, late, odd or dead (GitObjectSession.request, the  *)
(* worker's parseResponse, queryObjectSession).                            *)
THEOREM AnswersAreTrue == SessionSpec => []AnswersTrue
  BY SessionInvariant, PTL DEF SessionIInv

(* A listing is the whole catalog of one tree the ref was at while it ran, *)
(* or it is left to Git (sessionNoteEntries).                              *)
THEOREM CatalogIsWhole == SessionSpec => []CatalogWhole
  BY SessionInvariant, PTL DEF SessionIInv

-----------------------------------------------------------------------------

(* Forecasts.                                                              *)

USE NatureAssumption, ProgramAssumption, BrokenAssumption

Early == {"start", "merge", "worktree"}
InWorktree == {"steps", "abort", "remove"}
ForecastPlace == Early \cup InWorktree \cup {"root", "prune", "conclude", "over"}

(* Where the temporary worktree is, and how many cleaning steps failed, by *)
(* where the forecast is.                                                  *)
TempTrue ==
    /\ temp \in [known : BOOLEAN, disk : BOOLEAN, picking : BOOLEAN] /\ broken \in Nat
    /\ thrown \in BOOLEAN /\ touched \in BOOLEAN /\ fpc \in ForecastPlace
    /\ fpc \in Early \cup {"conclude"} => temp = NoTemp
    /\ fpc \in Early \cup InWorktree => broken = 0
    /\ fpc \in InWorktree => temp.known /\ temp.disk
    /\ fpc = "root" => temp = NoTemp \/ (temp.known /\ temp.disk /\ broken > 0)
    /\ fpc = "prune" => temp.known /\ ~temp.disk /\ broken > 0
    /\ fpc = "over" => (temp.known => broken > 1) /\ (temp.disk => broken > 0)
    /\ saved # NoForecastYet => fpc = "over" /\ temp = NoTemp

LEMMA TempStart == ForecastInit => TempTrue
  <1> SUFFICES ASSUME ForecastInit PROVE TempTrue
    OBVIOUS
  <1>1. fpc = "start" /\ temp = NoTemp /\ saved = NoForecastYet /\ thrown = FALSE /\ broken = 0
        /\ touched = FALSE
    BY DEF ForecastInit
  <1>2. NoTemp \in [known : BOOLEAN, disk : BOOLEAN, picking : BOOLEAN]
    BY DEF NoTemp
  <1>3. QED
    BY <1>1, <1>2 DEF TempTrue, Early, InWorktree, ForecastPlace

LEMMA TempStep == TempTrue /\ [ForecastNext]_<<sessionVars, forecastVars>> => TempTrue'
  <1> SUFFICES ASSUME TempTrue, [ForecastNext]_<<sessionVars, forecastVars>> PROVE TempTrue'
    OBVIOUS
  <1> USE DEF Early, InWorktree, ForecastPlace, TempTrue
  <1>1. CASE BeginSimulation
    BY <1>1 DEF BeginSimulation
  <1>2. CASE PostMerge
    BY <1>2 DEF PostMerge, forecastVars
  <1>3. CASE MergeAnswered
    BY <1>3 DEF MergeAnswered
  <1>4. CASE MergeUnavailable
    BY <1>4 DEF MergeUnavailable
  <1>5. CASE MergeComplete
    BY <1>5 DEF MergeComplete
  <1>6. CASE AddTemporary
    BY <1>6 DEF AddTemporary, Works, NoTemp
  <1>7. CASE SimulateStep
    BY <1>7 DEF SimulateStep, Works
  <1>8. CASE SimulationEnds
    BY <1>8 DEF SimulationEnds, Works
  <1>9. CASE AbortPick
    BY <1>9 DEF AbortPick, Works
  <1>10. CASE RemoveTemporary
    BY <1>10 DEF RemoveTemporary, Works, NoTemp
  <1>11. CASE RemoveRoot
    <2>1. /\ fpc = "root" /\ UNCHANGED <<saved, broken, thrown>>
          /\ temp' = [temp EXCEPT !.disk = FALSE, !.picking = FALSE]
          /\ fpc' = IF temp.known THEN "prune" ELSE IF thrown THEN "over" ELSE "conclude"
          /\ touched' = touched
      BY <1>11 DEF RemoveRoot, Works, AfterRoot
    <2>2. /\ temp' \in [known : BOOLEAN, disk : BOOLEAN, picking : BOOLEAN]
          /\ temp'.known = temp.known /\ ~temp'.disk
      BY <2>1
    <2>3. temp = NoTemp => temp' = NoTemp /\ ~temp.known
      <3>1. ~NoTemp.known /\ NoTemp.disk = FALSE /\ NoTemp.picking = FALSE
        BY DEF NoTemp
      <3>2. QED
        BY <2>1, <3>1
    <2>4. QED
      BY <2>1, <2>2, <2>3
  <1>12. CASE PruneTemporary
    BY <1>12 DEF PruneTemporary, Works, NoTemp
  <1>13. CASE Conclude
    <2>1. /\ fpc = "conclude" /\ fpc' = "over" /\ temp' = temp /\ broken' = broken
          /\ thrown' = touched /\ touched' = touched
      BY <1>13 DEF Conclude
    <2>2. ~NoTemp.known /\ ~NoTemp.disk
      BY DEF NoTemp
    <2>3. QED
      BY <2>1, <2>2
  <1>14. CASE MachineStep \/ UNCHANGED <<sessionVars, forecastVars>>
    BY <1>14 DEF MachineStep, forecastVars
  <1>15. CASE AddFails
    BY <1>15 DEF AddFails
  <1>16. CASE SimulationThrows
    BY <1>16 DEF SimulationThrows
  <1>17. CASE RemoveFails
    BY <1>17 DEF RemoveFails, CleaningFails
  <1>18. CASE RootFails
    BY <1>18 DEF RootFails, CleaningFails, NoTemp
  <1>19. CASE PruneFails
    BY <1>19 DEF PruneFails, CleaningFails
  <1>20. CASE Touch
    BY <1>20 DEF Touch
  <1>21. QED
    BY <1>1, <1>2, <1>3, <1>4, <1>5, <1>6, <1>7, <1>8, <1>9, <1>10, <1>11, <1>12, <1>13, <1>14, <1>15, <1>16,
       <1>17, <1>18, <1>19, <1>20
    DEF ForecastNext, ForecastStep

(* A forecast leaves no temporary worktree behind but what a second        *)
(* failing command kept it from removing, and a stored one nothing at all. *)
THEOREM ForecastsCleanUp == ForecastSpec => []CleansUp
  <1>1. TempTrue => CleansUp
    BY DEF TempTrue, CleansUp
  <1>2. QED
    BY <1>1, TempStart, TempStep, PTL DEF ForecastSpec
-----------------------------------------------------------------------------
(* What a program comes to, step by step.                                  *)

OutcomeBody(steps, start, f, n) ==
    [i \in 0..n |-> IF i = 0 THEN start
                    ELSE IF f[i - 1].status = "complete" THEN Stepped(f[i - 1], steps[i]) ELSE f[i - 1]]
Outcome(steps, start) == CHOOSE f : f = OutcomeBody(steps, start, f, Len(steps))

LEMMA OutcomeExists ==
    ASSUME NEW steps, NEW start, Len(steps) \in Nat
    PROVE  Outcome(steps, start) = OutcomeBody(steps, start, Outcome(steps, start), Len(steps))
  <1> DEFINE Bad == {n \in Nat : ~ \E f : f = OutcomeBody(steps, start, f, n)}
  <1>1. Bad = {}
    <2>1. SUFFICES ASSUME Bad # {} PROVE FALSE
      OBVIOUS
    <2>2. PICK k \in Bad : \A j \in Bad : k <= j
      BY <2>1, LeastMember
    <2>3. CASE k = 0
      <3>1. [i \in 0..0 |-> start] = OutcomeBody(steps, start, [i \in 0..0 |-> start], 0)
        BY DEF OutcomeBody
      <3>2. QED
        BY <2>2, <2>3, <3>1
    <2>4. CASE k # 0
      <3>1. k - 1 \in Nat /\ k - 1 \notin Bad
        BY <2>2, <2>4
      <3>2. PICK g : g = OutcomeBody(steps, start, g, k - 1)
        BY <3>1
      <3> DEFINE f == [i \in 0..k |-> IF i < k THEN g[i]
                                      ELSE IF g[k - 1].status = "complete" THEN Stepped(g[k - 1], steps[k])
                                      ELSE g[k - 1]]
      <3>3. \A i \in 0..(k - 1) :
               g[i] = IF i = 0 THEN start
                      ELSE IF g[i - 1].status = "complete" THEN Stepped(g[i - 1], steps[i]) ELSE g[i - 1]
        BY <3>1, <3>2 DEF OutcomeBody
      <3>4. \A i \in 0..k :
               f[i] = IF i = 0 THEN start
                      ELSE IF f[i - 1].status = "complete" THEN Stepped(f[i - 1], steps[i]) ELSE f[i - 1]
        BY <2>2, <2>4, <3>3
      <3>5. f = OutcomeBody(steps, start, f, k)
        BY <3>4 DEF OutcomeBody
      <3>6. QED
        BY <2>2, <3>5
    <2>5. QED
      BY <2>3, <2>4
  <1>2. \E f : f = OutcomeBody(steps, start, f, Len(steps))
    BY <1>1
  <1>3. QED
    BY <1>2, Zenon DEF Outcome

LEMMA OutcomeGrows ==
    ASSUME NEW steps, NEW start, Len(steps) \in Nat
    PROVE  /\ Outcome(steps, start)[0] = start
           /\ \A i \in 1..Len(steps) :
                 Outcome(steps, start)[i] =
                     IF Outcome(steps, start)[i - 1].status = "complete"
                     THEN Stepped(Outcome(steps, start)[i - 1], steps[i]) ELSE Outcome(steps, start)[i - 1]
  <1> DEFINE f == Outcome(steps, start)
  <1>1. f = OutcomeBody(steps, start, f, Len(steps))
    BY OutcomeExists
  <1> HIDE DEF f
  <1>2. \A i \in 0..Len(steps) :
           f[i] = IF i = 0 THEN start
                  ELSE IF f[i - 1].status = "complete" THEN Stepped(f[i - 1], steps[i]) ELSE f[i - 1]
    BY <1>1 DEF OutcomeBody
  <1>3. f[0] = start
    BY <1>2
  <1>4. \A i \in 1..Len(steps) :
           f[i] = IF f[i - 1].status = "complete" THEN Stepped(f[i - 1], steps[i]) ELSE f[i - 1]
    BY <1>2
  <1>5. QED
    BY <1>3, <1>4 DEF f

(* Once a step has not applied, the rest is not looked at.                 *)
LEMMA OutcomeStops ==
    ASSUME NEW steps, NEW start, Len(steps) \in Nat, NEW k \in 0..Len(steps),
           Outcome(steps, start)[k].status # "complete"
    PROVE  Outcome(steps, start)[Len(steps)] = Outcome(steps, start)[k]
  <1> DEFINE f == Outcome(steps, start)
             Bad == {n \in k..Len(steps) : f[n] # f[k]}
  <1>1. \A i \in 1..Len(steps) :
           f[i] = IF f[i - 1].status = "complete" THEN Stepped(f[i - 1], steps[i]) ELSE f[i - 1]
    BY OutcomeGrows
  <1> HIDE DEF f
  <1>2. f[k].status # "complete"
    BY DEF f
  <1>3. Bad = {}
    <2>1. SUFFICES ASSUME Bad # {} PROVE FALSE
      OBVIOUS
    <2>2. PICK n \in Bad : \A j \in Bad : n <= j
      <3>1. Bad \in SUBSET Nat
        OBVIOUS
      <3> HIDE DEF Bad
      <3>2. QED
        BY <2>1, <3>1, LeastMember
    <2>3. n # k /\ n \in 1..Len(steps) /\ n - 1 \in k..Len(steps) /\ ~(n <= n - 1)
      OBVIOUS
    <2>4. f[n - 1] = f[k]
      BY <2>2, <2>3
    <2>5. f[n] = f[n - 1]
      BY <1>1, <1>2, <2>3, <2>4
    <2>6. QED
      BY <2>4, <2>5
  <1>4. QED
    BY <1>3 DEF f

LEMMA SimulatedIsOutcome == Simulated = Outcome(program, Fresh)[Len(program)]
  BY Zenon DEF Simulated, Outcome, OutcomeBody
-----------------------------------------------------------------------------
(* One merge at a time: its answer is the answer to what was asked, or the *)
(* session has failed and is not asked again.                              *)

Reading == {"ask", "waiting", "got"}
Engaged == {"free"} \cup Reading
MergeAnswer == <<<<call.ask[1], Merged(call.ask[1])>>>>

MergePaired ==
    /\ kind = "merge"
    /\ spc \in Reading => /\ fpc = "merge" /\ Next1 <= Len(program) /\ call.ask = <<MergeStep(Next1)>>
    /\ spc \in Engaged => /\ state = "open"
                          /\ version = "pending" => inpipe = <<>> /\ outpipe = <<>>
                          /\ pending = <<>> /\ gitp # "noticed" => inpipe = <<>> /\ outpipe = <<>>
    /\ spc \in {"free", "ask", "got"} => request = <<>> /\ pending = <<>>
    /\ spc = "waiting" /\ buffer.written =>
          /\ request = <<>> /\ pending = <<>>
          /\ buffer.ok => buffer.answers = MergeAnswer
    /\ spc = "waiting" /\ ~buffer.written =>
          \/ request = call.ask /\ pending = <<>>
          \/ /\ request = <<>> /\ pending = call.ask /\ collected = <<>>
             /\ \/ inpipe = <<>> /\ outpipe \in {<<>>, <<Odd>>, <<Merged(call.ask[1])>>}
                \/ inpipe = call.ask /\ outpipe = <<>>
    /\ spc = "got" => result = {MergeAnswer[1]}

LEMMA PairedStart == ForecastInit => MergePaired
  BY DEF ForecastInit, SessionInit, MergePaired, Reading, Engaged, NoRequest

LEMMA RemoveOnly ==
    ASSUME NEW x
    PROVE  RemoveAt(<<x>>, 1) = <<>>
  <1>1. SubSeq(<<x>>, 1, 0) = <<>> /\ SubSeq(<<x>>, 2, 1) = <<>>
    BY SubSeqProperties
  <1>2. QED
    BY <1>1 DEF RemoveAt

(* The session, while the forecast waits or does something else.           *)
LEMMA PairedMachine ==
    ASSUME MergePaired, MachineStep
    PROVE  MergePaired'
  <1> USE DEF Reading, Engaged, repoVars, countVars, callVars
  <1>0. UNCHANGED <<program, fpc, sim>> /\ MergeStep(Next1)' = MergeStep(Next1) /\ Next1' = Next1
    BY DEF MachineStep, forecastVars, MergeStep, Next1
  <1>1. CASE Ask
    <2>1. /\ spc = "ask" /\ UNCHANGED <<kind, state, call, version, pending, inpipe, outpipe>>
          /\ call.ask = <<MergeStep(Next1)>> /\ call.ask # <<>> /\ state = "open"
      BY <1>1 DEF Ask, CommandOnly, MergePaired, workerVars
    <2>2. /\ request' = call.ask /\ buffer' = Empty /\ spc' = "waiting"
          /\ gitp' = (IF gitp = "none" THEN "running" ELSE gitp)
      BY <1>1, <2>1 DEF Ask, MergePaired
    <2>3. ~buffer'.written
      BY <2>2 DEF Empty
    <2>4. QED
      BY <1>0, <2>1, <2>2, <2>3 DEF MergePaired
  <1>2. CASE Receive
    <2>1. /\ spc = "waiting" /\ buffer.written /\ buffer.ok /\ spc' = "got"
          /\ UNCHANGED <<kind, state, workerVars, call>> /\ result' = Answers
      BY <1>2 DEF Receive, CommandOnly, MergePaired
    <2>2. buffer.answers = MergeAnswer
      BY <2>1 DEF MergePaired
    <2>3. Answers = {MergeAnswer[1]}
      BY <2>2 DEF Answers, MergeAnswer
    <2>4. MergeAnswer' = MergeAnswer
      BY <2>1 DEF MergeAnswer, Merged, Conflict
    <2>5. QED
      BY <1>0, <2>1, <2>3, <2>4 DEF MergePaired, workerVars
  <1>3. CASE ReceiveFailure \/ TimesOut \/ TimesOutEarly
    BY <1>3 DEF ReceiveFailure, TimesOut, TimesOutEarly, CommandOnly, MergePaired
  <1>4. CASE ShutDown
    BY <1>4 DEF ShutDown, CommandOnly, MergePaired
  <1>5. CASE GitFails \/ GitEnds
    BY <1>0, <1>5 DEF GitFails, GitEnds, GitOnly, MergePaired, MergeAnswer, Merged, Conflict, Odd
  <1>6. CASE KillHung
    BY <1>6 DEF KillHung, WorkerOnly, MergePaired
  <1>7. CASE GitAnswers \/ GitAnswersOddly
    <2>1. /\ gitp = "running" /\ inpipe # <<>> /\ inpipe' = Tail(inpipe)
          /\ outpipe' = Append(outpipe, Answer(Head(inpipe))) \/ outpipe' = Append(outpipe, Odd)
          /\ UNCHANGED <<kind, state, spc, call, result, version, request, buffer, pending, collected, gitp>>
      BY <1>7 DEF GitAnswers, GitAnswersOddly, GitOnly
    <2>2. CASE spc \in Engaged
      <3>1. spc = "waiting" /\ ~buffer.written /\ pending = call.ask /\ inpipe = call.ask /\ outpipe = <<>>
            /\ version # "pending" /\ request = <<>> /\ collected = <<>>
        BY <2>1, <2>2 DEF MergePaired
      <3>2. call.ask = <<MergeStep(Next1)>>
        BY <3>1 DEF MergePaired
      <3>3. inpipe' = <<>> /\ Head(inpipe) = call.ask[1] /\ pending # <<>>
        BY <2>1, <3>1, <3>2
      <3>4. outpipe' \in {<<Odd>>, <<Merged(call.ask[1])>>}
        BY <2>1, <3>1, <3>3 DEF Answer, MergePaired
      <3>5. Odd' = Odd /\ Merged(call.ask[1])' = Merged(call.ask[1])
        BY <2>1 DEF Odd, Merged, Conflict
      <3>6. QED
        BY <1>0, <2>1, <3>1, <3>2, <3>3, <3>4, <3>5 DEF MergePaired
    <2>3. QED
      BY <1>0, <2>1, <2>2 DEF MergePaired
  <1>8. CASE TakeRequest \/ ObserveVersion \/ VersionUnknown \/ ParseResponse \/ NoticeExit
    <2>0. UNCHANGED <<kind, state, spc, call, result>>
      BY <1>8 DEF TakeRequest, ObserveVersion, VersionUnknown, ParseResponse, NoticeExit, WorkerOnly
    <2>1. CASE spc \in Engaged
      <3>1. Odd' = Odd /\ Merged(call.ask[1])' = Merged(call.ask[1]) /\ MergeAnswer' = MergeAnswer
        BY <2>0 DEF Odd, Merged, Conflict, MergeAnswer
      <3>2. spc \in Reading => call.ask = <<MergeStep(Next1)>> /\ call.ask # <<>> /\ Len(call.ask) = 1
        <4>1. spc \in Reading => call.ask = <<MergeStep(Next1)>>
          BY DEF MergePaired
        <4>2. \A x : <<x>> # <<>> /\ Len(<<x>>) = 1
          OBVIOUS
        <4>3. QED
          BY <4>1, <4>2
      <3>3. CASE TakeRequest
        <4>1. /\ spc = "waiting" /\ ~buffer.written /\ request = call.ask /\ pending = <<>> /\ request' = <<>>
              /\ UNCHANGED <<gitp, version, outpipe>>
          BY <2>1, <3>2, <3>3 DEF TakeRequest, MergePaired, NoRequest
        <4>2. CASE buffer' = Failure /\ UNCHANGED <<pending, inpipe, collected>>
          BY <1>0, <2>0, <3>1, <3>2, <4>1, <4>2 DEF MergePaired, Failure
        <4>3. CASE /\ gitp # "noticed" /\ pending' = pending \o request /\ collected' = <<>> /\ buffer' = buffer
                   /\ inpipe' = IF kind = "objects" \/ Writable THEN inpipe \o request ELSE inpipe
          <5>1. inpipe = <<>> /\ outpipe = <<>>
            BY <2>1, <4>1, <4>3 DEF MergePaired
          <5>2. <<>> \o call.ask = call.ask
            BY <3>2, <4>1
          <5>3. pending' = call.ask /\ (version = "pending" => inpipe' = <<>>) /\ inpipe' \in {<<>>, call.ask}
            BY <4>1, <4>3, <5>1, <5>2 DEF Writable, MergePaired
          <5>4. QED
            BY <1>0, <2>0, <3>1, <3>2, <4>1, <4>3, <5>1, <5>3 DEF MergePaired
        <4>4. QED
          BY <3>3, <4>1, <4>2, <4>3 DEF TakeRequest, Respond, MergePaired
      <3>4. CASE ObserveVersion \/ VersionUnknown
        <4>1. /\ version = "pending" /\ version' # "pending" /\ inpipe = <<>> /\ outpipe = <<>> /\ gitp # "noticed"
              /\ UNCHANGED <<gitp, request, collected, outpipe>>
          BY <2>1, <3>4 DEF ObserveVersion, VersionUnknown, MergePaired
        <4>2. CASE pending' = <<>> /\ inpipe' = inpipe
                   /\ (pending = <<>> => buffer' = buffer) /\ (pending # <<>> => Respond(Failure))
          BY <1>0, <2>0, <2>1, <3>1, <3>2, <4>1, <4>2 DEF MergePaired, Respond, Failure
        <4>3. CASE inpipe' = pending /\ UNCHANGED <<pending, buffer>>
          BY <1>0, <2>0, <2>1, <3>1, <3>2, <4>1, <4>3 DEF MergePaired
        <4>4. QED
          BY <3>4, <4>2, <4>3 DEF ObserveVersion, VersionUnknown
      <3>5. CASE ParseResponse
        <4>1. /\ spc = "waiting" /\ ~buffer.written /\ pending = call.ask /\ collected = <<>> /\ request = <<>>
              /\ inpipe = <<>> /\ outpipe # <<>> /\ outpipe \in {<<Odd>>, <<Merged(call.ask[1])>>}
              /\ version # "pending"
          BY <2>1, <3>2, <3>5 DEF ParseResponse, MergePaired
        <4>2. /\ Head(outpipe) \in {Odd, Merged(call.ask[1])} /\ Tail(outpipe) = <<>>
              /\ RemoveAt(pending, 1) = <<>> /\ pending[1] = call.ask[1] /\ Len(pending) = 1
          <5>1. Head(outpipe) \in {Odd, Merged(call.ask[1])} /\ Tail(outpipe) = <<>>
            <6>1. \A x : Head(<<x>>) = x /\ Tail(<<x>>) = <<>>
              OBVIOUS
            <6>2. QED
              BY <4>1, <6>1
          <5>2. RemoveAt(pending, 1) = <<>> /\ pending[1] = call.ask[1] /\ Len(pending) = 1
            BY <3>2, <4>1, RemoveOnly
          <5>3. QED
            BY <5>1, <5>2
        <4>3. /\ pending' = <<>> /\ outpipe' = <<>> /\ UNCHANGED <<gitp, version, request, inpipe>>
              /\ \/ Respond(Failure)
                 \/ /\ Head(outpipe) # Odd
                    /\ Respond([ok |-> TRUE, written |-> TRUE,
                                answers |-> Append(collected, <<pending[1], Head(outpipe)>>)])
          BY <3>5, <4>2 DEF ParseResponse, Oldest, MergePaired
        <4>4. Append(collected, <<pending[1], Merged(call.ask[1])>>) = MergeAnswer
          BY <4>1, <4>2 DEF MergeAnswer
        <4>5. buffer'.written /\ (buffer'.ok => buffer'.answers = MergeAnswer)
          BY <4>1, <4>2, <4>3, <4>4 DEF Respond, Failure
        <4>6. QED
          BY <1>0, <2>0, <3>1, <3>2, <4>1, <4>3, <4>5 DEF MergePaired
      <3>6. CASE NoticeExit
        <4>1. /\ gitp' = "noticed" /\ pending' = <<>> /\ UNCHANGED <<version, request, inpipe, outpipe>>
              /\ IF pending = <<>> THEN UNCHANGED buffer ELSE Respond(Failure)
          BY <3>6 DEF NoticeExit
        <4>2. QED
          BY <1>0, <2>0, <2>1, <3>1, <3>2, <4>1 DEF MergePaired, Respond, Failure
      <3>7. QED
        BY <1>8, <3>3, <3>4, <3>5, <3>6
    <2>2. QED
      BY <1>0, <2>0, <2>1 DEF MergePaired
  <1>9. QED
    BY <1>1, <1>2, <1>3, <1>4, <1>5, <1>6, <1>7, <1>8 DEF MachineStep, WorkerStep, GitStep, Fault
(* The forecast itself, which talks to the session only to post a merge.   *)
LEMMA PairedForecast ==
    ASSUME MergePaired, ForecastStep \/ AddFails \/ SimulationThrows \/ RemoveFails \/ RootFails
           \/ PruneFails \/ Touch \/ UNCHANGED <<sessionVars, forecastVars>>
    PROVE  MergePaired'
  <1> USE DEF Reading, Engaged
  <1>1. CASE PostMerge
    <2>1. /\ fpc = "merge" /\ spc = "free" /\ Next1 <= Len(program) /\ spc' = "ask"
          /\ UNCHANGED <<kind, state, workerVars, program, fpc, sim>>
          /\ call' = [NoCall EXCEPT !.op = "merge", !.ask = <<MergeStep(Next1)>>]
      BY <1>1 DEF PostMerge, SessionOnly, forecastVars
    <2>2. call'.ask = <<MergeStep(Next1)>>
      BY <2>1 DEF NoCall
    <2>3. MergeStep(Next1)' = MergeStep(Next1) /\ Next1' = Next1
      BY <2>1 DEF MergeStep, Next1
    <2>4. QED
      BY <2>1, <2>2, <2>3 DEF MergePaired, workerVars
  <1>2. CASE MergeAnswered \/ MergeUnavailable \/ MergeComplete
    <2>1. /\ UNCHANGED <<kind, workerVars>>
          /\ spc' \in {"shutting", "out"} \/ (spc = "got" /\ spc' = "free" /\ state' = state)
      BY <1>2 DEF MergeAnswered, MergeUnavailable, MergeComplete, CloseSession, SessionOnly
    <2>2. QED
      BY <2>1 DEF MergePaired, workerVars
  <1>3. CASE /\ UNCHANGED <<kind, state, spc, workerVars>>
             /\ spc \notin Reading \/ UNCHANGED <<program, fpc, sim, call, result>>
    <2>1. CASE spc \notin Reading
      BY <1>3, <2>1 DEF MergePaired, workerVars
    <2>2. CASE UNCHANGED <<program, fpc, sim, call, result>>
      <3>1. MergeStep(Next1)' = MergeStep(Next1) /\ Next1' = Next1
        BY <2>2 DEF MergeStep, Next1
      <3>2. MergeAnswer' = MergeAnswer
        BY <1>3, <2>2 DEF MergeAnswer, Merged, Conflict
      <3>3. Odd' = Odd /\ Merged(call.ask[1])' = Merged(call.ask[1])
        BY <1>3, <2>2 DEF Odd, Merged, Conflict
      <3>4. QED
        BY <1>3, <2>2, <3>1, <3>2, <3>3 DEF MergePaired, workerVars
    <2>3. QED
      BY <1>3, <2>1, <2>2
  <1>4. CASE BeginSimulation
    BY <1>3, <1>4 DEF BeginSimulation, OwnOnly, sessionVars, callVars, MergePaired
  <1>5. CASE AddTemporary \/ SimulateStep \/ SimulationEnds \/ AbortPick \/ RemoveTemporary \/ RemoveRoot
             \/ PruneTemporary
    <2>1. Works
      BY <1>5 DEF AddTemporary, SimulateStep, SimulationEnds, AbortPick, RemoveTemporary, RemoveRoot, PruneTemporary
    <2>2. QED
      BY <1>3, <2>1 DEF Works, Settled, OwnOnly, sessionVars, callVars
  <1>6. CASE Conclude \/ RemoveFails \/ RootFails \/ PruneFails
    <2>1. Settled /\ UNCHANGED sessionVars
      BY <1>6 DEF Conclude, OwnOnly, RemoveFails, RootFails, PruneFails, CleaningFails
    <2>2. QED
      BY <1>3, <2>1 DEF Settled, sessionVars, callVars
  <1>7. CASE AddFails \/ SimulationThrows
    <2>1. Settled /\ UNCHANGED <<kind, state, workerVars, callVars>>
      BY <1>7 DEF AddFails, SimulationThrows
    <2>2. QED
      BY <1>3, <2>1 DEF Settled, callVars
  <1>8. CASE Touch \/ UNCHANGED <<sessionVars, forecastVars>>
    BY <1>3, <1>8 DEF Touch, sessionVars, forecastVars, callVars
  <1>9. QED
    BY <1>1, <1>2, <1>4, <1>5, <1>6, <1>7, <1>8 DEF ForecastStep
-----------------------------------------------------------------------------
(* What the simulation found so far is what the program comes to so far,   *)
(* whichever engine found it.                                              *)

Said == {"complete", "pauses-for-content", "blocked", "exact-resolution", "clean"}
Finding == [steps : Seq(Change \X Said), tree : SUBSET (Change \cup {"other"}), status : Said]
Reached == Outcome(program, Fresh)

SimTrue ==
    /\ program \in Seq(Step) /\ target \subseteq Change
    /\ sim \in Finding /\ Len(sim.steps) \in 0..Len(program)
    /\ fpc \in {"start", "worktree"} => sim = Fresh
    /\ fpc = "merge" => Simulable(program) /\ sim.status = "complete"
    /\ fpc \in {"merge", "steps"} => sim = Reached[Len(sim.steps)]
    /\ fpc \in {"abort", "remove", "root", "prune"} => thrown \/ sim = Reached[Len(program)]
    /\ fpc = "conclude" => sim = Reached[Len(program)]
    /\ saved # NoForecastYet =>
          [steps |-> saved.steps, tree |-> saved.tree, status |-> saved.status] = Reached[Len(program)]

LEMMA FreshFinding ==
    ASSUME target \subseteq Change
    PROVE  Fresh \in Finding /\ Len(Fresh.steps) = 0 /\ Fresh.status = "complete"
  <1>1. <<>> \in Seq(Change \X Said) /\ Len(<<>>) = 0
    OBVIOUS
  <1>2. QED
    BY <1>1 DEF Fresh, Finding, Said

LEMMA SteppedFinding ==
    ASSUME NEW found \in Finding, NEW step \in Step
    PROVE  Stepped(found, step) \in Finding /\ Len(Stepped(found, step).steps) = Len(found.steps) + 1
  <1>1. Effect(step, found.tree) \in
           {"pauses-for-content", "blocked", "exact-resolution", "clean"} /\ step.of \in Change
    BY Zenon DEF Effect, Step
  <1>2. /\ Append(found.steps, <<step.of, Effect(step, found.tree)>>) \in Seq(Change \X Said)
        /\ Len(Append(found.steps, <<step.of, Effect(step, found.tree)>>)) = Len(found.steps) + 1
    BY <1>1 DEF Finding, Said
  <1>3. QED
    BY <1>1, <1>2 DEF Stepped, Finding, Said

(* A plainly clean merge of a program the session may simulate is the step *)
(* the worktree would take.                                                *)
LEMMA CleanStep ==
    ASSUME program \in Seq(Step), Simulable(program), NEW i \in 1..Len(program),
           Merged(MergeStep(i)) # Conflict, Merged(MergeStep(i)) # sim.tree
    PROVE  Stepped(sim, program[i]) =
               [steps |-> Append(sim.steps, <<program[i].of, "clean">>), tree |-> Merged(MergeStep(i)),
                status |-> "complete"]
  <1> DEFINE c == program[i].of
  <1>1. program[i] \in Step /\ program[i].action = "replay" /\ Nature[c] # "merge"
    BY DEF Simulable
  <1>2. ~ \E k \in 1..(i - 1) : Nature[program[k].of] = "attributes"
    BY DEF Simulable
  <1>3. MergeStep(i) = <<sim.tree, c, Nature[c] \in {"clean", "attributes"}>>
    BY <1>2 DEF MergeStep
  <1>4. Nature[c] \in {"clean", "attributes"} /\ Merged(MergeStep(i)) = sim.tree \cup {c}
    <2>1. Merged(<<sim.tree, c, TRUE>>) = sim.tree \cup {c} /\ Merged(<<sim.tree, c, FALSE>>) = Conflict
      BY DEF Merged
    <2>2. CASE Nature[c] \in {"clean", "attributes"}
      <3>1. MergeStep(i) = <<sim.tree, c, TRUE>>
        BY <1>3, <2>2
      <3>2. QED
        BY <2>1, <2>2, <3>1
    <2>3. CASE Nature[c] \notin {"clean", "attributes"}
      <3>1. MergeStep(i) = <<sim.tree, c, FALSE>>
        <4>1. (Nature[c] \in {"clean", "attributes"}) = FALSE
          BY <2>3
        <4>2. QED
          BY <1>3, <4>1, Zenon
      <3>2. QED
        BY <2>1, <3>1
    <2>4. QED
      BY <2>2, <2>3
  <1>5. c \notin sim.tree
    BY <1>4
  <1>6. Effect(program[i], sim.tree) = "clean"
    <2>1. /\ program[i].action # "edit" /\ Nature[c] # "conflict" /\ Nature[c] # "resolved"
          /\ Nature[c] # "merge" /\ c \notin sim.tree
      BY <1>1, <1>4, <1>5
    <2>2. QED
      BY <2>1, Zenon DEF Effect
  <1>7. QED
    BY <1>4, <1>6 DEF Stepped

LEMMA SimStart == ForecastInit => SimTrue
  <1> SUFFICES ASSUME ForecastInit PROVE SimTrue
    OBVIOUS
  <1>1. program \in Seq(Step) /\ target \subseteq Change /\ fpc = "start" /\ sim = Fresh /\ saved = NoForecastYet
    BY DEF ForecastInit
  <1>2. Len(program) \in Nat
    BY <1>1
  <1>3. QED
    BY <1>1, <1>2, FreshFinding DEF SimTrue
(* Where the forecast is done with the simulation, or not there yet.       *)
LEMMA SimKept ==
    ASSUME SimTrue, UNCHANGED <<program, target, sim, saved>>,
           fpc' \in {"start", "worktree"} => fpc \in {"start", "worktree"},
           fpc' = "merge" => fpc = "merge" \/ (fpc = "start" /\ Simulable(program)),
           fpc' = "steps" => fpc \in {"steps", "worktree"},
           fpc' \in {"abort", "remove", "root", "prune"} =>
               \/ thrown' = TRUE
               \/ fpc \in {"abort", "remove", "root", "prune"} /\ thrown' = thrown
               \/ fpc = "steps" /\ (sim.status # "complete" \/ Next1 > Len(program)),
           fpc' = "conclude" =>
               \/ fpc = "conclude"
               \/ fpc \in {"root", "prune"} /\ ~thrown
               \/ fpc = "merge" /\ Next1 > Len(program)
    PROVE  SimTrue'
  <1>1. /\ Len(program) \in Nat /\ Fresh' = Fresh /\ Reached' = Reached
        /\ (Simulable(program))' = Simulable(program)
    BY DEF SimTrue, Fresh, Reached, Simulable
  <1>2. Fresh \in Finding /\ Len(Fresh.steps) = 0 /\ Fresh.status = "complete" /\ Reached[0] = Fresh
    BY <1>1, FreshFinding, OutcomeGrows DEF SimTrue, Reached
  <1>3. Next1 > Len(program) /\ fpc \in {"merge", "steps"} => sim = Reached[Len(program)]
    BY <1>1 DEF SimTrue, Next1
  <1>4. fpc = "steps" /\ sim.status # "complete" => sim = Reached[Len(program)]
    BY <1>1, OutcomeStops DEF SimTrue, Reached
  <1>5. /\ sim \in Finding /\ Len(sim.steps) \in 0..Len(program) /\ program \in Seq(Step) /\ target \subseteq Change
        /\ saved # NoForecastYet =>
              [steps |-> saved.steps, tree |-> saved.tree, status |-> saved.status] = Reached[Len(program)]
    BY DEF SimTrue
  <1>6. /\ fpc' \in {"start", "worktree"} => sim = Fresh
        /\ fpc' = "merge" => Simulable(program) /\ sim.status = "complete"
        /\ fpc' \in {"merge", "steps"} => sim = Reached[Len(sim.steps)]
    BY <1>2 DEF SimTrue
  <1>7. /\ fpc' \in {"abort", "remove", "root", "prune"} => thrown' \/ sim = Reached[Len(program)]
        /\ fpc' = "conclude" => sim = Reached[Len(program)]
    BY <1>3, <1>4 DEF SimTrue
  <1>8. QED
    BY <1>1, <1>5, <1>6, <1>7 DEF SimTrue

LEMMA SimStep ==
    ASSUME SimTrue, MergePaired, TempTrue, [ForecastNext]_<<sessionVars, forecastVars>>
    PROVE  SimTrue'
  <1>0. Len(program) \in Nat
    BY DEF SimTrue
  <1>1. CASE BeginSimulation
    BY <1>1, SimKept DEF BeginSimulation
  <1>2. CASE PostMerge \/ MachineStep \/ UNCHANGED <<sessionVars, forecastVars>>
    <2>1. UNCHANGED forecastVars
      BY <1>2 DEF PostMerge, MachineStep
    <2>2. QED
      BY <2>1, SimKept DEF forecastVars
  <1>3. CASE MergeAnswered
    <2>1. /\ fpc = "merge" /\ spc = "got" /\ UNCHANGED <<program, target, saved, thrown>>
      BY <1>3 DEF MergeAnswered
    <2>2. Fresh' = Fresh /\ Reached' = Reached /\ (Simulable(program))' = Simulable(program)
      BY <2>1 DEF Fresh, Reached, Simulable
    <2>3. Fresh \in Finding /\ Len(Fresh.steps) = 0 /\ Fresh.status = "complete"
      BY FreshFinding DEF SimTrue
    <2>4. CASE CleanAnswer
      <3>1. /\ fpc' = fpc
            /\ sim' = [steps |-> Append(sim.steps, <<program[Next1].of, "clean">>),
                       tree |-> Tree1, status |-> "complete"]
        BY <1>3, <2>4 DEF MergeAnswered
      <3>2. Next1 \in 1..Len(program) /\ call.ask[1] = MergeStep(Next1) /\ result = {MergeAnswer[1]}
        BY <2>1 DEF MergePaired, Reading, SimTrue, Next1
      <3>3. Tree1 = Merged(MergeStep(Next1))
        <4>1. (CHOOSE r \in result : TRUE) = MergeAnswer[1]
          BY <3>2
        <4>2. MergeAnswer[1][2] = Merged(call.ask[1])
          BY DEF MergeAnswer
        <4>3. QED
          BY <3>2, <4>1, <4>2 DEF Tree1
      <3>4. sim' = Stepped(sim, program[Next1])
        BY <2>1, <2>4, <3>1, <3>2, <3>3, CleanStep DEF CleanAnswer, SimTrue
      <3>5. /\ sim = Reached[Len(sim.steps)] /\ sim.status = "complete" /\ sim \in Finding /\ program[Next1] \in Step
            /\ Next1 - 1 = Len(sim.steps) /\ Simulable(program)
        BY <2>1, <3>2 DEF SimTrue, Next1
      <3>6. sim' = Reached[Next1]
        BY <1>0, <3>2, <3>4, <3>5, OutcomeGrows DEF Reached
      <3>7. sim' \in Finding /\ Len(sim'.steps) = Next1 /\ sim'.status = "complete"
        <4>1. sim'.status = "complete"
          BY <3>1
        <4>2. Stepped(sim, program[Next1]) \in Finding /\ Len(Stepped(sim, program[Next1]).steps) = Len(sim.steps) + 1
          BY <3>5, SteppedFinding
        <4>3. QED
          BY <3>4, <4>1, <4>2 DEF Next1
      <3>8. QED
        <4>1. sim' = Reached'[Len(sim'.steps)] /\ Len(sim'.steps) \in 0..Len(program)
          BY <1>0, <2>2, <3>2, <3>6, <3>7
        <4>2. fpc' = "merge"
          BY <2>1, <3>1
        <4>3. QED
          BY <2>1, <2>2, <3>5, <3>7, <4>1, <4>2 DEF SimTrue
    <2>5. CASE ~CleanAnswer
      <3>1. fpc' = "worktree" /\ sim' = Fresh
        BY <1>3, <2>5 DEF MergeAnswered
      <3>2. QED
        BY <1>0, <2>1, <2>2, <2>3, <3>1 DEF SimTrue
    <2>6. QED
      BY <2>4, <2>5
  <1>4. CASE MergeUnavailable
    <2>1. /\ fpc' = "worktree" /\ sim' = Fresh /\ UNCHANGED <<program, target, saved, thrown>>
      BY <1>4 DEF MergeUnavailable
    <2>2. Fresh' = Fresh /\ Reached' = Reached
      BY <2>1 DEF Fresh, Reached
    <2>3. Fresh \in Finding /\ Len(Fresh.steps) = 0
      BY FreshFinding DEF SimTrue
    <2>4. QED
      BY <1>0, <2>1, <2>2, <2>3 DEF SimTrue
  <1>5. CASE MergeComplete
    BY <1>5, SimKept DEF MergeComplete
  <1>6. CASE AddTemporary \/ AddFails
    BY <1>6, SimKept DEF AddTemporary, AddFails, Works
  <1>7. CASE SimulateStep
    <2>1. /\ fpc = "steps" /\ fpc' = "steps" /\ sim.status = "complete" /\ Next1 <= Len(program)
          /\ sim' = Stepped(sim, program[Next1]) /\ UNCHANGED <<program, target, saved, thrown>>
      BY <1>7 DEF SimulateStep, Works
    <2>2. Fresh' = Fresh /\ Reached' = Reached
      BY <2>1 DEF Fresh, Reached
    <2>3. /\ sim = Reached[Len(sim.steps)] /\ sim \in Finding /\ program[Next1] \in Step
          /\ Next1 - 1 = Len(sim.steps) /\ Next1 \in 1..Len(program)
      BY <2>1 DEF SimTrue, Next1
    <2>4. sim' = Reached[Next1]
      BY <1>0, <2>1, <2>3, OutcomeGrows DEF Reached
    <2>5. sim' \in Finding /\ Len(sim'.steps) = Next1
      BY <2>1, <2>3, SteppedFinding DEF Next1
    <2>6. QED
      BY <2>1, <2>2, <2>3, <2>4, <2>5 DEF SimTrue
  <1>8. CASE SimulationEnds
    BY <1>8, SimKept DEF SimulationEnds, Works
  <1>9. CASE SimulationThrows
    BY <1>9, SimKept DEF SimulationThrows
  <1>10. CASE AbortPick \/ RemoveTemporary
    BY <1>10, SimKept DEF AbortPick, RemoveTemporary, Works
  <1>11. CASE RemoveRoot
    <2>1. AfterRoot \in {"prune", "over", "conclude"} /\ (AfterRoot = "conclude" => ~thrown)
      BY Zenon DEF AfterRoot
    <2>2. QED
      BY <1>11, <2>1, SimKept DEF RemoveRoot, Works
  <1>12. CASE PruneTemporary
    BY <1>12, SimKept DEF PruneTemporary, Works
  <1>13. CASE RemoveFails \/ RootFails \/ PruneFails
    BY <1>13, SimKept DEF RemoveFails, RootFails, PruneFails, CleaningFails
  <1>14. CASE Touch
    BY <1>14, SimKept DEF Touch
  <1>15. CASE Conclude
    <2>1. /\ fpc = "conclude" /\ fpc' = "over" /\ UNCHANGED <<program, target, sim>>
          /\ \/ saved' = saved
             \/ saved' = [engine |-> engine, steps |-> sim.steps, tree |-> sim.tree, status |-> sim.status]
      BY <1>15 DEF Conclude
    <2>2. Fresh' = Fresh /\ Reached' = Reached
      BY <2>1 DEF Fresh, Reached
    <2>3. sim = [steps |-> sim.steps, tree |-> sim.tree, status |-> sim.status]
      BY DEF SimTrue, Finding
    <2>4. saved' = saved \/ [steps |-> saved'.steps, tree |-> saved'.tree, status |-> saved'.status] = sim
      BY <2>1, <2>3
    <2>5. sim = Reached[Len(program)]
      BY <2>1 DEF SimTrue
    <2>6. QED
      BY <1>0, <2>1, <2>2, <2>4, <2>5 DEF SimTrue
  <1>16. QED
    BY <1>1, <1>2, <1>3, <1>4, <1>5, <1>6, <1>7, <1>8, <1>9, <1>10, <1>11, <1>12, <1>13, <1>14, <1>15
    DEF ForecastNext, ForecastStep

(* Whichever engine answered, and whatever became of its session, a stored *)
(* forecast says what the worktree simulator would say of the program.     *)
THEOREM EnginesSayTheSame == ForecastSpec => []EnginesAgree
  <1> DEFINE Inv == TempTrue /\ MergePaired /\ SimTrue
  <1>1. ForecastInit => Inv
    BY TempStart, PairedStart, SimStart
  <1>2. Inv /\ [ForecastNext]_<<sessionVars, forecastVars>> => Inv'
    <2> SUFFICES ASSUME Inv, [ForecastNext]_<<sessionVars, forecastVars>> PROVE Inv'
      OBVIOUS
    <2>1. TempTrue'
      BY TempStep
    <2>2. MergePaired'
      BY PairedMachine, PairedForecast DEF ForecastNext
    <2>3. SimTrue'
      BY SimStep
    <2>4. QED
      BY <2>1, <2>2, <2>3
  <1>3. Inv => EnginesAgree
    BY SimulatedIsOutcome DEF SimTrue, Reached, EnginesAgree
  <1>4. QED
    BY <1>1, <1>2, <1>3, PTL DEF ForecastSpec
=============================================================================
