--------------------------- MODULE RetrievalProofs ---------------------------
(***************************************************************************)
(* Theorems about Loaders, Chunking (C) and ReviewSearch (S), for any      *)
(* threads, reviews, settings, index and queries, stated where the run     *)
(* checks them: each part of the suite behaves, seen alone, as its own     *)
(* specification.                                                          *)
(***************************************************************************)
EXTENDS MCRetrieval, SequenceTheorems, FiniteSetTheorems, WellFoundedInduction, TLAPS

LEMMA LoadersPart == SuiteSpec => Spec
  <1>1. InitSuite => Init
    BY DEF InitSuite
  <1>2. [NextSuite]_<<part, vars, chunkVars, searchVars>> => [Next]_vars
    BY DEF NextSuite
  <1> QED BY <1>1, <1>2, PTL DEF SuiteSpec, Spec

LEMMA ChunkingPart == SuiteSpec => C!Spec
  <1>1. InitSuite => C!Init
    BY DEF InitSuite
  <1>2. [NextSuite]_<<part, vars, chunkVars, searchVars>> => [C!Next]_C!vars
    BY DEF NextSuite, chunkVars, C!vars
  <1> QED BY <1>1, <1>2, PTL DEF SuiteSpec, C!Spec

LEMMA SearchPart == SuiteSpec => S!Spec
  <1>1. InitSuite => S!Init
    BY DEF InitSuite
  <1>2. [NextSuite]_<<part, vars, chunkVars, searchVars>> => [S!Next]_S!vars
    BY DEF NextSuite, searchVars, S!vars
  <1> QED BY <1>1, <1>2, PTL DEF SuiteSpec, S!Spec

-----------------------------------------------------------------------------
(* Least and greatest numbers.  What holds for every length is shown by     *)
(* taking the least one for which it does not.                              *)

LEMMA Least ==
  ASSUME NEW T \in SUBSET Nat, T # {}
  PROVE  \E n \in T : \A m \in T : n <= m
  <1>1. PICK n \in T : \A m \in T : ~(<<m, n>> \in OpToRel(<, Nat))
    BY NatLessThanWellFounded, WFMin
  <1>2. \A m \in T : ~(m < n)
    BY <1>1 DEF OpToRel
  <1> QED BY <1>2

LEMMA Greatest ==
  ASSUME NEW T \in SUBSET Nat, T # {}, NEW k \in Nat, \A m \in T : m <= k
  PROVE  \E n \in T : \A m \in T : n >= m
  <1> DEFINE U == {k - m : m \in T}
  <1>1. U \in SUBSET Nat /\ U # {}
    <2>1. PICK m \in T : TRUE
      OBVIOUS
    <2>2. k - m \in U
      OBVIOUS
    <2>3. \A u \in U : u \in Nat
      OBVIOUS
    <2> QED BY <2>2, <2>3
  <1>2. PICK u \in U : \A m \in U : u <= m
    BY <1>1, Least
  <1>3. PICK n \in T : u = k - n
    OBVIOUS
  <1>4. \A m \in T : k - n <= k - m
    BY <1>2, <1>3
  <1> QED BY <1>4

\* A property of the numbers up to a bound that holds at 0 and passes from each
\* to the next, given as the set of the numbers that have it.
LEMMA UpTo ==
  ASSUME NEW n \in Nat, NEW T, 0 \in T, \A k \in 1..n : k - 1 \in T => k \in T
  PROVE  0..n \subseteq T
  <1> DEFINE U == {k \in 0..n : k \notin T}
  <1> SUFFICES ASSUME U # {} PROVE FALSE
    OBVIOUS
  <1>1. U \in SUBSET Nat
    OBVIOUS
  <1>2. PICK k \in U : \A m \in U : k <= m
    BY <1>1, Least
  <1>3. k \in 1..n /\ k - 1 \in 0..n
    OBVIOUS
  <1>4. k - 1 \in T
    BY <1>2, <1>3
  <1> QED BY <1>3, <1>4

-----------------------------------------------------------------------------
(* Folds.  A fold over a sequence of n elements is a function on the subsets *)
(* of 1..n, of which only the initial segments matter.                      *)

Largest(q) == CHOOSE x \in q : \A y \in q : x >= y

LEMMA LargestOf ==
  ASSUME NEW n \in Nat, NEW q \in SUBSET (1..n), q # {}
  PROVE  Largest(q) \in q /\ \A y \in q : Largest(q) >= y
  <1>1. q \in SUBSET Nat /\ \A m \in q : m <= n
    OBVIOUS
  <1>2. \E x \in q : \A y \in q : x >= y
    BY <1>1, Greatest
  <1> QED BY <1>2 DEF Largest

LEMMA LargestOfSegment ==
  ASSUME NEW k \in Nat \ {0}
  PROVE  Largest(1..k) = k /\ (1..k) \ {Largest(1..k)} = 1..(k - 1) /\ 1..k # {}
  <1>1. k \in Nat /\ 1..k \in SUBSET (1..k) /\ k \in 1..k /\ 1..k # {}
    OBVIOUS
  <1>2. Largest(1..k) \in 1..k /\ \A y \in 1..k : Largest(1..k) >= y
    BY <1>1, LargestOf
  <1>3. Largest(1..k) = k
    BY <1>1, <1>2
  <1>4. (1..k) \ {k} = 1..(k - 1)
    OBVIOUS
  <1> QED BY <1>1, <1>3, <1>4

\* it is the fold, on the subsets of 1..n, of an operation on R.
IsFold(it, R, base, n, op) ==
  /\ it \in [SUBSET (1..n) -> R]
  /\ \A q \in SUBSET (1..n) :
       it[q] = IF q = {} THEN base ELSE op[<<it[q \ {Largest(q)}], Largest(q)>>]

LEMMA FoldExists ==
  ASSUME NEW R, NEW base \in R, NEW n \in Nat, NEW op \in [R \X (1..n) -> R]
  PROVE  \E it : IsFold(it, R, base, n, op)
  <1> DEFINE T == {k \in 0..n : \E it : IsFold(it, R, base, k, op)}
  <1>1. 0 \in T
    <2>1. SUBSET (1..0) = {{}}
      OBVIOUS
    <2>2. IsFold([q \in SUBSET (1..0) |-> base], R, base, 0, op)
      BY <2>1 DEF IsFold
    <2> QED BY <2>2
  <1>2. ASSUME NEW k \in 1..n, k - 1 \in T PROVE k \in T
    <2>1. PICK it : IsFold(it, R, base, k - 1, op)
      BY <1>2
    <2> k \in Nat
      OBVIOUS
    <2> DEFINE more == [q \in SUBSET (1..k) |->
                          IF k \in q THEN op[<<it[q \ {k}], k>>] ELSE it[q]]
    <2>2. \A q \in SUBSET (1..k) : k \notin q => q \in SUBSET (1..(k - 1))
      OBVIOUS
    <2>3. \A q \in SUBSET (1..k) : q \ {k} \in SUBSET (1..(k - 1))
      OBVIOUS
    <2>4. more \in [SUBSET (1..k) -> R]
      BY <2>1, <2>2, <2>3 DEF IsFold
    <2>5. ASSUME NEW q \in SUBSET (1..k)
          PROVE  more[q] = IF q = {} THEN base ELSE op[<<more[q \ {Largest(q)}], Largest(q)>>]
      <3>1. CASE k \in q
        <4>1. Largest(q) \in q /\ \A y \in q : Largest(q) >= y
          <5>1. q # {}
            BY <3>1
          <5> HIDE DEF more, T
          <5> QED BY <5>1, LargestOf
        <4>2. Largest(q) = k
          <5>1. Largest(q) \in 1..k /\ Largest(q) >= k
            BY <3>1, <4>1
          <5> QED BY <5>1
        <4>3. more[q \ {k}] = it[q \ {k}]
          BY <2>3
        <4> QED BY <3>1, <4>2, <4>3
      <3>2. CASE k \notin q
        <4>1. q \in SUBSET (1..(k - 1)) /\ more[q] = it[q]
          BY <2>2, <3>2
        <4>2. more[q \ {Largest(q)}] = it[q \ {Largest(q)}]
          BY <3>2
        <4> QED BY <2>1, <4>1, <4>2 DEF IsFold
      <3> QED BY <3>1, <3>2
    <2>6. IsFold(more, R, base, k, op)
      <3> HIDE DEF more
      <3> QED BY <2>4, <2>5 DEF IsFold
    <2> QED BY <2>6
  <1>3. n \in T
    <2> HIDE DEF T
    <2>1. 0..n \subseteq T
      BY <1>1, <1>2, UpTo
    <2> QED BY <2>1
  <1> QED BY <1>3

\* it does what the operation says, as long as it stays in R.
Follows(it, R, base, n, op) ==
  /\ it[{}] = base
  /\ \A q \in SUBSET (1..n) :
       q # {} /\ it[q \ {Largest(q)}] \in R => it[q] = op[<<it[q \ {Largest(q)}], Largest(q)>>]

\* F is what it passes through on the way to last, segment by segment.
Passes(F, last, R, base, n, op) ==
  /\ F \in [0..n -> R] /\ F[0] = base /\ F[n] = last
  /\ \A k \in 1..n : F[k] = op[<<F[k - 1], k>>]

LEMMA FoldSteps ==
  ASSUME NEW R, NEW base \in R, NEW n \in Nat, NEW op \in [R \X (1..n) -> R], NEW it,
         Follows(it, R, base, n, op)
  PROVE  \E F : Passes(F, it[1..n], R, base, n, op)
  <1> DEFINE F == [k \in 0..n |-> it[1..k]]
             T == {k \in 0..n : F[k] \in R}
  <1>1. F[0] = base
    <2>1. 1..0 = {}
      OBVIOUS
    <2> QED BY <2>1 DEF Follows
  <1>2. ASSUME NEW k \in 1..n, F[k - 1] \in R PROVE F[k] = op[<<F[k - 1], k>>]
    <2>1. 1..k \in SUBSET (1..n)
      OBVIOUS
    <2>2. k \in Nat \ {0}
      OBVIOUS
    <2>3. Largest(1..k) = k /\ (1..k) \ {Largest(1..k)} = 1..(k - 1) /\ 1..k # {}
      BY <2>2, LargestOfSegment
    <2>4. F[k] = it[1..k] /\ F[k - 1] = it[1..(k - 1)]
      OBVIOUS
    <2>5. it[1..k] = op[<<it[(1..k) \ {Largest(1..k)}], Largest(1..k)>>]
      BY <1>2, <2>1, <2>3, <2>4 DEF Follows
    <2> QED BY <2>3, <2>4, <2>5
  <1> F[n] = it[1..n]
    OBVIOUS
  <1> HIDE DEF F
  <1>3. 0..n \subseteq T
    <2>1. 0 \in T
      BY <1>1
    <2>2. ASSUME NEW k \in 1..n, k - 1 \in T PROVE k \in T
      <3>1. F[k] = op[<<F[k - 1], k>>] /\ F[k - 1] \in R
        BY <1>2, <2>2
      <3> QED BY <3>1
    <2> HIDE DEF T
    <2> QED BY <2>1, <2>2, UpTo
  <1>4. F \in [0..n -> R]
    BY <1>3 DEF F
  <1>5. \A k \in 1..n : F[k] = op[<<F[k - 1], k>>]
    BY <1>2, <1>3
  <1> QED BY <1>1, <1>4, <1>5 DEF Passes

LEMMA AsSeq ==
  ASSUME NEW X, NEW n \in Nat, NEW f \in [1..n -> X]
  PROVE  f \in Seq(X) /\ Len(f) = n /\ DOMAIN f = 1..n
  <1>1. f \in Seq(X)
    BY SeqDef
  <1> QED BY <1>1

\* The elements after place a up to place b.
LEMMA PartOf ==
  ASSUME NEW X, NEW s \in Seq(X), NEW a \in 0..Len(s), NEW b \in 0..Len(s), a <= b
  PROVE  /\ SubSeq(s, a + 1, b) \in Seq(X) /\ Len(SubSeq(s, a + 1, b)) = b - a
         /\ \A i \in 1..(b - a) : SubSeq(s, a + 1, b)[i] = s[a + i] /\ s[a + i] \in X
  <1> DEFINE q == SubSeq(s, a + 1, b)
  <1>1. Len(s) \in Nat /\ a \in Nat /\ b \in Nat
    BY LenProperties
  <1>2. \A i \in (a + 1)..b : s[i] \in X
    BY <1>1, ElementOfSeq
  <1>3. q \in Seq(X)
    BY <1>1, <1>2, SubSeqProperties
  <1>4. Len(q) = IF a + 1 <= b THEN b - (a + 1) + 1 ELSE 0
    BY <1>1, <1>2, SubSeqProperties
  <1>5. \A i \in 1..(b - (a + 1) + 1) : q[i] = s[(a + 1) + i - 1]
    BY <1>1, <1>2, SubSeqProperties
  <1> HIDE DEF q
  <1>6. Len(q) = b - a
    BY <1>1, <1>4
  <1>7. ASSUME NEW i \in 1..(b - a) PROVE q[i] = s[a + i] /\ s[a + i] \in X
    <2>1. i \in 1..(b - (a + 1) + 1) /\ (a + 1) + i - 1 = a + i /\ a + i \in (a + 1)..b
      BY <1>1
    <2> QED BY <1>2, <1>5, <2>1
  <1> QED BY <1>3, <1>6, <1>7 DEF q

-----------------------------------------------------------------------------
(* Runs of consecutive numbers.                                             *)

\* The numbers after a up to b.
Run(a, b) == [i \in 1..(b - a) |-> a + i]

LEMMA RunIs ==
  ASSUME NEW a \in Nat, NEW b \in Nat, a <= b
  PROVE  /\ Run(a, b) \in Seq(Nat) /\ Len(Run(a, b)) = b - a
         /\ DOMAIN Run(a, b) = 1..(b - a)
         /\ \A i \in 1..(b - a) : Run(a, b)[i] = a + i
  <1>1. b - a \in Nat
    OBVIOUS
  <1>2. Run(a, b) \in [1..(b - a) -> Nat]
    BY DEF Run
  <1>3. Run(a, b) \in Seq(Nat)
    BY <1>1, <1>2, SeqDef
  <1> QED BY <1>1, <1>2, <1>3 DEF Run

LEMMA RunOfOne ==
  ASSUME NEW a \in Nat
  PROVE  Run(a, a) = <<>> /\ Run(a, a + 1) = <<a + 1>>
  <1>1. a + 1 \in Nat /\ a <= a + 1 /\ a <= a /\ (a + 1) - a = 1 /\ a - a = 0
    OBVIOUS
  <1>2. Run(a, a) \in Seq(Nat) /\ Len(Run(a, a)) = 0
    BY <1>1, RunIs
  <1>3. Run(a, a) = <<>>
    BY <1>2, EmptySeq
  <1>4. Run(a, a + 1) \in Seq(Nat) /\ Len(Run(a, a + 1)) = 1 /\ Run(a, a + 1)[1] = a + 1
    <2> DEFINE b == a + 1
    <2>1. b \in Nat /\ a <= b /\ b - a = 1 /\ 1 \in 1..(b - a)
      OBVIOUS
    <2> HIDE DEF b, Run
    <2>2. Run(a, b) \in Seq(Nat) /\ Len(Run(a, b)) = b - a /\ Run(a, b)[1] = a + 1
      BY <2>1, RunIs
    <2> QED BY <2>1, <2>2 DEF b
  <1>5. <<a + 1>> \in Seq(Nat) /\ Len(<<a + 1>>) = 1 /\ <<a + 1>>[1] = a + 1
    BY <1>1
  <1>6. \A i \in 1..1 : Run(a, a + 1)[i] = <<a + 1>>[i]
    BY <1>4, <1>5
  <1> HIDE DEF Run
  <1> QED BY <1>3, <1>4, <1>5, <1>6, SeqEqual

LEMMA RunJoin ==
  ASSUME NEW a \in Nat, NEW d \in Nat, NEW b \in Nat, a <= d, d <= b
  PROVE  Run(a, d) \o Run(d, b) = Run(a, b)
  <1>1. /\ Run(a, d) \in Seq(Nat) /\ Run(d, b) \in Seq(Nat) /\ Run(a, b) \in Seq(Nat)
        /\ Len(Run(a, d)) = d - a /\ Len(Run(d, b)) = b - d /\ Len(Run(a, b)) = b - a
        /\ \A i \in 1..(d - a) : Run(a, d)[i] = a + i
        /\ \A i \in 1..(b - d) : Run(d, b)[i] = d + i
        /\ \A i \in 1..(b - a) : Run(a, b)[i] = a + i
    <2>1. a <= b
      OBVIOUS
    <2> HIDE DEF Run
    <2>2. /\ Run(a, d) \in Seq(Nat) /\ Len(Run(a, d)) = d - a
          /\ \A i \in 1..(d - a) : Run(a, d)[i] = a + i
      BY RunIs
    <2>3. /\ Run(d, b) \in Seq(Nat) /\ Len(Run(d, b)) = b - d
          /\ \A i \in 1..(b - d) : Run(d, b)[i] = d + i
      BY RunIs
    <2>4. /\ Run(a, b) \in Seq(Nat) /\ Len(Run(a, b)) = b - a
          /\ \A i \in 1..(b - a) : Run(a, b)[i] = a + i
      BY <2>1, RunIs
    <2> QED BY <2>2, <2>3, <2>4
  <1> DEFINE both == Run(a, d) \o Run(d, b)
  <1>2. /\ both \in Seq(Nat) /\ Len(both) = Len(Run(a, d)) + Len(Run(d, b))
        /\ \A i \in 1..(Len(Run(a, d)) + Len(Run(d, b))) :
             both[i] = IF i <= Len(Run(a, d)) THEN Run(a, d)[i]
                       ELSE Run(d, b)[i - Len(Run(a, d))]
    BY <1>1, ConcatProperties
  <1> HIDE DEF both
  <1>3. Len(both) = b - a
    BY <1>1, <1>2
  <1>4. ASSUME NEW i \in 1..(b - a) PROVE both[i] = Run(a, b)[i]
    <2>1. Run(a, b)[i] = a + i
      BY <1>1
    <2>2. CASE i <= d - a
      <3>1. i \in 1..(d - a)
        BY <2>2
      <3> QED BY <1>1, <1>2, <2>1, <2>2, <3>1
    <2>3. CASE ~(i <= d - a)
      <3>1. i - (d - a) \in 1..(b - d)
        BY <2>3
      <3>2. both[i] = Run(d, b)[i - (d - a)]
        BY <1>1, <1>2, <2>3
      <3>3. both[i] = d + (i - (d - a))
        BY <1>1, <3>1, <3>2
      <3> QED BY <2>1, <3>3
    <2> QED BY <2>2, <2>3
  <1>5. both = Run(a, b)
    BY <1>1, <1>2, <1>3, <1>4, SeqEqual
  <1> QED BY <1>5 DEF both

LEMMA RunPart ==
  ASSUME NEW a \in Nat, NEW b \in Nat, NEW m \in Nat, NEW k \in Nat, m <= k, a + k <= b
  PROVE  SubSeq(Run(a, b), m + 1, k) = Run(a + m, a + k)
  <1> DEFINE piece == SubSeq(Run(a, b), m + 1, k)
  <1>1. \A i \in (m + 1)..k : Run(a, b)[i] = a + i /\ a + i \in Nat
    BY RunIs
  <1>2. /\ piece \in Seq(Nat)
        /\ Len(piece) = IF m + 1 <= k THEN k - (m + 1) + 1 ELSE 0
        /\ \A i \in 1..(k - (m + 1) + 1) : piece[i] = Run(a, b)[(m + 1) + i - 1]
    <2>1. \A i \in (m + 1)..k : Run(a, b)[i] \in Nat
      BY <1>1
    <2> HIDE DEF Run
    <2> QED BY <2>1, SubSeqProperties, SMT
  <1> HIDE DEF piece
  <1>3. Len(piece) = k - m
    BY <1>2
  <1>4. \A i \in 1..(k - m) : piece[i] = a + m + i
    BY <1>1, <1>2
  <1>5. /\ Run(a + m, a + k) \in Seq(Nat) /\ Len(Run(a + m, a + k)) = k - m
        /\ \A i \in 1..(k - m) : Run(a + m, a + k)[i] = a + m + i
    <2>1. a + m \in Nat /\ a + k \in Nat /\ a + m <= a + k /\ (a + k) - (a + m) = k - m
      OBVIOUS
    <2> QED BY <2>1, RunIs
  <1>6. piece = Run(a + m, a + k)
    BY <1>2, <1>3, <1>4, <1>5, SeqEqual
  <1> QED BY <1>6 DEF piece

-----------------------------------------------------------------------------
(* Chains: texts cut into pieces that leave nothing out.                    *)

\* The pieces p are the runs between the cuts c, which go from a to b; no
\* piece is empty and none is longer than m.
Cuts(c, p, a, b, m) ==
  /\ c \in [0..Len(p) -> a..b] /\ c[0] = a /\ c[Len(p)] = b
  /\ \A k \in 1..Len(p) :
       c[k - 1] < c[k] /\ c[k] - c[k - 1] <= m /\ p[k] = Run(c[k - 1], c[k])

Chain(p, a, b, m) ==
  /\ p \in Seq(Seq(Nat)) /\ a \in Nat /\ b \in Nat /\ m \in Nat
  /\ \E c : Cuts(c, p, a, b, m)

LEMMA CutsRise ==
  ASSUME NEW p \in Seq(Seq(Nat)), NEW a \in Nat, NEW b \in Nat, NEW m \in Nat, NEW c,
         Cuts(c, p, a, b, m), NEW i \in 0..Len(p), NEW j \in 0..Len(p), i <= j
  PROVE  c[i] <= c[j] /\ c[i] \in Nat /\ c[j] \in Nat
  <1>0. \A k \in 0..Len(p) : c[k] \in Nat
    <2>1. \A k \in 0..Len(p) : c[k] \in a..b
      BY DEF Cuts
    <2> QED BY <2>1
  <1> DEFINE n == Len(p) - i
             T == {k \in 0..n : c[i] <= c[i + k]}
  <1>1. Len(p) \in Nat /\ n \in Nat /\ j - i \in 0..n
    BY LenProperties
  <1>2. \A k \in 0..Len(p) : c[k] \in Nat
    BY <1>0
  <1>3. 0 \in T
    BY <1>1, <1>2
  <1>4. ASSUME NEW k \in 1..n, k - 1 \in T PROVE k \in T
    <2>1. i + k \in 1..Len(p) /\ i + (k - 1) = (i + k) - 1
      BY <1>1
    <2>2. c[(i + k) - 1] < c[i + k]
      BY <2>1 DEF Cuts
    <2>3. c[i] <= c[(i + k) - 1]
      BY <1>4, <2>1
    <2>4. c[i] \in Nat /\ c[i + k] \in Nat /\ c[(i + k) - 1] \in Nat
      BY <1>1, <1>2
    <2> QED BY <2>2, <2>3, <2>4
  <1>5. 0..n \subseteq T
    <2> HIDE DEF T, n
    <2> QED BY <1>1, <1>3, <1>4, UpTo
  <1>6. c[i] <= c[i + (j - i)] /\ i + (j - i) = j
    <2>1. i + (j - i) = j
      BY <1>1
    <2>2. j - i \in T
      BY <1>1, <1>5
    <2> QED BY <2>1, <2>2
  <1> QED BY <1>2, <1>6

LEMMA ChainEnds ==
  ASSUME NEW p, NEW a, NEW b, NEW m, Chain(p, a, b, m)
  PROVE  /\ p \in Seq(Seq(Nat)) /\ a \in Nat /\ b \in Nat /\ m \in Nat /\ a <= b
         /\ a < b => p # <<>>
         /\ \A k \in 1..Len(p) : Len(p[k]) > 0 /\ Len(p[k]) <= m /\ Len(p[k]) <= b - a
         /\ \A k \in 1..Len(p) : p[k] \in Seq((a + 1)..b)
  <1>1. p \in Seq(Seq(Nat)) /\ a \in Nat /\ b \in Nat /\ m \in Nat /\ Len(p) \in Nat
    BY LenProperties DEF Chain
  <1>2. PICK c : Cuts(c, p, a, b, m)
    BY DEF Chain
  <1>3. c[0] = a /\ c[Len(p)] = b /\ a <= b
    BY <1>1, <1>2 DEF Cuts
  <1>4. p = <<>> => a = b
    BY <1>3
  <1>5. ASSUME NEW k \in 1..Len(p)
        PROVE  /\ Len(p[k]) > 0 /\ Len(p[k]) <= m /\ Len(p[k]) <= b - a
               /\ p[k] \in Seq((a + 1)..b)
    <2>1. /\ c[k - 1] < c[k] /\ c[k] - c[k - 1] <= m /\ p[k] = Run(c[k - 1], c[k])
          /\ c[k - 1] \in a..b /\ c[k] \in a..b
      <3>1. k - 1 \in 0..Len(p) /\ k \in 0..Len(p)
        BY <1>1
      <3>2. c \in [0..Len(p) -> a..b]
        BY <1>2 DEF Cuts
      <3>3. c[k - 1] < c[k] /\ c[k] - c[k - 1] <= m /\ p[k] = Run(c[k - 1], c[k])
        BY <1>2 DEF Cuts
      <3> QED BY <3>1, <3>2, <3>3
    <2>2. c[k - 1] \in Nat /\ c[k] \in Nat /\ c[k - 1] <= c[k]
      BY <1>1, <2>1
    <2>3. Len(p[k]) = c[k] - c[k - 1]
      BY <2>1, <2>2, RunIs
    <2>4. c[k] - c[k - 1] \in Nat /\ \A i \in 1..(c[k] - c[k - 1]) : c[k - 1] + i \in (a + 1)..b
      <3>1. c[k - 1] >= a /\ c[k] <= b
        BY <1>1, <2>1
      <3>2. c[k] - c[k - 1] \in Nat
        BY <2>2
      <3>3. ASSUME NEW i \in 1..(c[k] - c[k - 1]) PROVE c[k - 1] + i \in (a + 1)..b
        <4>1. c[k - 1] + i <= c[k] /\ i >= 1 /\ i \in Nat
          BY <2>2
        <4> QED BY <1>1, <2>2, <3>1, <4>1
      <3> QED BY <3>2, <3>3
    <2>5. p[k] \in [1..(c[k] - c[k - 1]) -> (a + 1)..b]
      BY <2>1, <2>4 DEF Run
    <2>6. p[k] \in Seq((a + 1)..b)
      BY <2>4, <2>5, SeqDef
    <2>7. Len(p[k]) <= b - a
      BY <1>1, <2>1, <2>2, <2>3
    <2> QED BY <2>1, <2>2, <2>3, <2>6, <2>7
  <1> QED BY <1>1, <1>3, <1>4, <1>5

LEMMA ChainNone ==
  ASSUME NEW a \in Nat, NEW m \in Nat
  PROVE  Chain(<<>>, a, a, m)
  <1>1. Cuts([k \in 0..0 |-> a], <<>>, a, a, m)
    BY DEF Cuts
  <1>2. <<>> \in Seq(Seq(Nat))
    BY EmptySeq
  <1> QED BY <1>1, <1>2 DEF Chain

LEMMA ChainOne ==
  ASSUME NEW a \in Nat, NEW b \in Nat, NEW m \in Nat, a < b, b - a <= m
  PROVE  Chain(<<Run(a, b)>>, a, b, m)
  <1> DEFINE p == <<Run(a, b)>>
             c == [k \in 0..1 |-> IF k = 0 THEN a ELSE b]
  <1>1. Run(a, b) \in Seq(Nat)
    BY RunIs
  <1> HIDE DEF Run
  <1>2. p \in Seq(Seq(Nat)) /\ Len(p) = 1 /\ p[1] = Run(a, b)
    BY <1>1
  <1>3. c[0] = a /\ c[1] = b /\ c \in [0..1 -> a..b]
    OBVIOUS
  <1>4. \A k \in 1..1 : k = 1 /\ k - 1 = 0
    OBVIOUS
  <1> HIDE DEF p, c
  <1>5. Cuts(c, p, a, b, m)
    BY <1>2, <1>3, <1>4 DEF Cuts
  <1>6. Chain(p, a, b, m)
    BY <1>2, <1>5 DEF Chain
  <1> QED BY <1>6 DEF p

LEMMA ChainConcat ==
  ASSUME NEW p, NEW q, NEW a, NEW d, NEW b, NEW m, Chain(p, a, d, m), Chain(q, d, b, m)
  PROVE  Chain(p \o q, a, b, m)
  <1>1. /\ p \in Seq(Seq(Nat)) /\ q \in Seq(Seq(Nat)) /\ a \in Nat /\ d \in Nat /\ b \in Nat
        /\ a <= d /\ d <= b /\ m \in Nat
    BY ChainEnds
  <1>2. PICK e : Cuts(e, p, a, d, m)
    BY DEF Chain
  <1>3. PICK f : Cuts(f, q, d, b, m)
    BY DEF Chain
  <1> DEFINE l == Len(p)
             n == Len(q)
             pq == p \o q
             c == [k \in 0..(l + n) |-> IF k <= l THEN e[k] ELSE f[k - l]]
  <1>4. l \in Nat /\ n \in Nat
    BY <1>1, LenProperties
  <1>5. /\ pq \in Seq(Seq(Nat)) /\ Len(pq) = l + n
        /\ \A k \in 1..(l + n) : pq[k] = IF k <= l THEN p[k] ELSE q[k - l]
    BY <1>1, ConcatProperties
  <1>6. /\ e \in [0..l -> a..d] /\ e[0] = a /\ e[l] = d
        /\ \A k \in 1..l : e[k - 1] < e[k] /\ e[k] - e[k - 1] <= m /\ p[k] = Run(e[k - 1], e[k])
    BY <1>2 DEF Cuts
  <1>7. /\ f \in [0..n -> d..b] /\ f[0] = d /\ f[n] = b
        /\ \A k \in 1..n : f[k - 1] < f[k] /\ f[k] - f[k - 1] <= m /\ q[k] = Run(f[k - 1], f[k])
    BY <1>3 DEF Cuts
  <1> HIDE DEF l, n, pq
  <1>8. ASSUME NEW k \in 0..n PROVE c[l + k] = f[k]
    <2>1. CASE k = 0
      BY <1>4, <1>6, <1>7, <2>1
    <2>2. CASE k # 0
      <3>1. l + k \in 0..(l + n) /\ ~(l + k <= l) /\ (l + k) - l = k
        BY <1>4, <2>2
      <3> QED BY <3>1
    <2> QED BY <2>1, <2>2
  <1>9. \A k \in 0..l : c[k] = e[k]
    BY <1>4
  <1>10. c \in [0..(l + n) -> a..b]
    <2> SUFFICES ASSUME NEW k \in 0..(l + n) PROVE c[k] \in a..b
      OBVIOUS
    <2>1. CASE k <= l
      <3>1. e[k] \in a..d
        BY <1>4, <1>6, <2>1
      <3> QED BY <1>1, <2>1, <3>1
    <2>2. CASE ~(k <= l)
      <3>1. f[k - l] \in d..b
        BY <1>4, <1>7, <2>2
      <3> QED BY <1>1, <2>2, <3>1
    <2> QED BY <2>1, <2>2
  <1> HIDE DEF c
  <1>11. ASSUME NEW k \in 1..(l + n)
         PROVE  c[k - 1] < c[k] /\ c[k] - c[k - 1] <= m /\ pq[k] = Run(c[k - 1], c[k])
    <2>1. CASE k <= l
      <3>1. k \in 1..l /\ k \in 0..l /\ k - 1 \in 0..l
        BY <1>4, <2>1
      <3> QED BY <1>5, <1>6, <1>9, <2>1, <3>1
    <2>2. CASE ~(k <= l)
      <3>1. /\ k - l \in 1..n /\ k - l \in 0..n /\ (k - l) - 1 \in 0..n
            /\ l + (k - l) = k /\ l + ((k - l) - 1) = k - 1
        BY <1>4, <2>2
      <3>2. c[k] = f[k - l] /\ c[k - 1] = f[(k - l) - 1]
        BY <1>8, <3>1
      <3> QED BY <1>5, <1>7, <2>2, <3>1, <3>2
    <2> QED BY <2>1, <2>2
  <1>12. c[0] = a /\ c[l + n] = b
    <2>1. 0 \in 0..l /\ n \in 0..n
      BY <1>4
    <2> QED BY <1>6, <1>7, <1>8, <1>9, <2>1
  <1>13. Cuts(c, pq, a, b, m)
    BY <1>5, <1>10, <1>11, <1>12 DEF Cuts
  <1>14. Chain(pq, a, b, m)
    BY <1>1, <1>5, <1>13 DEF Chain
  <1> QED BY <1>14 DEF pq

\* Between two of its cuts a chain is a chain.
LEMMA ChainPart ==
  ASSUME NEW p \in Seq(Seq(Nat)), NEW a \in Nat, NEW b \in Nat, NEW m \in Nat, NEW c,
         Cuts(c, p, a, b, m), NEW i \in 0..Len(p), NEW j \in 0..Len(p), i <= j
  PROVE  Chain(SubSeq(p, i + 1, j), c[i], c[j], m)
  <1> DEFINE q == SubSeq(p, i + 1, j)
             e == [k \in 0..(j - i) |-> c[i + k]]
  <1>1. Len(p) \in Nat /\ DOMAIN p = 1..Len(p)
    BY LenProperties
  <1>2. /\ q \in Seq(Seq(Nat)) /\ Len(q) = j - i
        /\ \A k \in 1..(j - i) : q[k] = p[i + k]
    BY PartOf
  <1> HIDE DEF q
  <1>3. ASSUME NEW k \in 0..(j - i) PROVE e[k] \in c[i]..c[j]
    <2>1. i + k \in 0..Len(p) /\ i <= i + k /\ i + k <= j
      BY <1>1
    <2>2. c[i] <= c[i + k] /\ c[i + k] <= c[j] /\ c[i] \in Nat /\ c[j] \in Nat /\ c[i + k] \in Nat
      BY <2>1, CutsRise
    <2> QED BY <2>2
  <1>4. e \in [0..(j - i) -> c[i]..c[j]]
    BY <1>3
  <1>5. e[0] = c[i] /\ e[j - i] = c[j]
    <2>1. 0 \in 0..(j - i) /\ j - i \in 0..(j - i) /\ i + 0 = i /\ i + (j - i) = j
      BY <1>1
    <2> QED BY <2>1
  <1>6. ASSUME NEW k \in 1..(j - i)
        PROVE  e[k - 1] < e[k] /\ e[k] - e[k - 1] <= m /\ q[k] = Run(e[k - 1], e[k])
    <2>1. i + k \in 1..Len(p) /\ i + (k - 1) = (i + k) - 1 /\ k \in 0..(j - i) /\ k - 1 \in 0..(j - i)
      BY <1>1
    <2>2. /\ c[(i + k) - 1] < c[i + k] /\ c[i + k] - c[(i + k) - 1] <= m
          /\ p[i + k] = Run(c[(i + k) - 1], c[i + k])
      BY <2>1 DEF Cuts
    <2>3. e[k] = c[i + k] /\ e[k - 1] = c[(i + k) - 1]
      BY <2>1
    <2> QED BY <1>2, <2>2, <2>3
  <1> HIDE DEF e
  <1>7. Cuts(e, q, c[i], c[j], m)
    BY <1>2, <1>4, <1>5, <1>6 DEF Cuts
  <1>8. c[i] \in Nat /\ c[j] \in Nat
    BY CutsRise
  <1>9. Chain(q, c[i], c[j], m)
    BY <1>2, <1>7, <1>8 DEF Chain
  <1> QED BY <1>9 DEF q

\* One more piece, or a longer last one.
LEMMA ChainAppend ==
  ASSUME NEW p, NEW a, NEW b, NEW m, Chain(p, a, b, m), NEW d \in Nat, b < d, d - b <= m
  PROVE  Chain(Append(p, Run(b, d)), a, d, m)
  <1>1. p \in Seq(Seq(Nat)) /\ b \in Nat /\ m \in Nat
    BY ChainEnds
  <1>2. Chain(<<Run(b, d)>>, b, d, m)
    BY <1>1, ChainOne
  <1>3. Chain(p \o <<Run(b, d)>>, a, d, m)
    BY <1>2, ChainConcat
  <1>4. Run(b, d) \in Seq(Nat)
    BY <1>1, RunIs
  <1>5. Append(p, Run(b, d)) = p \o <<Run(b, d)>>
    BY <1>1, <1>4, AppendIsConcat
  <1> QED BY <1>3, <1>5

LEMMA ChainExtend ==
  ASSUME NEW p, NEW a, NEW b, NEW m, Chain(p, a, b, m), p # <<>>, NEW d \in Nat, b <= d,
         Len(p[Len(p)]) + (d - b) <= m
  PROVE  Chain(SubSeq(p, 1, Len(p) - 1) \o <<p[Len(p)] \o Run(b, d)>>, a, d, m)
  <1>1. p \in Seq(Seq(Nat)) /\ a \in Nat /\ b \in Nat /\ m \in Nat
    BY ChainEnds
  <1>2. PICK c : Cuts(c, p, a, b, m)
    BY DEF Chain
  <1> DEFINE l == Len(p)
  <1>3. l \in Nat \ {0} /\ l - 1 \in 0..l /\ l \in 0..l /\ 0 \in 0..l /\ l \in 1..l
    BY <1>1, EmptySeq
  <1>4. /\ c[0] = a /\ c[l] = b /\ c[l - 1] < c[l] /\ p[l] = Run(c[l - 1], c[l])
    BY <1>2, <1>3 DEF Cuts
  <1>5. c[l - 1] \in Nat /\ c[0] <= c[l - 1]
    BY <1>1, <1>2, <1>3, CutsRise
  <1>6. Chain(SubSeq(p, 1, l - 1), a, c[l - 1], m)
    <2>1. Chain(SubSeq(p, 0 + 1, l - 1), c[0], c[l - 1], m)
      BY <1>1, <1>2, <1>3, ChainPart
    <2> QED BY <1>4, <2>1
  <1>7. p[l] \o Run(b, d) = Run(c[l - 1], d) /\ Len(p[l]) = b - c[l - 1]
    <2>1. c[l - 1] <= b /\ p[l] = Run(c[l - 1], b)
      BY <1>1, <1>4, <1>5
    <2>2. Run(c[l - 1], b) \o Run(b, d) = Run(c[l - 1], d)
      BY <1>1, <1>5, <2>1, RunJoin
    <2>3. Len(Run(c[l - 1], b)) = b - c[l - 1]
      BY <1>1, <1>5, <2>1, RunIs
    <2> QED BY <2>1, <2>2, <2>3
  <1>8. Chain(<<Run(c[l - 1], d)>>, c[l - 1], d, m)
    <2> DEFINE x == c[l - 1]
    <2>1. x < d /\ d - x <= m
      <3>1. x \in Nat /\ x < b
        BY <1>4, <1>5
      <3>2. (b - x) + (d - b) <= m
        BY <1>7
      <3> HIDE DEF x, l
      <3> QED BY <1>1, <3>1, <3>2
    <2> QED BY <1>1, <1>5, <2>1, ChainOne
  <1> QED BY <1>6, <1>7, <1>8, ChainConcat

-----------------------------------------------------------------------------
(* Flattening.                                                              *)

LEMMA FlattenSteps ==
  ASSUME NEW X, NEW q \in Seq(Seq(X))
  PROVE  \E F \in [0..Len(q) -> Seq(X)] :
           /\ F[0] = <<>> /\ F[Len(q)] = C!FlattenSeq(q)
           /\ \A k \in 1..Len(q) : F[k] = F[k - 1] \o q[k]
  <1> DEFINE n == Len(q)
             op == [w \in Seq(X) \X (1..n) |-> w[1] \o q[w[2]]]
             Flat(f) == f = [i \in 1..n |-> IF i = 1 THEN q[i] ELSE f[i - 1] \o q[i]]
             it == CHOOSE f : Flat(f)
  <1>1. n \in Nat /\ DOMAIN q = 1..n /\ \A k \in 1..n : q[k] \in Seq(X)
    BY LenProperties, ElementOfSeq
  <1>2. C!FlattenSeq(q) = IF n = 0 THEN q ELSE it[n]
    BY DEF C!FlattenSeq
  <1>3. <<>> \in Seq(X) /\ op \in [Seq(X) \X (1..n) -> Seq(X)]
    BY <1>1, EmptySeq, ConcatProperties
  <1>4. PICK g : IsFold(g, Seq(X), <<>>, n, op)
    <2> HIDE DEF op
    <2> QED BY <1>1, <1>3, FoldExists
  <1>5. PICK F : Passes(F, g[1..n], Seq(X), <<>>, n, op)
    <2>1. Follows(g, Seq(X), <<>>, n, op)
      <3> HIDE DEF op
      <3>1. {} \in SUBSET (1..n)
        OBVIOUS
      <3> QED BY <1>4, <3>1 DEF IsFold, Follows
    <2> HIDE DEF op, n
    <2> QED BY <1>1, <1>3, <2>1, FoldSteps
  <1>6. F \in [0..n -> Seq(X)] /\ F[0] = <<>>
    BY <1>5 DEF Passes
  <1>7. ASSUME NEW k \in 1..n PROVE F[k] = F[k - 1] \o q[k]
    <2>1. F[k] = op[<<F[k - 1], k>>]
      BY <1>5 DEF Passes
    <2>2. F[k - 1] \in Seq(X)
      <3>1. k - 1 \in 0..n
        BY <1>1
      <3> QED BY <1>6, <3>1
    <2> QED BY <2>1, <2>2
  <1>8. Flat([i \in 1..n |-> F[i]])
    <2> SUFFICES ASSUME NEW i \in 1..n
                 PROVE  F[i] = IF i = 1 THEN q[i] ELSE [j \in 1..n |-> F[j]][i - 1] \o q[i]
      OBVIOUS
    <2>1. CASE i = 1
      <3>1. F[1] = <<>> \o q[1] /\ q[1] \in Seq(X)
        BY <1>1, <1>6, <1>7, <2>1
      <3>2. F[1] = q[1]
        BY <3>1, ConcatEmptySeq
      <3> QED BY <2>1, <3>2
    <2>2. CASE i # 1
      <3>1. i - 1 \in 1..n
        BY <1>1, <2>2
      <3> QED BY <1>7, <2>2, <3>1
    <2> QED BY <2>1, <2>2
  <1>9. Flat(it)
    BY <1>8
  <1> HIDE DEF it
  <1>10. \A k \in 1..n : it[k] = F[k]
    <2> DEFINE T == {k \in 0..n : k = 0 \/ it[k] = F[k]}
    <2>1. 0 \in T
      BY <1>1
    <2>2. ASSUME NEW k \in 1..n, k - 1 \in T PROVE k \in T
      <3>1. CASE k = 1
        <4>1. it[1] = q[1]
          BY <1>9, <3>1
        <4>2. F[1] = <<>> \o q[1] /\ q[1] \in Seq(X)
          BY <1>1, <1>6, <1>7, <3>1
        <4> QED BY <3>1, <4>1, <4>2, ConcatEmptySeq
      <3>2. CASE k # 1
        <4>1. k - 1 # 0 /\ it[k - 1] = F[k - 1]
          BY <2>2, <3>2
        <4>2. it[k] = it[k - 1] \o q[k]
          BY <1>9, <3>2
        <4>3. F[k] = F[k - 1] \o q[k]
          BY <1>7
        <4>4. it[k] = F[k] /\ k \in 0..n
          BY <4>1, <4>2, <4>3
        <4> QED BY <4>4
      <3> QED BY <3>1, <3>2
    <2>3. 0..n \subseteq T
      <3> HIDE DEF T, n
      <3> QED BY <1>1, <2>1, <2>2, UpTo
    <2> QED BY <2>3
  <1>11. F[n] = C!FlattenSeq(q)
    <2>1. CASE n = 0
      <3>1. q = <<>>
        BY <2>1, EmptySeq
      <3> QED BY <1>2, <1>6, <2>1, <3>1
    <2>2. CASE n # 0
      <3>1. n \in 1..n
        BY <1>1, <2>2
      <3> QED BY <1>2, <1>10, <2>2, <3>1
    <2> QED BY <2>1, <2>2
  <1> QED BY <1>6, <1>7, <1>11

\* A chain, flattened, is the run it is cut from.
LEMMA ChainFlat ==
  ASSUME NEW p, NEW a, NEW b, NEW m, Chain(p, a, b, m)
  PROVE  C!FlattenSeq(p) = Run(a, b)
  <1>1. p \in Seq(Seq(Nat)) /\ a \in Nat /\ b \in Nat /\ m \in Nat /\ Len(p) \in Nat
    BY ChainEnds, LenProperties
  <1>2. PICK c : Cuts(c, p, a, b, m)
    BY DEF Chain
  <1>3. PICK F \in [0..Len(p) -> Seq(Nat)] :
           /\ F[0] = <<>> /\ F[Len(p)] = C!FlattenSeq(p)
           /\ \A k \in 1..Len(p) : F[k] = F[k - 1] \o p[k]
    BY <1>1, FlattenSteps
  <1> DEFINE T == {k \in 0..Len(p) : F[k] = Run(a, c[k])}
  <1>4. 0 \in T
    BY <1>1, <1>2, <1>3, RunOfOne DEF Cuts
  <1>5. ASSUME NEW k \in 1..Len(p), k - 1 \in T PROVE k \in T
    <2>1. 0 \in 0..Len(p) /\ k - 1 \in 0..Len(p) /\ k \in 0..Len(p) /\ 0 <= k - 1 /\ k - 1 <= k
      BY <1>1
    <2>2. c[0] <= c[k - 1] /\ c[k - 1] <= c[k] /\ c[k - 1] \in Nat /\ c[k] \in Nat /\ c[0] = a
      BY <1>1, <1>2, <2>1, CutsRise DEF Cuts
    <2>3. F[k] = Run(a, c[k - 1]) \o Run(c[k - 1], c[k])
      BY <1>2, <1>3, <1>5 DEF Cuts
    <2>4. F[k] = Run(a, c[k])
      BY <1>1, <2>2, <2>3, RunJoin
    <2> QED BY <2>1, <2>4
  <1>6. 0..Len(p) \subseteq T
    <2> HIDE DEF T
    <2> QED BY <1>1, <1>4, <1>5, UpTo
  <1>7. F[Len(p)] = Run(a, c[Len(p)])
    BY <1>1, <1>6
  <1> QED BY <1>2, <1>3, <1>7 DEF Cuts

\* Chains that follow each other, flattened, are one chain.
LEMMA ChainsFlat ==
  ASSUME NEW q \in Seq(Seq(Seq(Nat))), NEW c, NEW a \in Nat, NEW b \in Nat, NEW m \in Nat,
         c[0] = a, c[Len(q)] = b,
         \A k \in 1..Len(q) : Chain(q[k], c[k - 1], c[k], m)
  PROVE  Chain(C!FlattenSeq(q), a, b, m)
  <1>1. Len(q) \in Nat
    BY LenProperties
  <1>2. PICK F \in [0..Len(q) -> Seq(Seq(Nat))] :
           /\ F[0] = <<>> /\ F[Len(q)] = C!FlattenSeq(q)
           /\ \A k \in 1..Len(q) : F[k] = F[k - 1] \o q[k]
    BY FlattenSteps
  <1> DEFINE T == {k \in 0..Len(q) : Chain(F[k], a, c[k], m)}
  <1>3. 0 \in T
    BY <1>1, <1>2, ChainNone
  <1>4. ASSUME NEW k \in 1..Len(q), k - 1 \in T PROVE k \in T
    <2>1. Chain(F[k - 1], a, c[k - 1], m) /\ Chain(q[k], c[k - 1], c[k], m)
      BY <1>4
    <2>2. Chain(F[k - 1] \o q[k], a, c[k], m)
      BY <2>1, ChainConcat
    <2>3. F[k] = F[k - 1] \o q[k]
      BY <1>2
    <2>4. k \in 0..Len(q)
      BY <1>1
    <2> QED BY <2>2, <2>3, <2>4
  <1>5. 0..Len(q) \subseteq T
    <2> HIDE DEF T
    <2> QED BY <1>1, <1>3, <1>4, UpTo
  <1>6. Chain(F[Len(q)], a, c[Len(q)], m)
    <2>1. Len(q) \in T
      <3> HIDE DEF T
      <3> QED BY <1>1, <1>5
    <2> QED BY <2>1
  <1> QED BY <1>2, <1>6

-----------------------------------------------------------------------------
(* The folds of the chunker, step by step.                                  *)

\* SplitAfter, word by word.
LEMMA SplitSteps ==
  ASSUME NEW words \in Seq(Nat), NEW boundary
  PROVE  \E F \in [0..Len(words) -> Seq(Seq(Nat))] :
           /\ F[0] = <<>> /\ F[Len(words)] = C!SplitAfter(words, boundary)
           /\ \A k \in 1..Len(words) : 
             LET p == F[k - 1] IN
             F[k] = IF p # <<>> /\ p[Len(p)][Len(p[Len(p)])] \notin boundary
                      THEN SubSeq(p, 1, Len(p) - 1) \o <<Append(p[Len(p)], words[k])>>
                      ELSE Append(p, <<words[k]>>)
  <1> DEFINE n == Len(words)
             Op(p, k) == IF p # <<>> /\ p[Len(p)][Len(p[Len(p)])] \notin boundary
                           THEN SubSeq(p, 1, Len(p) - 1) \o <<Append(p[Len(p)], words[k])>>
                           ELSE Append(p, <<words[k]>>)
             op == [w \in Seq(Seq(Nat)) \X (1..n) |-> Op(w[1], w[2])]
             Fold(f) == f = [q \in SUBSET (1..n) |->
                               IF q = {} THEN <<>> ELSE Op(f[q \ {Largest(q)}], Largest(q))]
             it == CHOOSE f : Fold(f)
  <1>1. n \in Nat /\ DOMAIN words = 1..n /\ \A k \in 1..n : words[k] \in Nat
    BY LenProperties, ElementOfSeq
  <1>2. C!SplitAfter(words, boundary) = it[1..n]
    BY <1>1 DEF C!SplitAfter, C!FoldLeft, C!MapThenFoldSet, C!Max, C!Last, C!Front, Largest
  <1>3. <<>> \in Seq(Seq(Nat)) /\ op \in [Seq(Seq(Nat)) \X (1..n) -> Seq(Seq(Nat))]
    <2>1. ASSUME NEW p \in Seq(Seq(Nat)), NEW k \in 1..n PROVE Op(p, k) \in Seq(Seq(Nat))
      <3>1. <<words[k]>> \in Seq(Nat) /\ Append(p, <<words[k]>>) \in Seq(Seq(Nat))
        BY <1>1, AppendProperties
      <3>2. ASSUME p # <<>>
            PROVE  SubSeq(p, 1, Len(p) - 1) \o <<Append(p[Len(p)], words[k])>> \in Seq(Seq(Nat))
        <4>1. Len(p) \in Nat \ {0}
          BY <3>2, EmptySeq
        <4>2. Append(p[Len(p)], words[k]) \in Seq(Nat)
          BY <1>1, <4>1, ElementOfSeq, AppendProperties
        <4>3. SubSeq(p, 1, Len(p) - 1) \in Seq(Seq(Nat))
          BY <4>1, ElementOfSeq, SubSeqProperties
        <4> QED BY <4>2, <4>3, ConcatProperties
      <3> QED BY <3>1, <3>2
    <2> HIDE DEF Op
    <2> QED BY <2>1, EmptySeq
  <1>4. PICK f : IsFold(f, Seq(Seq(Nat)), <<>>, n, op)
    <2> HIDE DEF op, n
    <2> QED BY <1>1, <1>3, FoldExists
  <1>5. Fold(f)
    <2>1. ASSUME NEW q \in SUBSET (1..n), q # {}
          PROVE  op[<<f[q \ {Largest(q)}], Largest(q)>>] = Op(f[q \ {Largest(q)}], Largest(q))
      <3>1. Largest(q) \in 1..n
        BY <1>1, <2>1, LargestOf
      <3>2. f[q \ {Largest(q)}] \in Seq(Seq(Nat))
        BY <1>4 DEF IsFold
      <3> HIDE DEF Op
      <3> QED BY <3>1, <3>2
    <2> HIDE DEF Op, op, n
    <2> QED BY <1>4, <2>1 DEF IsFold
  <1>6. Fold(it)
    BY <1>5
  <1> HIDE DEF it
  <1>7. Follows(it, Seq(Seq(Nat)), <<>>, n, op)
    <2>1. it[{}] = <<>>
      <3>1. {} \in SUBSET (1..n)
        OBVIOUS
      <3> HIDE DEF Op
      <3> QED BY <1>6, <3>1
    <2>2. ASSUME NEW q \in SUBSET (1..n), q # {}, it[q \ {Largest(q)}] \in Seq(Seq(Nat))
          PROVE  it[q] = op[<<it[q \ {Largest(q)}], Largest(q)>>]
      <3>1. Largest(q) \in 1..n
        BY <1>1, <2>2, LargestOf
      <3> HIDE DEF Op
      <3>2. it[q] = Op(it[q \ {Largest(q)}], Largest(q))
        BY <1>6, <2>2
      <3> QED BY <2>2, <3>1, <3>2
    <2> HIDE DEF op
    <2> QED BY <2>1, <2>2 DEF Follows
  <1>8. PICK F : Passes(F, it[1..n], Seq(Seq(Nat)), <<>>, n, op)
    <2> HIDE DEF op, n
    <2> QED BY <1>1, <1>3, <1>7, FoldSteps
  <1>9. F \in [0..n -> Seq(Seq(Nat))] /\ F[0] = <<>> /\ F[n] = it[1..n]
    BY <1>8 DEF Passes
  <1>10. ASSUME NEW k \in 1..n PROVE F[k] = Op(F[k - 1], k)
    <2>1. F[k] = op[<<F[k - 1], k>>]
      BY <1>8 DEF Passes
    <2>2. k - 1 \in 0..n
      BY <1>1
    <2>3. F[k - 1] \in Seq(Seq(Nat))
      BY <1>9, <2>2
    <2> HIDE DEF Op
    <2> QED BY <2>1, <2>3
  <1> QED BY <1>2, <1>9, <1>10

-----------------------------------------------------------------------------
(* A sentence longer than a chunk.                                          *)

LEMMA TheLess ==
  ASSUME NEW x \in Int, NEW y \in Int
  PROVE  /\ C!Min({x, y}) = IF x <= y THEN x ELSE y
         /\ S!Min({x, y}) = IF x <= y THEN x ELSE y
  <1> DEFINE Less(z) == z \in {x, y} /\ \A w \in {x, y} : z <= w
  <1>1. CASE x <= y
    <2>1. \A z : Less(z) <=> z = x
      BY <1>1
    <2> QED BY <1>1, <2>1 DEF C!Min, S!Min
  <1>2. CASE ~(x <= y)
    <2>1. \A z : Less(z) <=> z = y
      BY <1>2
    <2> QED BY <1>2, <2>1 DEF C!Min, S!Min
  <1> QED BY <1>1, <1>2

\* How many pieces of m words l words need.
LEMMA Pieces ==
  ASSUME NEW l \in Nat \ {0}, NEW m \in Nat \ {0}
  PROVE  LET n == (l + m - 1) \div m IN
         n \in Nat \ {0} /\ l <= n * m /\ \A k \in 1..n : (k - 1) * m \in Nat /\ (k - 1) * m < l
  <1> DEFINE n == (l + m - 1) \div m
  <1>1. n \in Nat
    OBVIOUS
  <1>2. n * m <= l + m - 1 /\ l + m - 1 < (n + 1) * m
    OBVIOUS
  <1>3. (n + 1) * m = n * m + m
    BY <1>1
  <1> HIDE DEF n
  <1>4. n * m \in Nat
    BY <1>1
  <1>5. l <= n * m
    BY <1>2, <1>3, <1>4
  <1>6. n # 0
    <2>1. 0 * m = 0
      OBVIOUS
    <2> QED BY <1>5, <2>1
  <1>7. ASSUME NEW k \in 1..n PROVE (k - 1) * m \in Nat /\ (k - 1) * m < l
    <2>1. k - 1 \in Nat /\ n - k \in Nat
      BY <1>1
    <2>2. (k - 1) * m \in Nat /\ (n - k) * m \in Nat
      BY <2>1
    <2>3. n * m = (k - 1) * m + (n - k) * m + m
      <3>1. n = (k - 1) + (n - k) + 1
        BY <1>1
      <3> QED BY <1>1, <2>1, <3>1
    <2> QED BY <1>2, <1>4, <2>2, <2>3
  <1> QED BY <1>1, <1>5, <1>6, <1>7 DEF n

LEMMA HardSplitChain ==
  ASSUME C!ChunkSettings, NEW a \in Nat, NEW b \in Nat, a < b
  PROVE  Chain(C!HardSplit(Run(a, b)), a, b, MaxWords)
  <1> DEFINE m == MaxWords
             l == b - a
             n == (l + m - 1) \div m
             p == C!HardSplit(Run(a, b))
             End(k) == IF k * m <= l THEN k * m ELSE l
             c == [k \in 0..n |-> a + End(k)]
  <1>1. m \in Nat \ {0} /\ l \in Nat \ {0} /\ Len(Run(a, b)) = l
    BY RunIs DEF C!ChunkSettings
  <1>2. n \in Nat \ {0} /\ l <= n * m /\ \A k \in 1..n : (k - 1) * m \in Nat /\ (k - 1) * m < l
    BY <1>1, Pieces
  <1>3. \A k \in 0..n : k * m \in Nat
    BY <1>1, <1>2
  <1>4. ASSUME NEW k \in 0..n PROVE End(k) \in 0..l
    BY <1>1, <1>3
  <1>5. p = [k \in 1..n |-> SubSeq(Run(a, b), (k - 1) * m + 1, End(k))]
    <2>1. \A k \in 1..n : C!Min({k * m, l}) = End(k)
      <3> SUFFICES ASSUME NEW k \in 1..n PROVE C!Min({k * m, l}) = End(k)
        OBVIOUS
      <3>1. k * m \in Int /\ l \in Int
        BY <1>1, <1>2
      <3> QED BY <3>1, TheLess
    <2> HIDE DEF End
    <2>2. p = [k \in 1..n |-> SubSeq(Run(a, b), (k - 1) * m + 1, C!Min({k * m, l}))]
      BY <1>1 DEF C!HardSplit
    <2> QED BY <2>1, <2>2
  <1> HIDE DEF p, n
  <1>6. ASSUME NEW k \in 1..n
        PROVE  /\ c[k - 1] = a + (k - 1) * m /\ c[k] = a + End(k)
               /\ c[k - 1] < c[k] /\ c[k] - c[k - 1] <= m /\ p[k] = Run(c[k - 1], c[k])
    <2> DEFINE x == (k - 1) * m
    <2>1. x \in Nat /\ x < l /\ k * m = x + m /\ k - 1 \in 0..n /\ k \in 0..n
      <3>1. k * m = ((k - 1) + 1) * m
        BY <1>2
      <3>2. ((k - 1) + 1) * m = x + m
        BY <1>1, <1>2
      <3> QED BY <1>2, <3>1, <3>2
    <2>2. End(k - 1) = x
      BY <1>1, <2>1
    <2>3. c[k - 1] = a + x /\ c[k] = a + End(k)
      BY <2>1, <2>2
    <2>4. End(k) \in Nat /\ x < End(k) /\ End(k) <= x + m /\ a + End(k) <= b
      BY <1>1, <2>1
    <2>5. p[k] = SubSeq(Run(a, b), x + 1, End(k))
      BY <1>5
    <2> HIDE DEF x, c, End
    <2>6. SubSeq(Run(a, b), x + 1, End(k)) = Run(a + x, a + End(k))
      <3>1. x <= End(k)
        BY <2>1, <2>4
      <3> QED BY <2>1, <2>4, <3>1, RunPart
    <2>7. c[k - 1] < c[k] /\ c[k] - c[k - 1] <= m
      BY <1>1, <2>1, <2>3, <2>4
    <2> QED BY <2>3, <2>5, <2>6, <2>7 DEF x
  <1>7. c \in [0..n -> a..b]
    <2>1. \A k \in 0..n : a + End(k) \in a..b
      <3> HIDE DEF End
      <3> QED BY <1>1, <1>4
    <2> QED BY <2>1
  <1>8. c[0] = a /\ c[n] = b
    <2>1. 0 * m = 0 /\ 0 \in 0..n /\ n \in 0..n
      BY <1>1, <1>2
    <2>2. End(0) = 0
      BY <1>1, <2>1
    <2>3. End(n) = l
      BY <1>1, <1>2, <1>3
    <2> HIDE DEF End
    <2> QED BY <1>1, <2>1, <2>2, <2>3
  <1>9. p \in Seq(Seq(Nat)) /\ Len(p) = n
    <2>1. \A k \in 1..n : p[k] \in Seq(Nat)
      <3> SUFFICES ASSUME NEW k \in 1..n PROVE p[k] \in Seq(Nat)
        OBVIOUS
      <3> DEFINE x == (k - 1) * m
      <3>1. p[k] = Run(a + x, a + End(k)) /\ a + x < a + End(k)
        BY <1>6
      <3>2. x \in Nat /\ End(k) \in Nat
        BY <1>2, <1>4
      <3> HIDE DEF x, End
      <3>3. a + x \in Nat /\ a + End(k) \in Nat /\ a + x <= a + End(k)
        BY <3>1, <3>2
      <3> QED BY <3>1, <3>3, RunIs
    <2>2. p \in [1..n -> Seq(Nat)]
      BY <1>5, <2>1
    <2> QED BY <1>2, <2>2, SeqDef
  <1> HIDE DEF c
  <1>10. Cuts(c, p, a, b, m)
    BY <1>6, <1>7, <1>8, <1>9 DEF Cuts
  <1>11. Chain(p, a, b, m)
    BY <1>1, <1>9, <1>10 DEF Chain
  <1> QED BY <1>11 DEF p

\* SplitAfter of a run is a chain.
LEMMA SplitChain ==
  ASSUME NEW a \in Nat, NEW b \in Nat, a <= b, NEW m \in Nat, b - a <= m, NEW boundary
  PROVE  Chain(C!SplitAfter(Run(a, b), boundary), a, b, m)
  <1> DEFINE words == Run(a, b)
             n == b - a
  <1>1. words \in Seq(Nat) /\ Len(words) = n /\ \A k \in 1..n : words[k] = a + k
    BY RunIs
  <1>2. PICK F \in [0..Len(words) -> Seq(Seq(Nat))] :
           /\ F[0] = <<>> /\ F[Len(words)] = C!SplitAfter(words, boundary)
           /\ \A k \in 1..Len(words) :
                LET p == F[k - 1] IN
                F[k] = IF p # <<>> /\ p[Len(p)][Len(p[Len(p)])] \notin boundary
                         THEN SubSeq(p, 1, Len(p) - 1) \o <<Append(p[Len(p)], words[k])>>
                         ELSE Append(p, <<words[k]>>)
    <2> HIDE DEF words
    <2> QED BY <1>1, SplitSteps
  <1> HIDE DEF words
  <1> DEFINE T == {k \in 0..n : Chain(F[k], a, a + k, m)}
  <1>3. n \in Nat
    OBVIOUS
  <1>4. 0 \in T
    BY <1>2, <1>3, ChainNone
  <1>5. ASSUME NEW k \in 1..n, k - 1 \in T PROVE k \in T
    <2> DEFINE p == F[k - 1]
               d == a + (k - 1)
    <2>1. Chain(p, a, d, m)
      BY <1>5
    <2>2. d \in Nat /\ d + 1 = a + k /\ k \in 0..n /\ k <= n
      BY <1>3
    <2>3. words[k] = d + 1
      BY <1>1, <2>2
    <2>4. \/ p # <<>> /\ F[k] = SubSeq(p, 1, Len(p) - 1) \o <<Append(p[Len(p)], words[k])>>
          \/ F[k] = Append(p, <<words[k]>>)
      BY <1>1, <1>2
    <2> HIDE DEF p, d, n, T
    <2>5. Run(d, d + 1) = <<d + 1>> /\ d + 1 \in Nat /\ d < d + 1 /\ d <= d + 1 /\ (d + 1) - d = 1
      <3>1. Run(d, d + 1) = <<d + 1>>
        BY <2>2, RunOfOne
      <3> QED BY <2>2, <3>1
    <2>6. CASE F[k] = Append(p, <<words[k]>>)
      <3>1. F[k] = Append(p, Run(d, d + 1))
        BY <2>3, <2>5, <2>6
      <3>2. (d + 1) - d <= m
        BY <2>2, <2>5 DEF n
      <3>3. Chain(F[k], a, d + 1, m)
        BY <2>1, <2>5, <3>1, <3>2, ChainAppend
      <3> QED BY <2>2, <3>3 DEF T
    <2>7. CASE p # <<>> /\ F[k] = SubSeq(p, 1, Len(p) - 1) \o <<Append(p[Len(p)], words[k])>>
      <3>1. p \in Seq(Seq(Nat)) /\ Len(p) \in Nat \ {0}
        BY <2>1, <2>7, ChainEnds, EmptySeq
      <3>2. p[Len(p)] \in Seq(Nat)
        BY <3>1, ElementOfSeq
      <3>3. Append(p[Len(p)], words[k]) = p[Len(p)] \o Run(d, d + 1)
        BY <2>3, <2>5, <3>2, AppendIsConcat
      <3>4. F[k] = SubSeq(p, 1, Len(p) - 1) \o <<p[Len(p)] \o Run(d, d + 1)>>
        BY <2>7, <3>3
      <3>5. Len(p[Len(p)]) + ((d + 1) - d) <= m
        <4>1. Len(p[Len(p)]) <= d - a
          BY <2>1, <3>1, ChainEnds
        <4>2. Len(p[Len(p)]) \in Nat
          BY <3>2, LenProperties
        <4> QED BY <2>2, <4>1, <4>2 DEF n, d
      <3>6. Chain(F[k], a, d + 1, m)
        BY <2>1, <2>5, <2>7, <3>4, <3>5, ChainExtend
      <3> QED BY <2>2, <3>6 DEF T
    <2> QED BY <2>4, <2>6, <2>7
  <1>6. n \in T
    <2> HIDE DEF T, n
    <2>1. 0..n \subseteq T
      BY <1>3, <1>4, <1>5, UpTo
    <2> QED BY <1>3, <2>1
  <1>7. a + n = b
    OBVIOUS
  <1> QED BY <1>1, <1>2, <1>6, <1>7 DEF words

\* _pack_sentences, sentence by sentence.
LEMMA PackSteps ==
  ASSUME C!ChunkSettings, NEW list \in Seq(Seq(Nat))
  PROVE  \E F \in [0..Len(list) -> Seq(Seq(Nat))] :
           /\ F[0] = <<>> /\ F[Len(list)] = C!PackSentences(list)
           /\ \A k \in 1..Len(list) : 
             LET p == F[k - 1] IN
             F[k] = IF p # <<>> /\ Len(p[Len(p)]) + Len(list[k]) <= MaxWords
                      THEN SubSeq(p, 1, Len(p) - 1) \o <<p[Len(p)] \o list[k]>>
                      ELSE Append(p, list[k])
  <1> DEFINE n == Len(list)
             Op(p, k) == IF p # <<>> /\ Len(p[Len(p)]) + Len(list[k]) <= MaxWords
                           THEN SubSeq(p, 1, Len(p) - 1) \o <<p[Len(p)] \o list[k]>>
                           ELSE Append(p, list[k])
             op == [w \in Seq(Seq(Nat)) \X (1..n) |-> Op(w[1], w[2])]
             Fold(f) == f = [q \in SUBSET (1..n) |->
                               IF q = {} THEN <<>> ELSE Op(f[q \ {Largest(q)}], Largest(q))]
             it == CHOOSE f : Fold(f)
  <1>1. n \in Nat /\ DOMAIN list = 1..n /\ \A k \in 1..n : list[k] \in Seq(Nat)
    BY LenProperties, ElementOfSeq
  <1>2. it[1..n] = C!PackSentences(list)
    BY <1>1 DEF C!PackSentences, C!FoldLeft, C!MapThenFoldSet, C!Max, C!Last, C!Front, Largest
  <1>3. <<>> \in Seq(Seq(Nat)) /\ op \in [Seq(Seq(Nat)) \X (1..n) -> Seq(Seq(Nat))]
    <2>1. ASSUME NEW p \in Seq(Seq(Nat)), NEW k \in 1..n PROVE Op(p, k) \in Seq(Seq(Nat))
      <3>1. Append(p, list[k]) \in Seq(Seq(Nat))
        BY <1>1, AppendProperties
      <3>2. ASSUME p # <<>>
            PROVE  SubSeq(p, 1, Len(p) - 1) \o <<p[Len(p)] \o list[k]>> \in Seq(Seq(Nat))
        <4>1. Len(p) \in Nat \ {0}
          BY <3>2, EmptySeq
        <4>2. p[Len(p)] \o list[k] \in Seq(Nat)
          BY <1>1, <4>1, ElementOfSeq, ConcatProperties
        <4>3. SubSeq(p, 1, Len(p) - 1) \in Seq(Seq(Nat))
          BY <4>1, ElementOfSeq, SubSeqProperties
        <4> QED BY <4>2, <4>3, ConcatProperties
      <3> QED BY <3>1, <3>2
    <2> HIDE DEF Op
    <2> QED BY <2>1, EmptySeq
  <1>4. PICK f : IsFold(f, Seq(Seq(Nat)), <<>>, n, op)
    <2> HIDE DEF op, n
    <2> QED BY <1>1, <1>3, FoldExists
  <1>5. Fold(f)
    <2>1. ASSUME NEW q \in SUBSET (1..n), q # {}
          PROVE  op[<<f[q \ {Largest(q)}], Largest(q)>>] = Op(f[q \ {Largest(q)}], Largest(q))
      <3>1. Largest(q) \in 1..n
        BY <1>1, <2>1, LargestOf
      <3>2. f[q \ {Largest(q)}] \in Seq(Seq(Nat))
        BY <1>4 DEF IsFold
      <3> HIDE DEF Op
      <3> QED BY <3>1, <3>2
    <2> HIDE DEF Op, op, n
    <2> QED BY <1>4, <2>1 DEF IsFold
  <1>6. Fold(it)
    BY <1>5
  <1> HIDE DEF it
  <1>7. Follows(it, Seq(Seq(Nat)), <<>>, n, op)
    <2>1. it[{}] = <<>>
      <3>1. {} \in SUBSET (1..n)
        OBVIOUS
      <3> HIDE DEF Op
      <3> QED BY <1>6, <3>1
    <2>2. ASSUME NEW q \in SUBSET (1..n), q # {}, it[q \ {Largest(q)}] \in Seq(Seq(Nat))
          PROVE  it[q] = op[<<it[q \ {Largest(q)}], Largest(q)>>]
      <3>1. Largest(q) \in 1..n
        BY <1>1, <2>2, LargestOf
      <3> HIDE DEF Op
      <3>2. it[q] = Op(it[q \ {Largest(q)}], Largest(q))
        BY <1>6, <2>2
      <3> QED BY <2>2, <3>1, <3>2
    <2> HIDE DEF op
    <2> QED BY <2>1, <2>2 DEF Follows
  <1>8. PICK F : Passes(F, it[1..n], Seq(Seq(Nat)), <<>>, n, op)
    <2> HIDE DEF op, n
    <2> QED BY <1>1, <1>3, <1>7, FoldSteps
  <1>9. F \in [0..n -> Seq(Seq(Nat))] /\ F[0] = <<>> /\ F[n] = it[1..n]
    BY <1>8 DEF Passes
  <1>10. ASSUME NEW k \in 1..n PROVE F[k] = Op(F[k - 1], k)
    <2>1. F[k] = op[<<F[k - 1], k>>]
      BY <1>8 DEF Passes
    <2>2. k - 1 \in 0..n
      BY <1>1
    <2>3. F[k - 1] \in Seq(Seq(Nat))
      BY <1>9, <2>2
    <2> HIDE DEF Op
    <2> QED BY <2>1, <2>3
  <1> QED BY <1>2, <1>9, <1>10

\* What _split_long_paragraph holds while it packs, and how it ends.
Packed == [pieces : Seq(Seq(Nat)), buffer : Seq(Nat)]
Empty == [pieces |-> <<>>, buffer |-> <<>>]
Flush(p) == IF p.buffer = <<>> THEN p.pieces ELSE Append(p.pieces, p.buffer)
Taken(p, s) ==
  IF Len(s) > MaxWords THEN [pieces |-> Flush(p) \o C!HardSplit(s), buffer |-> <<>>]
  ELSE IF Len(p.buffer) + Len(s) > MaxWords THEN [pieces |-> Flush(p), buffer |-> s]
  ELSE [p EXCEPT !.buffer = @ \o s]

\* _split_long_paragraph, sentence by sentence.
LEMMA TakeSteps ==
  ASSUME C!ChunkSettings, NEW paragraph, NEW ends, NEW list, NEW a, NEW b, NEW m,
         list = C!SplitAfter(paragraph, ends), Chain(list, a, b, m)
  PROVE  \E F \in [0..Len(list) -> Packed] :
           /\ F[0] = Empty /\ C!SplitLongParagraph(paragraph, ends) = Flush(F[Len(list)])
           /\ \A k \in 1..Len(list) : F[k] = Taken(F[k - 1], list[k])
  <1> DEFINE n == Len(list)
             Op(p, k) == Taken(p, list[k])
             op == [w \in Packed \X (1..n) |-> Op(w[1], w[2])]
             Fold(f) == f = [q \in SUBSET (1..n) |->
                               IF q = {} THEN Empty ELSE Op(f[q \ {Largest(q)}], Largest(q))]
             it == CHOOSE f : Fold(f)
  <1>1. /\ n \in Nat /\ DOMAIN list = 1..n
        /\ \A k \in 1..n : list[k] \in Seq(Nat) /\ C!HardSplit(list[k]) \in Seq(Seq(Nat))
    <2>1. list \in Seq(Seq(Nat)) /\ n \in Nat /\ DOMAIN list = 1..n
      BY ChainEnds, LenProperties
    <2>2. PICK c : Cuts(c, list, a, b, m)
      BY DEF Chain
    <2>3. ASSUME NEW k \in 1..n PROVE C!HardSplit(list[k]) \in Seq(Seq(Nat))
      <3>1. k - 1 \in 0..n /\ k \in 0..n /\ k - 1 <= k
        BY <2>1
      <3>2. c[k - 1] \in Nat /\ c[k] \in Nat
        <4>1. a \in Nat /\ b \in Nat /\ m \in Nat
          BY ChainEnds
        <4> QED BY <2>1, <2>2, <3>1, <4>1, CutsRise
      <3>3. c[k - 1] < c[k] /\ list[k] = Run(c[k - 1], c[k])
        BY <2>2 DEF Cuts
      <3>4. Chain(C!HardSplit(list[k]), c[k - 1], c[k], MaxWords)
        BY <3>2, <3>3, HardSplitChain
      <3> QED BY <3>4, ChainEnds
    <2> QED BY <2>1, <2>3, ElementOfSeq
  <1>2. C!SplitLongParagraph(paragraph, ends) = Flush(it[1..n])
    BY <1>1 DEF C!SplitLongParagraph, C!FoldLeft, C!MapThenFoldSet, C!Max, Largest,
                Taken, Flush, Empty
  <1>3. Empty \in Packed /\ op \in [Packed \X (1..n) -> Packed]
    <2>1. Empty \in Packed
      BY EmptySeq DEF Empty, Packed
    <2>2. ASSUME NEW p \in Packed, NEW k \in 1..n PROVE Taken(p, list[k]) \in Packed
      <3>1. p.pieces \in Seq(Seq(Nat)) /\ p.buffer \in Seq(Nat)
        BY DEF Packed
      <3>2. Flush(p) \in Seq(Seq(Nat))
        BY <3>1, AppendProperties DEF Flush
      <3>3. list[k] \in Seq(Nat) /\ C!HardSplit(list[k]) \in Seq(Seq(Nat))
        BY <1>1
      <3>4. [pieces |-> Flush(p) \o C!HardSplit(list[k]), buffer |-> <<>>] \in Packed
        BY <3>2, <3>3, ConcatProperties, EmptySeq DEF Packed
      <3>5. [pieces |-> Flush(p), buffer |-> list[k]] \in Packed
        BY <3>2, <3>3 DEF Packed
      <3>6. [p EXCEPT !.buffer = p.buffer \o list[k]] \in Packed
        <4>1. p.buffer \o list[k] \in Seq(Nat)
          BY <3>1, <3>3, ConcatProperties
        <4> QED BY <4>1 DEF Packed
      <3> QED BY <3>4, <3>5, <3>6 DEF Taken
    <2> QED BY <2>1, <2>2
  <1>4. PICK f : IsFold(f, Packed, Empty, n, op)
    <2> HIDE DEF op, n
    <2> QED BY <1>1, <1>3, FoldExists
  <1>5. Fold(f)
    <2>1. ASSUME NEW q \in SUBSET (1..n), q # {}
          PROVE  op[<<f[q \ {Largest(q)}], Largest(q)>>] = Op(f[q \ {Largest(q)}], Largest(q))
      <3>1. Largest(q) \in 1..n
        BY <1>1, <2>1, LargestOf
      <3>2. f[q \ {Largest(q)}] \in Packed
        BY <1>4 DEF IsFold
      <3> HIDE DEF Op
      <3> QED BY <3>1, <3>2
    <2> HIDE DEF Op, op, n
    <2> QED BY <1>4, <2>1 DEF IsFold
  <1>6. Fold(it)
    BY <1>5
  <1> HIDE DEF it
  <1>7. Follows(it, Packed, Empty, n, op)
    <2>1. it[{}] = Empty
      <3>1. {} \in SUBSET (1..n)
        OBVIOUS
      <3> HIDE DEF Op
      <3> QED BY <1>6, <3>1
    <2>2. ASSUME NEW q \in SUBSET (1..n), q # {}, it[q \ {Largest(q)}] \in Packed
          PROVE  it[q] = op[<<it[q \ {Largest(q)}], Largest(q)>>]
      <3>1. Largest(q) \in 1..n
        BY <1>1, <2>2, LargestOf
      <3> HIDE DEF Op
      <3>2. it[q] = Op(it[q \ {Largest(q)}], Largest(q))
        BY <1>6, <2>2
      <3> QED BY <2>2, <3>1, <3>2
    <2> HIDE DEF op
    <2> QED BY <2>1, <2>2 DEF Follows
  <1>8. PICK F : Passes(F, it[1..n], Packed, Empty, n, op)
    <2> HIDE DEF op, n
    <2> QED BY <1>1, <1>3, <1>7, FoldSteps
  <1>9. F \in [0..n -> Packed] /\ F[0] = Empty /\ F[n] = it[1..n]
    BY <1>8 DEF Passes
  <1>10. ASSUME NEW k \in 1..n PROVE F[k] = Op(F[k - 1], k)
    <2>1. F[k] = op[<<F[k - 1], k>>]
      BY <1>8 DEF Passes
    <2>2. k - 1 \in 0..n
      BY <1>1
    <2>3. F[k - 1] \in Packed
      BY <1>9, <2>2
    <2> HIDE DEF Op
    <2> QED BY <2>1, <2>3
  <1> QED BY <1>2, <1>9, <1>10

\* Up to word d everything is packed, the last words in the buffer.
Packing(p, a, d) ==
  \E e \in Nat : /\ Chain(p.pieces, a, e, MaxWords) /\ e <= d /\ d - e <= MaxWords
                 /\ p.buffer = Run(e, d)

LEMMA FlushChain ==
  ASSUME NEW p, NEW a, NEW d \in Nat, Packing(p, a, d)
  PROVE  Chain(Flush(p), a, d, MaxWords)
  <1>1. PICK e \in Nat : /\ Chain(p.pieces, a, e, MaxWords) /\ e <= d /\ d - e <= MaxWords
                         /\ p.buffer = Run(e, d)
    BY DEF Packing
  <1>2. Run(e, d) \in Seq(Nat) /\ Len(Run(e, d)) = d - e
    BY <1>1, RunIs
  <1>3. CASE e = d
    <2>1. p.buffer = <<>>
      BY <1>1, <1>3, RunOfOne
    <2> QED BY <1>1, <1>3, <2>1 DEF Flush
  <1>4. CASE e # d
    <2>1. e < d
      BY <1>1, <1>4
    <2>2. p.buffer # <<>>
      <3>1. Len(p.buffer) # 0
        BY <1>1, <1>2, <2>1
      <3> QED BY <3>1
    <2>3. Chain(Append(p.pieces, Run(e, d)), a, d, MaxWords)
      BY <1>1, <2>1, ChainAppend
    <2>4. Flush(p) = Append(p.pieces, Run(e, d))
      BY <1>1, <2>2 DEF Flush
    <2> QED BY <2>3, <2>4
  <1> QED BY <1>3, <1>4

LEMMA TakenPacks ==
  ASSUME C!ChunkSettings, NEW p \in Packed, NEW a, NEW x \in Nat, NEW y \in Nat, x < y,
         Packing(p, a, x)
  PROVE  Packing(Taken(p, Run(x, y)), a, y)
  <1> DEFINE s == Run(x, y)
  <1>1. PICK e \in Nat : /\ Chain(p.pieces, a, e, MaxWords) /\ e <= x /\ x - e <= MaxWords
                         /\ p.buffer = Run(e, x)
    BY DEF Packing
  <1>2. Len(s) = y - x /\ Len(Run(e, x)) = x - e /\ Run(e, x) \o s = Run(e, y) /\ MaxWords \in Nat
    <2>1. x <= y
      OBVIOUS
    <2> HIDE DEF Run
    <2> QED BY <1>1, <2>1, RunIs, RunJoin DEF C!ChunkSettings
  <1>3. Chain(Flush(p), a, x, MaxWords)
    BY FlushChain
  <1> HIDE DEF s
  <1>4. CASE Len(s) > MaxWords
    <2> DEFINE q == [pieces |-> Flush(p) \o C!HardSplit(s), buffer |-> <<>>]
    <2>1. Taken(p, s) = q
      BY <1>4 DEF Taken
    <2>2. Chain(C!HardSplit(s), x, y, MaxWords)
      BY HardSplitChain DEF s
    <2>3. Chain(q.pieces, a, y, MaxWords)
      BY <1>3, <2>2, ChainConcat
    <2>4. q.buffer = Run(y, y)
      BY RunOfOne
    <2>5. y <= y /\ y - y <= MaxWords
      BY <1>2
    <2> HIDE DEF q
    <2>6. Packing(q, a, y)
      BY <2>3, <2>4, <2>5 DEF Packing
    <2> QED BY <2>1, <2>6 DEF s
  <1>5. CASE ~(Len(s) > MaxWords) /\ Len(p.buffer) + Len(s) > MaxWords
    <2> DEFINE q == [pieces |-> Flush(p), buffer |-> s]
    <2>1. Taken(p, s) = q
      BY <1>5 DEF Taken
    <2>2. x <= y /\ y - x <= MaxWords
      BY <1>2, <1>5
    <2>3. Chain(q.pieces, a, x, MaxWords) /\ q.buffer = Run(x, y)
      BY <1>3 DEF s
    <2> HIDE DEF q
    <2>4. Packing(q, a, y)
      BY <2>2, <2>3 DEF Packing
    <2> QED BY <2>1, <2>4 DEF s
  <1>6. CASE ~(Len(s) > MaxWords) /\ ~(Len(p.buffer) + Len(s) > MaxWords)
    <2> DEFINE q == [p EXCEPT !.buffer = p.buffer \o s]
    <2>1. Taken(p, s) = q
      BY <1>6 DEF Taken
    <2>2. q.pieces = p.pieces /\ q.buffer = p.buffer \o s
      BY DEF Packed
    <2>3. e <= y /\ y - e <= MaxWords
      BY <1>1, <1>2, <1>6
    <2> HIDE DEF q
    <2>4. Chain(q.pieces, a, e, MaxWords) /\ q.buffer = Run(e, y)
      BY <1>1, <1>2, <2>2
    <2>5. Packing(q, a, y)
      BY <2>3, <2>4 DEF Packing
    <2> QED BY <2>1, <2>5 DEF s
  <1> QED BY <1>4, <1>5, <1>6

\* A long paragraph becomes pieces that the embedding model can read.
LEMMA SplitLongChain ==
  ASSUME C!ChunkSettings, NEW a \in Nat, NEW b \in Nat, a <= b, NEW ends
  PROVE  Chain(C!SplitLongParagraph(Run(a, b), ends), a, b, MaxWords)
  <1> DEFINE list == C!SplitAfter(Run(a, b), ends)
             n == Len(list)
  <1>1. b - a \in Nat /\ b - a <= b - a
    OBVIOUS
  <1>2. Chain(list, a, b, b - a)
    BY <1>1, SplitChain
  <1>3. list \in Seq(Seq(Nat)) /\ n \in Nat
    BY <1>2, ChainEnds, LenProperties
  <1>4. PICK c : Cuts(c, list, a, b, b - a)
    BY <1>2 DEF Chain
  <1>5. PICK F \in [0..n -> Packed] :
           /\ F[0] = Empty /\ C!SplitLongParagraph(Run(a, b), ends) = Flush(F[n])
           /\ \A k \in 1..n : F[k] = Taken(F[k - 1], list[k])
    <2> HIDE DEF Run
    <2> QED BY <1>2, TakeSteps
  <1> DEFINE T == {k \in 0..n : Packing(F[k], a, c[k])}
  <1> HIDE DEF list, n
  <1>6. c[0] = a /\ c[n] = b
    BY <1>4 DEF Cuts, n
  <1>7. 0 \in T
    <2>1. Chain(<<>>, a, a, MaxWords) /\ Run(a, a) = <<>> /\ MaxWords \in Nat
      BY ChainNone, RunOfOne DEF C!ChunkSettings
    <2>2. Empty.pieces = <<>> /\ Empty.buffer = <<>> /\ a <= a /\ a - a <= MaxWords
      BY <2>1 DEF Empty
    <2>3. Packing(Empty, a, a)
      BY <2>1, <2>2 DEF Packing
    <2>4. F[0] = Empty
      BY <1>5
    <2>5. 0 \in 0..n
      BY <1>3
    <2> QED BY <1>6, <2>3, <2>4, <2>5
  <1>8. ASSUME NEW k \in 1..n, k - 1 \in T PROVE k \in T
    <2>1. k - 1 \in 0..n /\ k \in 0..n /\ k - 1 <= k
      BY <1>3
    <2>2. c[k - 1] \in Nat /\ c[k] \in Nat
      BY <1>1, <1>3, <1>4, <2>1, CutsRise DEF n
    <2>3. c[k - 1] < c[k] /\ list[k] = Run(c[k - 1], c[k])
      BY <1>4 DEF Cuts, n
    <2>4. Packing(F[k - 1], a, c[k - 1]) /\ F[k - 1] \in Packed
      BY <1>8, <2>1
    <2>5. Packing(Taken(F[k - 1], Run(c[k - 1], c[k])), a, c[k])
      BY <2>2, <2>3, <2>4, TakenPacks
    <2>6. F[k] = Taken(F[k - 1], Run(c[k - 1], c[k]))
      BY <1>5, <2>3
    <2> QED BY <2>1, <2>5, <2>6
  <1>9. n \in T
    <2> HIDE DEF T
    <2>1. 0..n \subseteq T
      BY <1>3, <1>7, <1>8, UpTo
    <2> QED BY <1>3, <2>1
  <1>10. Chain(Flush(F[n]), a, b, MaxWords)
    BY <1>6, <1>9, FlushChain
  <1> QED BY <1>5, <1>10

\* Packing sentences that fit keeps them all.
LEMMA PackChain ==
  ASSUME C!ChunkSettings, NEW list, NEW a, NEW b, Chain(list, a, b, MaxWords)
  PROVE  Chain(C!PackSentences(list), a, b, MaxWords)
  <1> DEFINE n == Len(list)
  <1>1. list \in Seq(Seq(Nat)) /\ n \in Nat /\ a \in Nat /\ b \in Nat /\ MaxWords \in Nat
    BY ChainEnds, LenProperties
  <1>2. PICK c : Cuts(c, list, a, b, MaxWords)
    BY DEF Chain
  <1>3. PICK F \in [0..n -> Seq(Seq(Nat))] :
           /\ F[0] = <<>> /\ F[n] = C!PackSentences(list)
           /\ \A k \in 1..n :
                LET p == F[k - 1] IN
                F[k] = IF p # <<>> /\ Len(p[Len(p)]) + Len(list[k]) <= MaxWords
                         THEN SubSeq(p, 1, Len(p) - 1) \o <<p[Len(p)] \o list[k]>>
                         ELSE Append(p, list[k])
    BY <1>1, PackSteps
  <1> DEFINE T == {k \in 0..n : Chain(F[k], a, c[k], MaxWords)}
  <1> HIDE DEF n
  <1>4. c[0] = a /\ c[n] = b
    BY <1>2 DEF Cuts, n
  <1>5. 0 \in T
    BY <1>1, <1>3, <1>4, ChainNone
  <1>6. ASSUME NEW k \in 1..n, k - 1 \in T PROVE k \in T
    <2> DEFINE p == F[k - 1]
    <2>1. k - 1 \in 0..n /\ k \in 0..n /\ k - 1 <= k
      BY <1>1
    <2>2. c[k - 1] \in Nat /\ c[k] \in Nat
      BY <1>1, <1>2, <2>1, CutsRise DEF n
    <2>3. c[k - 1] < c[k] /\ c[k] - c[k - 1] <= MaxWords /\ list[k] = Run(c[k - 1], c[k])
      BY <1>2 DEF Cuts, n
    <2>4. Len(list[k]) = c[k] - c[k - 1]
      <3>1. c[k - 1] <= c[k]
        BY <2>2, <2>3
      <3> QED BY <2>2, <2>3, <3>1, RunIs
    <2>5. Chain(p, a, c[k - 1], MaxWords)
      BY <1>6
    <2>6. \/ /\ p # <<>> /\ Len(p[Len(p)]) + Len(list[k]) <= MaxWords
             /\ F[k] = SubSeq(p, 1, Len(p) - 1) \o <<p[Len(p)] \o list[k]>>
          \/ F[k] = Append(p, list[k])
      BY <1>3
    <2> HIDE DEF p
    <2>7. CASE F[k] = Append(p, list[k])
      <3>1. Chain(F[k], a, c[k], MaxWords)
        BY <2>2, <2>3, <2>5, <2>7, ChainAppend
      <3> QED BY <2>1, <3>1
    <2>8. CASE /\ p # <<>> /\ Len(p[Len(p)]) + Len(list[k]) <= MaxWords
               /\ F[k] = SubSeq(p, 1, Len(p) - 1) \o <<p[Len(p)] \o list[k]>>
      <3>1. c[k - 1] <= c[k] /\ Len(p[Len(p)]) + (c[k] - c[k - 1]) <= MaxWords
        BY <2>2, <2>3, <2>4, <2>8
      <3>2. Chain(SubSeq(p, 1, Len(p) - 1) \o <<p[Len(p)] \o Run(c[k - 1], c[k])>>,
                  a, c[k], MaxWords)
        BY <2>2, <2>5, <2>8, <3>1, ChainExtend
      <3> QED BY <2>1, <2>3, <2>8, <3>2
    <2> QED BY <2>6, <2>7, <2>8
  <1>7. n \in T
    <2> HIDE DEF T
    <2>1. 0..n \subseteq T
      BY <1>1, <1>5, <1>6, UpTo
    <2> QED BY <1>1, <2>1
  <1> QED BY <1>3, <1>4, <1>7

\* The sentences of a review are all of its words, and each fits a chunk.
LEMMA SentencesChain ==
  ASSUME C!ChunkSettings, NEW r \in Reviews
  PROVE  Chain(C!SentencesOf(r), 0, r.words, MaxWords)
  <1> DEFINE w == r.words
             paragraphs == C!SplitAfter(Run(0, w), r.breaks)
             cut == [i \in DOMAIN paragraphs |-> C!SplitLongParagraph(paragraphs[i], r.ends)]
             pieces == C!FlattenSeq(cut)
             split == [i \in DOMAIN pieces |-> C!SplitAfter(pieces[i], r.ends)]
  <1>1. w \in Nat /\ MaxWords \in Nat /\ 0 <= w /\ w - 0 <= w /\ 0 \in Nat
    BY DEF C!ChunkSettings
  <1>2. [i \in 1..r.words |-> i] = Run(0, w)
    BY <1>1 DEF Run
  <1>3. C!SentencesOf(r) = C!FlattenSeq(split)
    BY <1>2 DEF C!SentencesOf
  <1>4. Chain(paragraphs, 0, w, w)
    BY <1>1, SplitChain
  <1> HIDE DEF paragraphs
  <1>5. paragraphs \in Seq(Seq(Nat)) /\ Len(paragraphs) \in Nat /\ DOMAIN paragraphs = 1..Len(paragraphs)
    BY <1>4, ChainEnds, LenProperties
  <1>6. PICK c : Cuts(c, paragraphs, 0, w, w)
    BY <1>4 DEF Chain
  <1>7. ASSUME NEW k \in 1..Len(paragraphs) PROVE Chain(cut[k], c[k - 1], c[k], MaxWords)
    <2>1. k - 1 \in 0..Len(paragraphs) /\ k \in 0..Len(paragraphs) /\ k - 1 <= k
      BY <1>5
    <2>2. c[k - 1] \in Nat /\ c[k] \in Nat /\ c[k - 1] <= c[k]
      BY <1>1, <1>5, <1>6, <2>1, CutsRise
    <2>3. cut[k] = C!SplitLongParagraph(Run(c[k - 1], c[k]), r.ends)
      BY <1>5, <1>6 DEF Cuts
    <2> QED BY <2>2, <2>3, SplitLongChain
  <1>8. cut \in Seq(Seq(Seq(Nat))) /\ Len(cut) = Len(paragraphs)
    <2>1. \A k \in 1..Len(paragraphs) : cut[k] \in Seq(Seq(Nat))
      BY <1>7, ChainEnds
    <2>2. cut \in [1..Len(paragraphs) -> Seq(Seq(Nat))]
      BY <1>5, <2>1
    <2> HIDE DEF cut
    <2> QED BY <1>5, <2>2, AsSeq
  <1>9. c[0] = 0 /\ c[Len(cut)] = w
    BY <1>6, <1>8 DEF Cuts
  <1>10. Chain(pieces, 0, w, MaxWords)
    <2> HIDE DEF cut
    <2>1. \A k \in 1..Len(cut) : Chain(cut[k], c[k - 1], c[k], MaxWords)
      BY <1>7, <1>8
    <2> HIDE DEF w
    <2> QED BY <1>1, <1>8, <1>9, <2>1, ChainsFlat
  <1> HIDE DEF pieces
  <1>11. pieces \in Seq(Seq(Nat)) /\ Len(pieces) \in Nat /\ DOMAIN pieces = 1..Len(pieces)
    BY <1>10, ChainEnds, LenProperties
  <1>12. PICK e : Cuts(e, pieces, 0, w, MaxWords)
    BY <1>10 DEF Chain
  <1>13. ASSUME NEW k \in 1..Len(pieces) PROVE Chain(split[k], e[k - 1], e[k], MaxWords)
    <2>1. k - 1 \in 0..Len(pieces) /\ k \in 0..Len(pieces) /\ k - 1 <= k
      BY <1>11
    <2>2. e[k - 1] \in Nat /\ e[k] \in Nat /\ e[k - 1] <= e[k]
      BY <1>1, <1>11, <1>12, <2>1, CutsRise
    <2>3. split[k] = C!SplitAfter(Run(e[k - 1], e[k]), r.ends) /\ e[k] - e[k - 1] <= MaxWords
      BY <1>11, <1>12 DEF Cuts
    <2> QED BY <1>1, <2>2, <2>3, SplitChain
  <1>14. split \in Seq(Seq(Seq(Nat))) /\ Len(split) = Len(pieces)
    <2>1. \A k \in 1..Len(pieces) : split[k] \in Seq(Seq(Nat))
      BY <1>13, ChainEnds
    <2>2. split \in [1..Len(pieces) -> Seq(Seq(Nat))]
      BY <1>11, <2>1
    <2> HIDE DEF split
    <2> QED BY <1>11, <2>2, AsSeq
  <1>15. e[0] = 0 /\ e[Len(split)] = w
    BY <1>12, <1>14 DEF Cuts
  <1> HIDE DEF split
  <1>16. \A k \in 1..Len(split) : Chain(split[k], e[k - 1], e[k], MaxWords)
    BY <1>13, <1>14
  <1>17. Chain(C!FlattenSeq(split), 0, w, MaxWords)
    <2> HIDE DEF w
    <2> QED BY <1>1, <1>14, <1>15, <1>16, ChainsFlat
  <1> QED BY <1>3, <1>17

-----------------------------------------------------------------------------
(* Groups: runs of sentences.                                               *)

\* The words of sentences a + 1 to b.
LEMMA TextOfRun ==
  ASSUME NEW w, NEW m \in Nat, sentences \in Seq(Seq(Nat)), w \in Nat, NEW c,
         Cuts(c, sentences, 0, w, m),
         NEW a \in 0..Len(sentences), NEW b \in 0..Len(sentences), a <= b
  PROVE  /\ C!TextOf(Run(a, b)) = Run(c[a], c[b])
         /\ C!WordsOf(Run(a, b)) = c[b] - c[a]
         /\ c[a] \in Nat /\ c[b] \in Nat /\ c[a] <= c[b]
  <1> DEFINE part1 == [i \in DOMAIN Run(a, b) |-> sentences[Run(a, b)[i]]]
             part2 == SubSeq(sentences, a + 1, b)
  <1>1. Len(sentences) \in Nat /\ a \in Nat /\ b \in Nat /\ 0 \in Nat
    BY LenProperties
  <1>2. c[a] \in Nat /\ c[b] \in Nat /\ c[a] <= c[b]
    BY <1>1, CutsRise
  <1>3. Chain(part2, c[a], c[b], m)
    BY <1>1, ChainPart
  <1>4. part1 = part2
    <2>1. DOMAIN Run(a, b) = 1..(b - a) /\ \A i \in 1..(b - a) : Run(a, b)[i] = a + i
      BY <1>1, RunIs
    <2>2. part1 = [i \in 1..(b - a) |-> sentences[a + i]]
      BY <2>1
    <2>3. /\ part2 \in Seq(Seq(Nat)) /\ Len(part2) = b - a
          /\ \A i \in 1..(b - a) : part2[i] = sentences[a + i]
      BY PartOf
    <2>4. DOMAIN part2 = 1..(b - a)
      BY <2>3, LenProperties
    <2> HIDE DEF part1, part2
    <2>5. part2 = [i \in 1..(b - a) |-> part2[i]]
      BY <2>3, <2>4
    <2> QED BY <2>2, <2>3, <2>5
  <1>5. C!TextOf(Run(a, b)) = Run(c[a], c[b])
    <2>1. C!FlattenSeq(part2) = Run(c[a], c[b])
      BY <1>3, ChainFlat
    <2>2. C!TextOf(Run(a, b)) = C!FlattenSeq(part1)
      BY DEF C!TextOf
    <2> QED BY <1>4, <2>1, <2>2
  <1>6. C!WordsOf(Run(a, b)) = c[b] - c[a]
    BY <1>2, <1>5, RunIs DEF C!WordsOf
  <1> QED BY <1>2, <1>5, <1>6

\* Sentences and groups as the cuts of the review and of the sentences.
Grouped(c, g, G) ==
  /\ Cuts(c, sentences, 0, review.words, MaxWords)
  /\ Cuts(g, G, 0, Len(sentences), Len(sentences))
  /\ \A p \in 1..Len(G) :
       /\ g[p - 1] \in 0..Len(sentences) /\ g[p] \in 0..Len(sentences) /\ g[p - 1] < g[p]
       /\ G[p] = Run(g[p - 1], g[p])
       /\ C!TextOf(G[p]) = Run(c[g[p - 1]], c[g[p]])
       /\ C!WordsOf(G[p]) = c[g[p]] - c[g[p - 1]]
       /\ c[g[p - 1]] \in Nat /\ c[g[p]] \in Nat /\ c[g[p - 1]] < c[g[p]]

Sentenced == Chain(sentences, 0, review.words, MaxWords)
InGroups == Sentenced /\ Chain(groups, 0, Len(sentences), Len(sentences))

LEMMA GroupsAre ==
  ASSUME Sentenced, NEW G, Chain(G, 0, Len(sentences), Len(sentences))
  PROVE  /\ \E c, g : Grouped(c, g, G)
         /\ Len(sentences) \in Nat /\ Len(G) \in Nat /\ DOMAIN G = 1..Len(G)
         /\ MaxWords \in Nat /\ review.words \in Nat /\ G \in Seq(Seq(Nat))
  <1>1. /\ sentences \in Seq(Seq(Nat)) /\ G \in Seq(Seq(Nat)) /\ review.words \in Nat
        /\ MaxWords \in Nat /\ Len(sentences) \in Nat /\ Len(G) \in Nat /\ 0 \in Nat
        /\ DOMAIN G = 1..Len(G)
    BY ChainEnds, LenProperties DEF Sentenced
  <1>2. PICK c : Cuts(c, sentences, 0, review.words, MaxWords)
    BY DEF Sentenced, Chain
  <1>3. PICK g : Cuts(g, G, 0, Len(sentences), Len(sentences))
    BY DEF Chain
  <1>4. ASSUME NEW p \in 1..Len(G)
        PROVE  /\ g[p - 1] \in 0..Len(sentences) /\ g[p] \in 0..Len(sentences) /\ g[p - 1] < g[p]
               /\ G[p] = Run(g[p - 1], g[p])
               /\ C!TextOf(G[p]) = Run(c[g[p - 1]], c[g[p]])
               /\ C!WordsOf(G[p]) = c[g[p]] - c[g[p - 1]]
               /\ c[g[p - 1]] \in Nat /\ c[g[p]] \in Nat /\ c[g[p - 1]] < c[g[p]]
    <2>1. g[p - 1] < g[p] /\ G[p] = Run(g[p - 1], g[p])
      BY <1>3 DEF Cuts
    <2>2. g[p - 1] \in 0..Len(sentences) /\ g[p] \in 0..Len(sentences)
      <3>1. p - 1 \in 0..Len(G) /\ p \in 0..Len(G)
        BY <1>1
      <3>2. g \in [0..Len(G) -> 0..Len(sentences)]
        BY <1>3 DEF Cuts
      <3> QED BY <3>1, <3>2
    <2> DEFINE x == g[p - 1]
               y == g[p]
    <2> HIDE DEF x, y
    <2>3. x \in 0..Len(sentences) /\ y \in 0..Len(sentences) /\ x < y /\ x <= y
      BY <1>1, <2>1, <2>2 DEF x, y
    <2>4. /\ C!TextOf(Run(x, y)) = Run(c[x], c[y]) /\ C!WordsOf(Run(x, y)) = c[y] - c[x]
          /\ c[x] \in Nat /\ c[y] \in Nat /\ c[x] <= c[y]
      BY <1>1, <1>2, <2>3, TextOfRun
    <2>5. c[x] < c[y]
      <3>1. x + 1 \in 1..Len(sentences) /\ x + 1 \in 0..Len(sentences) /\ x + 1 <= y /\ (x + 1) - 1 = x
        BY <1>1, <2>3
      <3>2. c[(x + 1) - 1] < c[x + 1]
        BY <1>2, <3>1 DEF Cuts
      <3>3. c[x + 1] <= c[y] /\ c[x + 1] \in Nat
        BY <1>1, <1>2, <2>3, <3>1, CutsRise
      <3>4. c[x] < c[x + 1]
        BY <3>1, <3>2
      <3> QED BY <2>4, <3>3, <3>4
    <2> QED BY <2>1, <2>2, <2>4, <2>5 DEF x, y
  <1>5. Grouped(c, g, G)
    BY <1>2, <1>3, <1>4 DEF Grouped
  <1> QED BY <1>1, <1>5

LEMMA MostOf ==
  ASSUME NEW T \in SUBSET Nat, T # {}, NEW k \in Nat, \A i \in T : i <= k
  PROVE  C!Max(T) \in T
  <1>1. \E x \in T : \A y \in T : x >= y
    BY Greatest
  <1> QED BY <1>1 DEF C!Max

LEMMA LeastOf ==
  ASSUME NEW T \in SUBSET Nat, T # {}
  PROVE  /\ C!Min(T) \in T /\ \A i \in T : C!Min(T) <= i
         /\ S!Min(T) \in T /\ \A i \in T : S!Min(T) <= i
  <1>1. \E x \in T : \A y \in T : x <= y
    BY Least
  <1>2. C!Min(T) \in T /\ \A i \in T : C!Min(T) <= i
    BY <1>1 DEF C!Min
  <1>3. S!Min(T) \in T /\ \A i \in T : S!Min(T) <= i
    BY <1>1 DEF S!Min
  <1> QED BY <1>2, <1>3

Distanced == distances \in [1..(Len(sentences) - 1) -> 0..MaxDistance] /\ MaxDistance \in Nat

\* A group of two sentences or more is cut inside.
LEMMA SeamInside ==
  ASSUME Distanced, Len(sentences) \in Nat, NEW a \in Nat, NEW b \in Nat,
         a + 2 <= b, b <= Len(sentences)
  PROVE  /\ C!WeakestSeam(Run(a, b)) \in (a + 1)..(b - 1)
         /\ C!Head(Run(a, b)) = a + 1
  <1> DEFINE seams == {i \in C!ToSet(Run(a, b)) : i # C!Last(Run(a, b))}
             gaps == {distances[i] : i \in seams}
             worst == C!Max(gaps)
             worsts == {i \in seams : distances[i] = worst}
  <1>1. /\ Run(a, b) \in Seq(Nat) /\ Len(Run(a, b)) = b - a /\ DOMAIN Run(a, b) = 1..(b - a)
        /\ \A i \in 1..(b - a) : Run(a, b)[i] = a + i
    <2>1. a <= b
      OBVIOUS
    <2> HIDE DEF Run
    <2> QED BY <2>1, RunIs
  <1>2. C!Last(Run(a, b)) = b
    <2>1. b - a \in 1..(b - a) /\ a + (b - a) = b
      OBVIOUS
    <2> HIDE DEF Run
    <2> QED BY <1>1, <2>1 DEF C!Last
  <1>3. C!ToSet(Run(a, b)) = (a + 1)..b
    <2>1. ASSUME NEW i \in 1..(b - a) PROVE Run(a, b)[i] \in (a + 1)..b
      BY <1>1
    <2>2. ASSUME NEW x \in (a + 1)..b PROVE \E i \in 1..(b - a) : Run(a, b)[i] = x
      <3>1. x - a \in 1..(b - a) /\ a + (x - a) = x
        OBVIOUS
      <3> QED BY <1>1, <3>1
    <2>3. C!ToSet(Run(a, b)) = {Run(a, b)[i] : i \in 1..(b - a)}
      BY <1>1 DEF C!ToSet
    <2> HIDE DEF Run
    <2> QED BY <2>1, <2>2, <2>3
  <1>4. seams = (a + 1)..(b - 1)
    <2> HIDE DEF Run
    <2>1. seams = {i \in (a + 1)..b : i # b}
      BY <1>2, <1>3
    <2> QED BY <2>1
  <1> HIDE DEF seams
  <1>5. \A i \in seams : distances[i] \in 0..MaxDistance
    <2>1. \A i \in seams : i \in 1..(Len(sentences) - 1)
      BY <1>4
    <2> QED BY <2>1 DEF Distanced
  <1>6. a + 1 \in seams
    BY <1>4
  <1>7. worst \in gaps
    <2>1. gaps \in SUBSET Nat /\ gaps # {} /\ \A x \in gaps : x <= MaxDistance
      BY <1>5, <1>6 DEF Distanced
    <2> HIDE DEF gaps
    <2> QED BY <2>1, MostOf DEF Distanced
  <1> HIDE DEF worst
  <1>8. C!Max(worsts) \in worsts
    <2>1. worsts # {}
      BY <1>7
    <2>2. worsts \in SUBSET Nat /\ \A i \in worsts : i <= b
      BY <1>4
    <2> HIDE DEF worsts
    <2> QED BY <2>1, <2>2, MostOf
  <1>9. C!WeakestSeam(Run(a, b)) = C!Max(worsts)
    BY DEF C!WeakestSeam, seams, worst
  <1>10. C!Head(Run(a, b)) = a + 1
    <2>1. 1 \in 1..(b - a)
      OBVIOUS
    <2> HIDE DEF Run
    <2> QED BY <1>1, <2>1
  <1> QED BY <1>4, <1>8, <1>9, <1>10

-----------------------------------------------------------------------------
(* The chunker.                                                             *)

ChunkInv ==
  /\ review \in Reviews
  /\ stage \in {"review", "embed", "split", "merge", "packed", "done"}
  /\ stage = "review" => sentences = <<>>
  /\ stage \in {"review", "embed"} => groups = <<>> /\ distances = <<>>
  /\ sentences = <<>> \/ Sentenced
  /\ stage \in {"embed", "split", "merge"} => Sentenced
  /\ distances = <<>> \/ Distanced
  /\ groups = <<>> \/ InGroups
  /\ stage \in {"split", "merge"} => Distanced /\ InGroups
  /\ stage = "merge" => \A p \in 1..Len(groups) : C!WordsOf(groups[p]) <= MaxWords
  /\ stage \notin {"packed", "done"} => chunks = <<>>
  /\ stage \in {"packed", "done"} => Chain(chunks, 0, review.words, MaxWords)
  /\ C!NoStrayLeft

LEMMA ChunkInit ==
  ASSUME C!Init
  PROVE  ChunkInv
  BY DEF C!Init, ChunkInv, C!NoStrayLeft

\* At most one chunk leaves nothing to join.
LEMMA OneChunk ==
  ASSUME NEW l \in 0..1
  PROVE  1..(l - 1) = {}
  OBVIOUS

LEMMA ReviewChunked ==
  ASSUME C!ChunkSettings, ChunkInv, C!ChunkReview
  PROVE  ChunkInv'
  <1>1. /\ stage = "review" /\ sentences = <<>> /\ chunks = <<>> /\ groups = <<>> /\ distances = <<>>
        /\ review \in Reviews /\ UNCHANGED <<review, distances, groups>>
        /\ review.words \in Nat /\ MaxWords \in Nat /\ MinWords \in Nat /\ MinWords < MaxWords
    BY DEF ChunkInv, C!ChunkReview, C!ChunkSettings
  <1>2. CASE review.words <= MinWords
    <2>1. /\ chunks' = IF review.words = 0 THEN <<>> ELSE <<[i \in 1..review.words |-> i]>>
          /\ stage' = "done" /\ sentences' = sentences
      BY <1>2 DEF C!ChunkReview
    <2>2. Chain(chunks', 0, review.words, MaxWords) /\ Len(chunks') \in 0..1
      <3>1. CASE review.words = 0
        <4>1. chunks' = <<>>
          BY <2>1, <3>1
        <4> QED BY <1>1, <3>1, <4>1, ChainNone
      <3>2. CASE review.words # 0
        <4>1. chunks' = <<Run(0, review.words)>>
          BY <1>1, <2>1, <3>2 DEF Run
        <4>2. 0 \in Nat /\ 0 < review.words /\ review.words - 0 <= MaxWords
          BY <1>1, <1>2, <3>2
        <4> QED BY <1>1, <4>1, <4>2, ChainOne
      <3> QED BY <3>1, <3>2
    <2>3. C!NoStrayLeft'
      <3>1. 1..(Len(chunks') - 1) = {}
        BY <2>2, OneChunk
      <3> QED BY <3>1 DEF C!NoStrayLeft
    <2> QED BY <1>1, <2>1, <2>2, <2>3 DEF ChunkInv
  <1>3. CASE ~(review.words <= MinWords)
    <2>1. /\ sentences' = C!SentencesOf(review)
          /\ \/ Len(sentences') = 1 /\ chunks' = sentences' /\ stage' = "done"
             \/ stage' = "embed" /\ chunks' = chunks
      BY <1>3 DEF C!ChunkReview
    <2>2. Chain(sentences', 0, review.words, MaxWords)
      BY <1>1, <2>1, SentencesChain
    <2>3. Sentenced'
      BY <1>1, <2>2 DEF Sentenced
    <2>4. CASE Len(sentences') = 1 /\ chunks' = sentences' /\ stage' = "done"
      <3>1. 1..(Len(chunks') - 1) = {}
        <4>1. Len(chunks') \in 0..1
          BY <2>4
        <4> QED BY <4>1, OneChunk
      <3>2. C!NoStrayLeft'
        BY <3>1 DEF C!NoStrayLeft
      <3> QED BY <1>1, <2>2, <2>3, <2>4, <3>2 DEF ChunkInv
    <2>5. CASE stage' = "embed" /\ chunks' = chunks
      <3>1. C!NoStrayLeft'
        BY <2>5 DEF C!NoStrayLeft
      <3> QED BY <1>1, <2>3, <2>5, <3>1 DEF ChunkInv
    <2> QED BY <2>1, <2>4, <2>5
  <1> QED BY <1>2, <1>3

LEMMA Embedded ==
  ASSUME C!ChunkSettings, ChunkInv, C!Embed
  PROVE  ChunkInv'
  <1> DEFINE n == Len(sentences)
  <1>1. /\ stage = "embed" /\ stage' = "split" /\ Sentenced /\ chunks = <<>>
        /\ UNCHANGED <<review, sentences, chunks>> /\ MaxDistance \in Nat /\ review \in Reviews
    BY DEF ChunkInv, C!Embed, C!ChunkSettings
  <1>2. PICK d \in [1..(n - 1) -> 0..MaxDistance] :
           /\ distances' = d
           /\ groups' = C!SplitAfter([i \in DOMAIN sentences |-> i], C!TopicBoundaries(d))
    BY DEF C!Embed, C!Distances
  <1>3. n \in Nat /\ DOMAIN sentences = 1..n
    BY <1>1, ChainEnds, LenProperties DEF Sentenced
  <1>4. [i \in DOMAIN sentences |-> i] = Run(0, n)
    BY <1>3 DEF Run
  <1>5. Chain(groups', 0, n, n)
    <2>1. 0 \in Nat /\ 0 <= n /\ n - 0 <= n
      BY <1>3
    <2> HIDE DEF n
    <2> QED BY <1>2, <1>3, <1>4, <2>1, SplitChain
  <1>6. Sentenced'
    BY <1>1 DEF Sentenced
  <1>7. InGroups'
    BY <1>1, <1>5, <1>6 DEF InGroups
  <1>8. Distanced'
    BY <1>1, <1>2 DEF Distanced
  <1>9. C!NoStrayLeft'
    BY <1>1 DEF C!NoStrayLeft
  <1> QED BY <1>1, <1>6, <1>7, <1>8, <1>9 DEF ChunkInv

LEMMA PackedInstead ==
  ASSUME C!ChunkSettings, ChunkInv, C!EmbedMismatch
  PROVE  ChunkInv'
  <1>1. /\ stage = "embed" /\ stage' = "packed" /\ Sentenced /\ review \in Reviews
        /\ groups = <<>> /\ distances = <<>>
        /\ UNCHANGED <<review, sentences, distances, groups>>
        /\ chunks' = C!PackSentences(sentences)
    BY DEF ChunkInv, C!EmbedMismatch
  <1>2. Chain(chunks', 0, review.words, MaxWords)
    BY <1>1, PackChain DEF Sentenced
  <1>3. Sentenced' /\ C!NoStrayLeft'
    BY <1>1 DEF Sentenced, C!NoStrayLeft
  <1> QED BY <1>1, <1>2, <1>3 DEF ChunkInv

LEMMA PairOf ==
  ASSUME NEW x, NEW y
  PROVE  <<x>> \o <<y>> = <<x, y>>
  <1> DEFINE X == {x, y}
  <1>1. <<x>> \in Seq(X) /\ Len(<<x>>) = 1 /\ <<y>> \in Seq(X) /\ <<x>>[1] = x
    OBVIOUS
  <1>2. Append(<<x>>, y) = <<x>> \o <<y>>
    BY <1>1, AppendIsConcat
  <1>3. Append(<<x>>, y) = <<x, y>>
    <2> DEFINE q == Append(<<x>>, y)
               pair == <<x, y>>
    <2>1. q \in Seq(X) /\ Len(q) = 2 /\ q[1] = x /\ q[2] = y
      BY <1>1, AppendProperties
    <2>2. pair \in Seq(X) /\ Len(pair) = 2 /\ pair[1] = x /\ pair[2] = y
      OBVIOUS
    <2> HIDE DEF q, pair, X
    <2>3. Len(q) = Len(pair) /\ \A i \in 1..Len(q) : q[i] = pair[i]
      BY <2>1, <2>2
    <2>4. q = pair
      BY <2>1, <2>2, <2>3, SeqEqual
    <2> QED BY <2>4 DEF q, pair
  <1> QED BY <1>2, <1>3

\* The number of words of the sentences s numbered in g.
WordsIn(s, g) == Len(C!FlattenSeq([i \in DOMAIN g |-> s[g[i]]]))

\* A group cut in two, or two joined: the groups remain a chain.
LEMMA RegroupedStays ==
  ASSUME ChunkInv, stage \in {"split", "merge"}, stage' = stage,
         UNCHANGED <<review, sentences, distances, chunks>>,
         Chain(groups', 0, Len(sentences), Len(sentences)),
         stage = "merge" => \A p \in 1..Len(groups') : C!WordsOf(groups'[p]) <= MaxWords
  PROVE  ChunkInv'
  <1>1. Sentenced' /\ Distanced' /\ InGroups'
    BY DEF ChunkInv, Sentenced, Distanced, InGroups
  <1>2. C!NoStrayLeft'
    BY DEF C!NoStrayLeft
  <1>3. stage' = "merge" => (\A p \in 1..Len(groups) : C!WordsOf(groups[p]) <= MaxWords)'
    <2>1. \A p \in 1..Len(groups') : C!WordsOf(groups'[p]) = WordsIn(sentences, groups'[p])
      BY DEF C!WordsOf, C!TextOf, WordsIn
    <2>2. (\A p \in 1..Len(groups) : C!WordsOf(groups[p]) = WordsIn(sentences, groups[p]))'
      BY DEF C!WordsOf, C!TextOf, WordsIn
    <2> QED BY <2>1, <2>2
  <1> QED BY <1>1, <1>2, <1>3 DEF ChunkInv

\* Groups i + 1 to j, put otherwise.
LEMMA Regrouped ==
  ASSUME NEW n \in Nat, groups \in Seq(Seq(Nat)), NEW g, Cuts(g, groups, 0, n, n),
         NEW i \in 0..Len(groups), NEW j \in 0..Len(groups), i <= j,
         NEW others, Chain(others, g[i], g[j], n)
  PROVE  Chain(SubSeq(groups, 1, i) \o others \o SubSeq(groups, j + 1, Len(groups)), 0, n, n)
  <1>1. Len(groups) \in Nat /\ 0 \in Nat /\ 0 \in 0..Len(groups) /\ Len(groups) \in 0..Len(groups)
        /\ 0 <= i /\ j <= Len(groups)
    BY LenProperties
  <1>2. g[0] = 0 /\ g[Len(groups)] = n
    BY DEF Cuts
  <1>3. Chain(SubSeq(groups, 1, i), 0, g[i], n)
    <2>1. Chain(SubSeq(groups, 0 + 1, i), g[0], g[i], n)
      BY <1>1, ChainPart
    <2> QED BY <1>2, <2>1
  <1>4. Chain(SubSeq(groups, j + 1, Len(groups)), g[j], n, n)
    <2>1. Chain(SubSeq(groups, j + 1, Len(groups)), g[j], g[Len(groups)], n)
      BY <1>1, ChainPart
    <2> QED BY <1>2, <2>1
  <1>5. Chain(SubSeq(groups, 1, i) \o others, 0, g[j], n)
    BY <1>3, ChainConcat
  <1> QED BY <1>4, <1>5, ChainConcat

LEMMA SplitInTwo ==
  ASSUME C!ChunkSettings, ChunkInv, C!SplitOversized
  PROVE  ChunkInv'
  <1> DEFINE n == Len(sentences)
             l == Len(groups)
  <1>1. /\ stage = "split" /\ stage' = stage /\ Sentenced /\ Distanced
        /\ Chain(groups, 0, n, n) /\ UNCHANGED <<review, sentences, distances, chunks>>
    BY DEF ChunkInv, C!SplitOversized, InGroups
  <1>2. /\ n \in Nat /\ l \in Nat /\ DOMAIN groups = 1..l /\ groups \in Seq(Seq(Nat))
        /\ \E c, g : Grouped(c, g, groups)
    BY <1>1, GroupsAre
  <1>3. PICK c, g : Grouped(c, g, groups)
    BY <1>2
  <1>4. PICK p \in 1..l :
           /\ Len(groups[p]) >= 2
           /\ LET cut == C!WeakestSeam(groups[p]) - C!Head(groups[p]) + 1
                  left == SubSeq(groups[p], 1, cut)
                  right == SubSeq(groups[p], cut + 1, Len(groups[p]))
              IN  groups' = SubSeq(groups, 1, p - 1) \o <<left, right>>
                              \o SubSeq(groups, p + 1, Len(groups))
    BY <1>2 DEF C!SplitOversized, C!Oversized
  <1> DEFINE a == g[p - 1]
             b == g[p]
             cut == C!WeakestSeam(Run(a, b)) - C!Head(Run(a, b)) + 1
  <1>5. /\ a \in 0..n /\ b \in 0..n /\ a < b /\ groups[p] = Run(a, b)
    BY <1>3 DEF Grouped
  <1>6. a \in Nat /\ b \in Nat /\ a <= b /\ b <= n
    BY <1>2, <1>5
  <1>7. Len(groups[p]) = b - a
    BY <1>5, <1>6, RunIs
  <1>8. a + 2 <= b
    BY <1>4, <1>6, <1>7
  <1>9. cut \in 1..(b - a - 1)
    <2>1. C!WeakestSeam(Run(a, b)) \in (a + 1)..(b - 1) /\ C!Head(Run(a, b)) = a + 1
      BY <1>1, <1>2, <1>6, <1>8, SeamInside
    <2> HIDE DEF a, b
    <2> QED BY <1>6, <2>1
  <1> HIDE DEF cut, a, b
  <1>10. SubSeq(Run(a, b), 1, cut) = Run(a, a + cut)
    <2>1. 0 \in Nat /\ cut \in Nat /\ 0 <= cut /\ a + cut <= b /\ a + 0 = a
      BY <1>6, <1>9
    <2>2. SubSeq(Run(a, b), 0 + 1, cut) = Run(a + 0, a + cut)
      BY <1>6, <2>1, RunPart
    <2> QED BY <2>1, <2>2
  <1>11. SubSeq(Run(a, b), cut + 1, b - a) = Run(a + cut, b)
    <2>1. cut \in Nat /\ b - a \in Nat /\ cut <= b - a /\ a + (b - a) <= b /\ a + (b - a) = b
      BY <1>6, <1>9
    <2>2. SubSeq(Run(a, b), cut + 1, b - a) = Run(a + cut, a + (b - a))
      BY <1>6, <2>1, RunPart
    <2> QED BY <2>1, <2>2
  <1> DEFINE halves == <<Run(a, a + cut), Run(a + cut, b)>>
  <1>12. groups' = SubSeq(groups, 1, p - 1) \o halves \o SubSeq(groups, p + 1, Len(groups))
    BY <1>4, <1>5, <1>7, <1>10, <1>11 DEF cut
  <1>13. Chain(halves, a, b, n)
    <2> DEFINE d == a + cut
    <2>1. d \in Nat /\ a < d /\ d - a <= n /\ d < b /\ b - d <= n
      BY <1>2, <1>6, <1>9
    <2> HIDE DEF d
    <2>2. Chain(<<Run(a, d)>>, a, d, n) /\ Chain(<<Run(d, b)>>, d, b, n)
      BY <1>2, <1>6, <2>1, ChainOne
    <2>3. Chain(<<Run(a, d)>> \o <<Run(d, b)>>, a, b, n)
      BY <2>2, ChainConcat
    <2>4. <<Run(a, d)>> \o <<Run(d, b)>> = <<Run(a, d), Run(d, b)>>
      BY PairOf
    <2>5. Chain(<<Run(a, d), Run(d, b)>>, a, b, n)
      BY <2>3, <2>4
    <2> QED BY <2>5 DEF d
  <1> HIDE DEF halves, n, l
  <1>14. Chain(groups', 0, n, n)
    <2>1. p - 1 \in 0..l /\ p \in 0..l /\ p - 1 <= p /\ Cuts(g, groups, 0, n, n)
      BY <1>2, <1>3 DEF Grouped, n
    <2>2. Chain(halves, g[p - 1], g[p], n)
      BY <1>13 DEF a, b
    <2>3. Chain(SubSeq(groups, 1, p - 1) \o halves \o SubSeq(groups, p + 1, Len(groups)), 0, n, n)
      BY <1>2, <2>1, <2>2, Regrouped DEF l
    <2> QED BY <1>12, <2>3
  <1> QED BY <1>1, <1>14, RegroupedStays DEF n

\* When no group can be split any more, every group fits.
LEMMA SplitEnded ==
  ASSUME C!ChunkSettings, ChunkInv, C!SplitDone
  PROVE  ChunkInv'
  <1> DEFINE n == Len(sentences)
             l == Len(groups)
  <1>1. /\ stage = "split" /\ stage' = "merge" /\ Sentenced /\ Distanced
        /\ Chain(groups, 0, n, n)
        /\ UNCHANGED <<review, sentences, distances, groups, chunks>>
        /\ \A p \in DOMAIN groups : ~C!Oversized(groups[p])
    BY DEF ChunkInv, C!SplitDone, InGroups
  <1>2. /\ n \in Nat /\ l \in Nat /\ DOMAIN groups = 1..l /\ groups \in Seq(Seq(Nat))
        /\ MaxWords \in Nat /\ \E c, g : Grouped(c, g, groups)
    BY <1>1, GroupsAre
  <1>3. PICK c, g : Grouped(c, g, groups)
    BY <1>2
  <1>4. ASSUME NEW p \in 1..l PROVE C!WordsOf(groups[p]) <= MaxWords
    <2> DEFINE a == g[p - 1]
               b == g[p]
    <2>1. /\ a \in 0..n /\ b \in 0..n /\ a < b /\ groups[p] = Run(a, b)
          /\ C!WordsOf(groups[p]) = c[b] - c[a] /\ c[a] \in Nat /\ c[b] \in Nat
      BY <1>3 DEF Grouped
    <2>2. a \in Nat /\ b \in Nat /\ a <= b
      BY <1>2, <2>1
    <2>3. Len(groups[p]) = b - a
      BY <2>1, <2>2, RunIs
    <2>4. CASE b - a >= 2
      <3>1. ~(C!WordsOf(groups[p]) > MaxWords)
        BY <1>1, <1>2, <2>3, <2>4 DEF C!Oversized
      <3> HIDE DEF a, b
      <3> QED BY <1>2, <2>1, <3>1
    <2>5. CASE ~(b - a >= 2)
      <3> HIDE DEF a, b, n
      <3>1. b - 1 = a /\ b \in 1..n
        BY <1>2, <2>1, <2>2, <2>5
      <3>2. c[b] - c[b - 1] <= MaxWords
        BY <1>3, <3>1 DEF Grouped, Cuts, n
      <3> QED BY <2>1, <3>1, <3>2
    <2> QED BY <2>4, <2>5
  <1>5. Sentenced' /\ Distanced' /\ InGroups'
    BY <1>1 DEF Sentenced, Distanced, InGroups
  <1>6. C!NoStrayLeft'
    BY <1>1 DEF C!NoStrayLeft
  <1>7. (\A p \in 1..Len(groups) : C!WordsOf(groups[p]) <= MaxWords)'
    <2>1. \A p \in 1..Len(groups') : C!WordsOf(groups'[p]) = WordsIn(sentences, groups'[p])
      BY DEF C!WordsOf, C!TextOf, WordsIn
    <2>2. (\A p \in 1..Len(groups) : C!WordsOf(groups[p]) = WordsIn(sentences, groups[p]))'
      BY DEF C!WordsOf, C!TextOf, WordsIn
    <2>3. \A p \in 1..Len(groups') : C!WordsOf(groups'[p]) <= MaxWords
      BY <1>1, <1>4
    <2> QED BY <1>1, <2>1, <2>2, <2>3
  <1>8. chunks' = <<>> /\ review' \in Reviews
    BY <1>1 DEF ChunkInv
  <1> QED BY <1>1, <1>5, <1>6, <1>7, <1>8 DEF ChunkInv

\* The place _merge_undersized chooses for an undersized group has a neighbour,
\* and the two fit together.
LEMMA JoinPlace ==
  ASSUME InGroups, Distanced, NEW p, C!MergeOptions(p) # {}
  PROVE  /\ C!BestOption(p) \in 1..(Len(groups) - 1)
         /\ C!WordsOf(groups[C!BestOption(p)]) + C!WordsOf(groups[C!BestOption(p) + 1]) <= MaxWords
  <1> DEFINE n == Len(sentences)
             lefts == {l \in {p - 1, p} \cap (1..(Len(groups) - 1)) :
                         C!WordsOf(groups[l]) + C!WordsOf(groups[l + 1]) <= MaxWords}
             options == {[gap |-> distances[C!Last(groups[left])], left |-> left] : left \in lefts}
             gaps == {o.gap : o \in options}
             least == C!Min(gaps)
             bests == {o.left : o \in {o \in options : o.gap = least}}
  <1>1. /\ n \in Nat /\ Len(groups) \in Nat /\ DOMAIN groups = 1..Len(groups)
        /\ \E c, g : Grouped(c, g, groups)
    BY GroupsAre DEF InGroups
  <1>2. PICK c, g : Grouped(c, g, groups)
    BY <1>1
  <1>3. options = C!MergeOptions(p) /\ C!BestOption(p) = C!Min(bests)
    BY DEF C!MergeOptions, C!BestOption
  <1>4. lefts \in SUBSET (1..(Len(groups) - 1)) /\ lefts # {}
    BY <1>3
  <1>5. ASSUME NEW l \in 1..(Len(groups) - 1) PROVE distances[C!Last(groups[l])] \in Nat
    <2> DEFINE a == g[l - 1]
               b == g[l]
               d == g[l + 1]
    <2>1. l \in 1..Len(groups) /\ l + 1 \in 1..Len(groups) /\ (l + 1) - 1 = l
      BY <1>1
    <2>2. a \in 0..n /\ b \in 0..n /\ a < b /\ groups[l] = Run(a, b)
      BY <1>2, <2>1 DEF Grouped
    <2>3. b < d /\ d \in 0..n
      BY <1>2, <2>1 DEF Grouped
    <2> HIDE DEF a, b, d, n
    <2>4. a \in Nat /\ b \in Nat /\ a <= b /\ b - a \in 1..(b - a) /\ a + (b - a) = b /\ b \in 1..(n - 1)
      BY <1>1, <2>2, <2>3
    <2>5. Len(groups[l]) = b - a /\ groups[l][b - a] = b
      BY <2>2, <2>4, RunIs
    <2>6. C!Last(groups[l]) = b
      BY <2>5 DEF C!Last
    <2>7. distances[b] \in 0..MaxDistance
      BY <2>4 DEF Distanced, n
    <2> QED BY <2>6, <2>7 DEF Distanced
  <1> HIDE DEF lefts
  <1>6. gaps \in SUBSET Nat /\ gaps # {}
    <2>1. ASSUME NEW o \in options PROVE o.gap \in Nat
      <3>1. PICK l \in lefts : o = [gap |-> distances[C!Last(groups[l])], left |-> l]
        BY <2>1
      <3>2. l \in 1..(Len(groups) - 1)
        BY <1>4, <3>1
      <3>3. distances[C!Last(groups[l])] \in Nat
        BY <1>5, <3>2
      <3> QED BY <3>1, <3>3
    <2>2. PICK o \in options : TRUE
      BY <1>4
    <2>3. o.gap \in gaps
      OBVIOUS
    <2> HIDE DEF options
    <2> QED BY <2>1, <2>3
  <1>7. least \in gaps
    <2> HIDE DEF gaps
    <2> QED BY <1>6, LeastOf
  <1> HIDE DEF least
  <1>8. bests \in SUBSET lefts /\ bests # {}
    BY <1>7
  <1>9. C!Min(bests) \in bests
    <2>1. bests \in SUBSET Nat
      BY <1>4, <1>8
    <2> HIDE DEF bests
    <2> QED BY <1>8, <2>1, LeastOf
  <1>10. C!BestOption(p) \in lefts
    BY <1>3, <1>8, <1>9
  <1> QED BY <1>10 DEF lefts

LEMMA MergedInOne ==
  ASSUME C!ChunkSettings, ChunkInv, C!MergeUndersized
  PROVE  ChunkInv'
  <1> DEFINE n == Len(sentences)
             l == Len(groups)
             place == C!BestOption(C!Min(C!Mergeable))
             P == {x \in Seq(Nat) : C!WordsOf(x) <= MaxWords}
  <1>1. /\ stage = "merge" /\ stage' = stage /\ Sentenced /\ Distanced /\ InGroups
        /\ Chain(groups, 0, n, n) /\ C!Mergeable # {}
        /\ UNCHANGED <<review, sentences, distances, chunks>>
        /\ groups' = C!Join(place)
        /\ \A p \in 1..l : C!WordsOf(groups[p]) <= MaxWords
    BY DEF ChunkInv, C!MergeUndersized, InGroups
  <1>2. /\ n \in Nat /\ l \in Nat /\ DOMAIN groups = 1..l /\ groups \in Seq(Seq(Nat))
        /\ MaxWords \in Nat /\ review.words \in Nat
        /\ \E c, g : Grouped(c, g, groups)
    BY <1>1, GroupsAre
  <1>3. PICK c, g : Grouped(c, g, groups)
    BY <1>2
  <1>4. C!Min(C!Mergeable) \in C!Mergeable
    <2>1. C!Mergeable \in SUBSET Nat
      BY <1>2 DEF C!Mergeable
    <2> QED BY <1>1, <2>1, LeastOf
  <1>5. C!MergeOptions(C!Min(C!Mergeable)) # {}
    <2> DEFINE least == C!Min(C!Mergeable)
    <2> HIDE DEF least
    <2>1. least \in C!Mergeable
      BY <1>4 DEF least
    <2>2. C!MergeOptions(least) # {}
      BY <2>1 DEF C!Mergeable
    <2> QED BY <2>2 DEF least
  <1>6. /\ place \in 1..(l - 1)
        /\ C!WordsOf(groups[place]) + C!WordsOf(groups[place + 1]) <= MaxWords
    BY <1>1, <1>5, JoinPlace
  <1> HIDE DEF place
  <1> DEFINE a == g[place - 1]
             d == g[place]
             b == g[place + 1]
             one == groups[place] \o groups[place + 1]
  <1>7. /\ place - 1 \in 0..l /\ place + 1 \in 0..l /\ place - 1 <= place + 1 /\ place \in 1..l
        /\ place + 1 \in 1..l /\ (place + 1) - 1 = place /\ place + 2 = (place + 1) + 1
        /\ place \in 0..l /\ place <= place + 1
    BY <1>2, <1>6
  <1>8. /\ a \in 0..n /\ d \in 0..n /\ a < d /\ groups[place] = Run(a, d)
        /\ C!WordsOf(groups[place]) = c[d] - c[a] /\ c[a] \in Nat /\ c[d] \in Nat
    BY <1>3, <1>7 DEF Grouped
  <1>9. /\ b \in 0..n /\ d < b /\ groups[place + 1] = Run(d, b)
        /\ C!WordsOf(groups[place + 1]) = c[b] - c[d] /\ c[b] \in Nat
    BY <1>3, <1>7 DEF Grouped
  <1> HIDE DEF a, b, d, n, l
  <1>10. /\ a \in Nat /\ b \in Nat /\ d \in Nat /\ a <= d /\ d <= b /\ a < b /\ a <= b /\ b - a <= n
    BY <1>2, <1>8, <1>9
  <1>11. one = Run(a, b)
    <2>1. Run(a, d) \o Run(d, b) = Run(a, b)
      BY <1>10, RunJoin
    <2>2. one = Run(a, d) \o Run(d, b)
      BY <1>8, <1>9
    <2> QED BY <2>1, <2>2
  <1>12. one \in P
    <2>1. C!WordsOf(Run(a, b)) = c[b] - c[a] /\ Run(a, b) \in Seq(Nat)
      <3>1. sentences \in Seq(Seq(Nat)) /\ Cuts(c, sentences, 0, review.words, MaxWords)
        BY <1>1, <1>3, ChainEnds DEF Sentenced, Grouped
      <3>2. C!WordsOf(Run(a, b)) = c[b] - c[a]
        BY <1>2, <1>8, <1>9, <1>10, <3>1, TextOfRun DEF n
      <3> QED BY <1>10, <3>2, RunIs
    <2> HIDE DEF one
    <2>2. c[b] - c[a] <= MaxWords
      <3>1. (c[d] - c[a]) + (c[b] - c[d]) <= MaxWords
        BY <1>6, <1>8, <1>9
      <3> QED BY <1>2, <1>8, <1>9, <3>1
    <2> QED BY <1>11, <2>1, <2>2
  <1> HIDE DEF one, P
  <1>13. groups' = SubSeq(groups, 1, place - 1) \o <<one>> \o SubSeq(groups, (place + 1) + 1, Len(groups))
    BY <1>1, <1>7 DEF C!Join, one
  <1>14. Chain(groups', 0, n, n)
    <2>1. Cuts(g, groups, 0, n, n)
      BY <1>3 DEF Grouped, n
    <2>2. Chain(<<Run(a, b)>>, a, b, n)
      BY <1>2, <1>10, ChainOne
    <2>3. Chain(<<one>>, g[place - 1], g[place + 1], n)
      BY <1>11, <2>2 DEF a, b
    <2>4. Chain(SubSeq(groups, 1, place - 1) \o <<one>> \o SubSeq(groups, (place + 1) + 1, Len(groups)), 0, n, n)
      BY <1>2, <1>7, <2>1, <2>3, Regrouped DEF l
    <2> QED BY <1>13, <2>4
  <1>15. groups' \in Seq(P)
    <2>1. \A i \in 1..l : groups[i] \in P
      <3>1. \A i \in 1..l : groups[i] \in Seq(Nat)
        BY <1>2, ElementOfSeq DEF l
      <3> QED BY <1>1, <3>1 DEF P, l
    <2>2. SubSeq(groups, 1, place - 1) \in Seq(P)
      <3>1. 1 \in Int /\ place - 1 \in Int /\ \A i \in 1..(place - 1) : i \in 1..l
        BY <1>2, <1>7
      <3>2. \A i \in 1..(place - 1) : groups[i] \in P
        BY <2>1, <3>1
      <3> QED BY <3>1, <3>2, SubSeqProperties
    <2>3. SubSeq(groups, (place + 1) + 1, Len(groups)) \in Seq(P)
      <3>1. /\ (place + 1) + 1 \in Int /\ Len(groups) \in Int
            /\ \A i \in ((place + 1) + 1)..Len(groups) : i \in 1..l
        BY <1>2, <1>7 DEF l
      <3>2. \A i \in ((place + 1) + 1)..Len(groups) : groups[i] \in P
        BY <2>1, <3>1
      <3> QED BY <3>1, <3>2, SubSeqProperties
    <2>4. <<one>> \in Seq(P)
      BY <1>12
    <2>5. SubSeq(groups, 1, place - 1) \o <<one>> \in Seq(P)
      BY <2>2, <2>4, ConcatProperties
    <2>6. SubSeq(groups, 1, place - 1) \o <<one>> \o SubSeq(groups, (place + 1) + 1, Len(groups)) \in Seq(P)
      BY <2>3, <2>5, ConcatProperties
    <2> QED BY <1>13, <2>6
  <1>16. \A p \in 1..Len(groups') : C!WordsOf(groups'[p]) <= MaxWords
    <2>1. \A p \in 1..Len(groups') : groups'[p] \in P
      BY <1>15, ElementOfSeq
    <2> QED BY <2>1 DEF P
  <1> QED BY <1>1, <1>14, <1>16, RegroupedStays DEF n

\* Where two neighbours fit together there is a place to choose.
LEMMA JoinOffered ==
  ASSUME NEW p, NEW left \in 1..(Len(groups) - 1), left = p - 1 \/ left = p,
         C!WordsOf(groups[left]) + C!WordsOf(groups[left + 1]) <= MaxWords
  PROVE  C!MergeOptions(p) # {}
  <1>1. [gap |-> distances[C!Last(groups[left])], left |-> left] \in C!MergeOptions(p)
    BY DEF C!MergeOptions
  <1> QED BY <1>1

\* When no group can be joined any more, the groups become the chunks.
LEMMA MergeEnded ==
  ASSUME C!ChunkSettings, ChunkInv, C!MergeDone
  PROVE  ChunkInv'
  <1> DEFINE n == Len(sentences)
             l == Len(groups)
  <1>1. /\ stage = "merge" /\ stage' = "done" /\ Sentenced /\ Distanced /\ InGroups
        /\ Chain(groups, 0, n, n) /\ C!Mergeable = {}
        /\ UNCHANGED <<review, sentences, distances, groups>>
        /\ chunks' = [p \in DOMAIN groups |-> C!TextOf(groups[p])]
        /\ \A p \in 1..l : C!WordsOf(groups[p]) <= MaxWords
    BY DEF ChunkInv, C!MergeDone, InGroups
  <1>2. /\ n \in Nat /\ l \in Nat /\ DOMAIN groups = 1..l /\ groups \in Seq(Seq(Nat))
        /\ MaxWords \in Nat /\ MinWords \in Nat /\ review.words \in Nat
        /\ \E c, g : Grouped(c, g, groups)
    BY <1>1, GroupsAre DEF C!ChunkSettings
  <1>3. PICK c, g : Grouped(c, g, groups)
    BY <1>2
  <1> DEFINE e == [k \in 0..l |-> c[g[k]]]
             texts == [p \in 1..l |-> C!TextOf(groups[p])]
             w == review.words
  <1>4. chunks' = texts
    BY <1>1, <1>2
  <1>5. \A p \in 1..l : p - 1 \in 0..l /\ p \in 0..l
    BY <1>2
  <1>6. ASSUME NEW p \in 1..l
        PROVE  /\ e[p - 1] = c[g[p - 1]] /\ e[p] = c[g[p]]
               /\ texts[p] = Run(e[p - 1], e[p]) /\ e[p - 1] < e[p]
               /\ C!WordsOf(groups[p]) = e[p] - e[p - 1] /\ e[p] - e[p - 1] <= MaxWords
               /\ e[p - 1] \in Nat /\ e[p] \in Nat
    <2>1. e[p - 1] = c[g[p - 1]] /\ e[p] = c[g[p]]
      BY <1>5
    <2>2. /\ C!TextOf(groups[p]) = Run(c[g[p - 1]], c[g[p]])
          /\ C!WordsOf(groups[p]) = c[g[p]] - c[g[p - 1]]
          /\ c[g[p - 1]] \in Nat /\ c[g[p]] \in Nat /\ c[g[p - 1]] < c[g[p]]
      BY <1>3 DEF Grouped
    <2>3. c[g[p]] - c[g[p - 1]] <= MaxWords
      BY <1>1, <2>2
    <2> HIDE DEF e
    <2> QED BY <2>1, <2>2, <2>3
  <1>7. e \in [0..l -> 0..w] /\ e[0] = 0 /\ e[l] = w
    <2>1. /\ Cuts(c, sentences, 0, w, MaxWords) /\ Cuts(g, groups, 0, n, n)
      BY <1>3 DEF Grouped
    <2>2. /\ c \in [0..n -> 0..w] /\ c[0] = 0 /\ c[n] = w
          /\ g \in [0..l -> 0..n] /\ g[0] = 0 /\ g[l] = n
      BY <2>1 DEF Cuts
    <2>3. 0 \in 0..l /\ l \in 0..l
      BY <1>2
    <2> HIDE DEF n, l, w
    <2> QED BY <2>2, <2>3
  <1> HIDE DEF e
  <1>8. texts \in Seq(Seq(Nat)) /\ Len(texts) = l /\ DOMAIN texts = 1..l
    <2>1. \A p \in 1..l : C!TextOf(groups[p]) \in Seq(Nat)
      <3>1. ASSUME NEW p \in 1..l PROVE C!TextOf(groups[p]) \in Seq(Nat)
        <4> DEFINE x == e[p - 1]
                   y == e[p]
        <4>1. texts[p] = Run(x, y) /\ x \in Nat /\ y \in Nat /\ x < y
          BY <1>6
        <4> HIDE DEF x, y
        <4>2. Run(x, y) \in Seq(Nat)
          <5>1. x <= y
            BY <4>1
          <5> QED BY <4>1, <5>1, RunIs
        <4> QED BY <4>1, <4>2
      <3> QED BY <3>1
    <2>2. texts \in [1..l -> Seq(Nat)]
      BY <2>1
    <2> HIDE DEF texts, l
    <2> QED BY <1>2, <2>2, AsSeq
  <1> HIDE DEF texts
  <1>9. Chain(texts, 0, w, MaxWords)
    <2>1. Cuts(e, texts, 0, w, MaxWords)
      BY <1>6, <1>7, <1>8 DEF Cuts
    <2> QED BY <1>2, <1>8, <2>1 DEF Chain
  <1>10. \A p \in 1..l : Len(texts[p]) = C!WordsOf(groups[p]) /\ C!WordsOf(groups[p]) \in Nat
    <2>1. ASSUME NEW p \in 1..l
          PROVE  Len(texts[p]) = C!WordsOf(groups[p]) /\ C!WordsOf(groups[p]) \in Nat
      <3> DEFINE x == e[p - 1]
                 y == e[p]
      <3>1. texts[p] = Run(x, y) /\ x \in Nat /\ y \in Nat /\ x < y /\ C!WordsOf(groups[p]) = y - x
        BY <1>6
      <3> HIDE DEF x, y
      <3>2. x <= y /\ y - x \in Nat
        BY <3>1
      <3>3. Len(Run(x, y)) = y - x
        BY <3>1, <3>2, RunIs
      <3> QED BY <3>1, <3>2, <3>3
    <2> QED BY <2>1
  <1> HIDE DEF n, l
  <1>11. ASSUME NEW p \in 1..(l - 1),
                C!WordsOf(groups[p]) < MinWords \/ C!WordsOf(groups[p + 1]) < MinWords
         PROVE  ~(C!WordsOf(groups[p]) + C!WordsOf(groups[p + 1]) <= MaxWords)
    <2> SUFFICES ASSUME C!WordsOf(groups[p]) + C!WordsOf(groups[p + 1]) <= MaxWords PROVE FALSE
      OBVIOUS
    <2>1. p \in 1..l /\ p + 1 \in 1..l /\ p = (p + 1) - 1
      BY <1>2
    <2>2. C!MergeOptions(p) # {} /\ C!MergeOptions(p + 1) # {}
      BY <2>1, JoinOffered DEF l
    <2>3. p \in C!Mergeable \/ p + 1 \in C!Mergeable
      BY <1>2, <1>11, <2>1, <2>2 DEF C!Mergeable
    <2> QED BY <1>1, <2>3
  <1>12. C!NoStrayLeft'
    <2>1. ASSUME NEW p \in 1..(l - 1), Len(texts[p]) < MinWords \/ Len(texts[p + 1]) < MinWords
          PROVE  Len(texts[p]) + Len(texts[p + 1]) > MaxWords
      <3>1. p \in 1..l /\ p + 1 \in 1..l
        BY <1>2
      <3>2. /\ Len(texts[p]) = C!WordsOf(groups[p]) /\ C!WordsOf(groups[p]) \in Nat
            /\ Len(texts[p + 1]) = C!WordsOf(groups[p + 1]) /\ C!WordsOf(groups[p + 1]) \in Nat
        BY <1>10, <3>1
      <3>3. ~(C!WordsOf(groups[p]) + C!WordsOf(groups[p + 1]) <= MaxWords)
        BY <1>11, <2>1, <3>2
      <3> QED BY <1>2, <3>2, <3>3
    <2>2. Len(chunks') = l
      BY <1>4, <1>8
    <2> QED BY <1>4, <2>1, <2>2 DEF C!NoStrayLeft
  <1>13. Sentenced' /\ Distanced' /\ InGroups' /\ Chain(chunks', 0, review'.words, MaxWords)
    BY <1>1, <1>4, <1>9 DEF Sentenced, Distanced, InGroups
  <1>14. review' \in Reviews
    BY <1>1 DEF ChunkInv
  <1> QED BY <1>1, <1>12, <1>13, <1>14 DEF ChunkInv

LEMMA ChunkNext ==
  ASSUME C!ChunkSettings, ChunkInv, [C!Next]_C!vars
  PROVE  ChunkInv'
  <1>1. CASE UNCHANGED C!vars
    <2>1. UNCHANGED <<review, sentences, distances, groups, stage, chunks>>
      BY <1>1 DEF C!vars
    <2>2. C!NoStrayLeft' /\ Sentenced' = Sentenced /\ Distanced' = Distanced /\ InGroups' = InGroups
      BY <2>1 DEF ChunkInv, C!NoStrayLeft, Sentenced, Distanced, InGroups
    <2>3. stage = "merge" => (\A p \in 1..Len(groups) : C!WordsOf(groups[p]) <= MaxWords)'
      <3>1. \A p \in 1..Len(groups') : C!WordsOf(groups'[p]) = WordsIn(sentences, groups'[p])
        BY DEF C!WordsOf, C!TextOf, WordsIn
      <3>2. (\A p \in 1..Len(groups) : C!WordsOf(groups[p]) = WordsIn(sentences, groups[p]))'
        BY DEF C!WordsOf, C!TextOf, WordsIn
      <3>3. stage = "merge" => \A p \in 1..Len(groups') : C!WordsOf(groups'[p]) <= MaxWords
        BY <2>1 DEF ChunkInv
      <3> QED BY <2>1, <3>1, <3>2, <3>3
    <2> QED BY <2>1, <2>2, <2>3 DEF ChunkInv
  <1>2. CASE C!Next
    BY <1>2, ReviewChunked, Embedded, PackedInstead, SplitInTwo, SplitEnded, MergedInOne,
       MergeEnded DEF C!Next
  <1> QED BY <1>1, <1>2

LEMMA ChunksHold == SuiteSpec => []ChunkInv
  <1>1. C!ChunkSettings
    BY RetrievalSettings
  <1>2. C!Init => ChunkInv
    BY ChunkInit
  <1>3. ChunkInv /\ [C!Next]_C!vars => ChunkInv'
    BY <1>1, ChunkNext
  <1> QED BY <1>2, <1>3, ChunkingPart, PTL DEF C!Spec

LEMMA ChunksWhole ==
  ASSUME C!ChunkSettings, ChunkInv
  PROVE  ChunksKeepTheReview
  <1> SUFFICES ASSUME stage \in {"done", "packed"}
               PROVE  /\ C!FlattenSeq(chunks) = [i \in 1..review.words |-> i]
                      /\ \A c \in C!ToSet(chunks) : Len(c) \in 1..MaxWords
    BY DEF ChunksKeepTheReview, C!ChunksKeepTheReview
  <1>1. Chain(chunks, 0, review.words, MaxWords)
    BY DEF ChunkInv
  <1>2. chunks \in Seq(Seq(Nat)) /\ review.words \in Nat /\ MaxWords \in Nat
        /\ DOMAIN chunks = 1..Len(chunks)
    BY <1>1, ChainEnds, LenProperties
  <1>3. C!FlattenSeq(chunks) = Run(0, review.words)
    BY <1>1, ChainFlat
  <1>4. Run(0, review.words) = [i \in 1..review.words |-> i]
    <2>1. review.words - 0 = review.words /\ \A i \in 1..review.words : 0 + i = i
      BY <1>2
    <2> QED BY <2>1 DEF Run
  <1>5. ASSUME NEW c \in C!ToSet(chunks) PROVE Len(c) \in 1..MaxWords
    <2>1. PICK k \in 1..Len(chunks) : c = chunks[k]
      BY <1>2 DEF C!ToSet
    <2>2. Len(chunks[k]) > 0 /\ Len(chunks[k]) <= MaxWords
      BY <1>1, ChainEnds
    <2>3. Len(chunks[k]) \in Nat
      BY <1>2, ElementOfSeq, LenProperties
    <2> QED BY <1>2, <2>1, <2>2, <2>3
  <1> QED BY <1>3, <1>4, <1>5

LEMMA ChunkTypes ==
  ASSUME C!ChunkSettings, ChunkInv
  PROVE  C!TypeOK
  <1>1. ASSUME NEW p, NEW m, NEW b, Chain(p, 0, b, m), NEW s \in C!ToSet(p)
        PROVE  C!ToSet(s) \subseteq 1..b
    <2>1. p \in Seq(Seq(Nat)) /\ DOMAIN p = 1..Len(p) /\ b \in Nat
      BY <1>1, ChainEnds, LenProperties
    <2>2. PICK k \in 1..Len(p) : s = p[k]
      BY <1>1, <2>1 DEF C!ToSet
    <2>3. s \in Seq((0 + 1)..b)
      BY <1>1, <2>2, ChainEnds
    <2>4. s \in Seq(1..b) /\ DOMAIN s = 1..Len(s)
      BY <2>3, LenProperties
    <2>5. \A i \in 1..Len(s) : s[i] \in 1..b
      BY <2>4, ElementOfSeq
    <2> QED BY <2>4, <2>5 DEF C!ToSet
  <1>2. ASSUME NEW p, p = <<>> PROVE C!ToSet(p) = {}
    BY <1>2 DEF C!ToSet
  <1>3. \A s \in C!ToSet(sentences) : C!ToSet(s) \subseteq 1..review.words
    BY <1>1, <1>2 DEF ChunkInv, Sentenced
  <1>4. \A s \in C!ToSet(chunks) : C!ToSet(s) \subseteq 1..review.words
    BY <1>1, <1>2 DEF ChunkInv
  <1>5. \A g \in C!ToSet(groups) : C!ToSet(g) \subseteq DOMAIN sentences
    <2>1. CASE groups = <<>>
      BY <1>2, <2>1
    <2>2. CASE InGroups
      <3>1. DOMAIN sentences = 1..Len(sentences)
        BY <2>2, ChainEnds, LenProperties DEF InGroups, Sentenced
      <3>2. Chain(groups, 0, Len(sentences), Len(sentences))
        BY <2>2 DEF InGroups
      <3> QED BY <1>1, <3>1, <3>2
    <2> QED BY <2>1, <2>2 DEF ChunkInv
  <1>6. C!ToSet(distances) \subseteq C!Distances
    <2>1. CASE distances = <<>>
      BY <1>2, <2>1
    <2>2. CASE Distanced
      BY <2>2 DEF Distanced, C!ToSet, C!Distances
    <2> QED BY <2>1, <2>2 DEF ChunkInv
  <1> QED BY <1>3, <1>4, <1>5, <1>6 DEF ChunkInv, C!TypeOK

\* Whatever the punctuation and whatever the model answers, the chunks
\* chunk_review() returns are the review: every word once, in order, and no
\* chunk above SEMANTIC_MAX_CHUNK_WORDS.
THEOREM ReviewKept == SuiteSpec => []ChunksKeepTheReview
  <1>1. ChunkInv => ChunksKeepTheReview
    BY ChunksWhole, RetrievalSettings
  <1> QED BY <1>1, ChunksHold, PTL

\* _merge_undersized stops only when no undersized chunk fits a neighbour.
THEOREM StraysJoined == SuiteSpec => []NoStrayLeft
  <1>1. ChunkInv => NoStrayLeft
    BY DEF ChunkInv, NoStrayLeft
  <1> QED BY <1>1, ChunksHold, PTL

-----------------------------------------------------------------------------
(* Sorting.  A strict total order of a finite set, given as a set of pairs, *)
(* has its enumeration.                                                     *)

LEMMA SearchCount ==
  /\ \A X : S!Cardinality(X) = Cardinality(X)
  /\ \A X : S!IsFiniteSet(X) <=> IsFiniteSet(X)
  <1>1. \A X : S!IsFiniteSet(X) <=> IsFiniteSet(X)
    BY Zenon DEF S!IsFiniteSet, IsFiniteSet
  <1>2. \A X : S!Cardinality(X) = Cardinality(X)
    BY Zenon DEF S!Cardinality, Cardinality
  <1> QED BY <1>1, <1>2

Orders(B, X) ==
  /\ \A x \in X : <<x, x>> \notin B
  /\ \A x, y \in X : x = y \/ <<x, y>> \in B \/ <<y, x>> \in B
  /\ \A x, y, z \in X : <<x, y>> \in B /\ <<y, z>> \in B => <<x, z>> \in B

LEMMA Enumerated ==
  ASSUME NEW X, IsFiniteSet(X), NEW B, Orders(B, X)
  PROVE  \E q \in [1..Cardinality(X) -> X] :
           \A i, j \in 1..Cardinality(X) : i < j => <<q[i], q[j]>> \in B
  <1> DEFINE n == Cardinality(X)
             Below(x) == {y \in X : y = x \/ <<y, x>> \in B}
             place == [x \in X |-> Cardinality(Below(x))]
             q == [i \in 1..n |-> CHOOSE x \in X : place[x] = i]
  <1>1. n \in Nat
    BY FS_CardinalityType
  <1>2. ASSUME NEW x \in X, NEW y \in X
        PROVE  x = y \/ <<x, y>> \in B \/ <<y, x>> \in B
    BY DEF Orders
  <1>3. ASSUME NEW x \in X PROVE IsFiniteSet(Below(x)) /\ Cardinality(Below(x)) \in 1..n
    <2>1. Below(x) \in SUBSET X /\ Below(x) # {}
      OBVIOUS
    <2> HIDE DEF Below
    <2>2. IsFiniteSet(Below(x)) /\ Cardinality(Below(x)) \in Nat /\ Cardinality(Below(x)) <= n
      BY <1>1, <2>1, FS_Subset, FS_CardinalityType
    <2>3. Cardinality(Below(x)) # 0
      BY <2>1, <2>2, FS_EmptySet
    <2> QED BY <1>1, <2>2, <2>3
  <1>4. ASSUME NEW x \in X, NEW y \in X, <<x, y>> \in B PROVE place[x] < place[y]
    <2>1. Below(x) \in SUBSET Below(y)
      BY <1>4 DEF Orders
    <2>2. y \in Below(y) /\ y \notin Below(x)
      <3>1. y # x /\ <<y, x>> \notin B
        BY <1>4 DEF Orders
      <3> QED BY <3>1
    <2>3. Below(x) # Below(y)
      BY <2>2
    <2>4. Cardinality(Below(x)) <= Cardinality(Below(y)) /\ Cardinality(Below(x)) # Cardinality(Below(y))
      BY <1>3, <2>1, <2>3, FS_Subset
    <2>5. Cardinality(Below(x)) \in 1..n /\ Cardinality(Below(y)) \in 1..n
      BY <1>3
    <2>6. place[x] = Cardinality(Below(x)) /\ place[y] = Cardinality(Below(y))
      OBVIOUS
    <2> HIDE DEF Below, place
    <2> QED BY <1>1, <2>4, <2>5, <2>6
  <1>5. place \in [X -> 1..n]
    BY <1>3
  <1> HIDE DEF Below, place, n
  <1>6. ASSUME NEW x \in X, NEW y \in X, place[x] = place[y] PROVE x = y
    <2>1. place[x] \in 1..n /\ place[y] \in 1..n
      BY <1>5
    <2>2. <<x, y>> \notin B /\ <<y, x>> \notin B
      BY <1>1, <1>4, <1>6, <2>1
    <2> QED BY <1>2, <2>2
  <1>7. place \in Surjection(X, 1..n)
    <2>1. place \in Injection(X, 1..n)
      BY <1>5, <1>6 DEF Injection, IsInjective
    <2>2. IsFiniteSet(1..n) /\ Cardinality(1..n) = n
      BY <1>1, FS_Interval
    <2> QED BY <2>1, <2>2, FS_Injection DEF n
  <1>8. ASSUME NEW i \in 1..n PROVE q[i] \in X /\ place[q[i]] = i
    <2>1. \E x \in X : place[x] = i
      BY <1>7 DEF Surjection
    <2> QED BY <2>1
  <1>9. q \in [1..n -> X]
    BY <1>8
  <1> HIDE DEF q
  <1>10. ASSUME NEW i \in 1..n, NEW j \in 1..n, i < j PROVE <<q[i], q[j]>> \in B
    <2>1. q[i] \in X /\ q[j] \in X /\ place[q[i]] = i /\ place[q[j]] = j
      BY <1>8
    <2>2. q[i] # q[j] /\ <<q[j], q[i]>> \notin B
      BY <1>1, <1>4, <1>10, <2>1
    <2> QED BY <1>2, <2>1, <2>2
  <1> QED BY <1>9, <1>10 DEF n

\* order sorts n places by descending key, ties in their order.
Sorting(order, n, key) ==
  /\ n \in Nat /\ key \in [1..n -> Int] /\ order \in [1..n -> 1..n]
  /\ \A i, j \in 1..n : i < j =>
       \/ key[order[i]] > key[order[j]]
       \/ key[order[i]] = key[order[j]] /\ order[i] < order[j]

LEMMA Sorts ==
  ASSUME NEW n \in Nat, NEW key \in [1..n -> Int]
  PROVE  \E order : Sorting(order, n, key)
  <1> DEFINE B == {w \in (1..n) \X (1..n) :
                     key[w[1]] > key[w[2]] \/ (key[w[1]] = key[w[2]] /\ w[1] < w[2])}
  <1>1. \A i, j \in 1..n : <<i, j>> \in B <=> key[i] > key[j] \/ (key[i] = key[j] /\ i < j)
    OBVIOUS
  <1> HIDE DEF B
  <1>2. \A i \in 1..n : i \in Nat /\ key[i] \in Int
    OBVIOUS
  <1>3. Orders(B, 1..n)
    <2>1. \A i \in 1..n : <<i, i>> \notin B
      BY <1>1, <1>2
    <2>2. ASSUME NEW i \in 1..n, NEW j \in 1..n PROVE i = j \/ <<i, j>> \in B \/ <<j, i>> \in B
      <3>1. i \in Nat /\ j \in Nat /\ key[i] \in Int /\ key[j] \in Int
        BY <1>2
      <3>2. \/ i = j
            \/ key[i] > key[j] \/ (key[i] = key[j] /\ i < j)
            \/ key[j] > key[i] \/ (key[j] = key[i] /\ j < i)
        BY <3>1
      <3> QED BY <1>1, <3>2
    <2>3. ASSUME NEW i \in 1..n, NEW j \in 1..n, NEW k \in 1..n, <<i, j>> \in B, <<j, k>> \in B
          PROVE  <<i, k>> \in B
      <3>1. key[i] > key[j] \/ (key[i] = key[j] /\ i < j)
        BY <1>1, <2>3
      <3>2. key[j] > key[k] \/ (key[j] = key[k] /\ j < k)
        BY <1>1, <2>3
      <3>3. key[i] > key[k] \/ (key[i] = key[k] /\ i < k)
        BY <1>2, <3>1, <3>2
      <3> QED BY <1>1, <3>3
    <2> QED BY <2>1, <2>2, <2>3 DEF Orders
  <1>4. IsFiniteSet(1..n) /\ Cardinality(1..n) = n
    BY FS_Interval
  <1>5. PICK q \in [1..n -> 1..n] : \A i, j \in 1..n : i < j => <<q[i], q[j]>> \in B
    BY <1>3, <1>4, Enumerated
  <1>6. Sorting(q, n, key)
    <2>1. \A i \in 1..n : q[i] \in 1..n
      OBVIOUS
    <2> QED BY <1>1, <1>5, <2>1 DEF Sorting
  <1> QED BY <1>6

LEMMA SortingPermutes ==
  ASSUME NEW n, NEW key, NEW order, Sorting(order, n, key)
  PROVE  /\ \A i, j \in 1..n : order[i] = order[j] => i = j
         /\ \A k \in 1..n : \E i \in 1..n : order[i] = k
  <1>0. n \in Nat /\ key \in [1..n -> Int] /\ order \in [1..n -> 1..n]
    BY DEF Sorting
  <1>1. ASSUME NEW i \in 1..n, NEW j \in 1..n, i < j PROVE order[i] # order[j]
    <2>1. order[i] \in 1..n /\ order[j] \in 1..n
      BY <1>0
    <2>2. key[order[i]] \in Int /\ key[order[j]] \in Int
      BY <1>0, <2>1
    <2>3. \/ key[order[i]] > key[order[j]]
          \/ key[order[i]] = key[order[j]] /\ order[i] < order[j]
      BY <1>1 DEF Sorting
    <2> QED BY <1>0, <2>1, <2>2, <2>3
  <1>2. \A i, j \in 1..n : order[i] = order[j] => i = j
    BY <1>0, <1>1
  <1>3. order \in Surjection(1..n, 1..n)
    <2>1. order \in Injection(1..n, 1..n)
      BY <1>0, <1>2 DEF Injection, IsInjective
    <2>2. IsFiniteSet(1..n)
      BY <1>0, FS_Interval
    <2> QED BY <2>1, <2>2, FS_Injection
  <1> QED BY <1>2, <1>3 DEF Surjection

-----------------------------------------------------------------------------
(* Lists of chunks without repetition.                                      *)

Distinct(s, X) == s \in Seq(X) /\ \A i, j \in 1..Len(s) : s[i] = s[j] => i = j

LEMMA Members ==
  ASSUME NEW X, NEW s \in Seq(X)
  PROVE  /\ Len(s) \in Nat /\ DOMAIN s = 1..Len(s) /\ S!ToSet(s) \subseteq X
         /\ \A x : x \in S!ToSet(s) <=> \E i \in 1..Len(s) : s[i] = x
         /\ \A i \in 1..Len(s) : s[i] \in X
  <1>1. Len(s) \in Nat /\ DOMAIN s = 1..Len(s) /\ \A i \in 1..Len(s) : s[i] \in X
    BY LenProperties, ElementOfSeq
  <1>2. \A x : x \in S!ToSet(s) <=> \E i \in 1..Len(s) : s[i] = x
    BY <1>1 DEF S!ToSet
  <1> QED BY <1>1, <1>2

LEMMA Wider ==
  ASSUME NEW X, NEW Y, X \subseteq Y, NEW s, Distinct(s, X)
  PROVE  Distinct(s, Y)
  <1>1. s \in Seq(X) /\ \A i, j \in 1..Len(s) : s[i] = s[j] => i = j
    BY DEF Distinct
  <1>2. Len(s) \in Nat /\ s \in [1..Len(s) -> X]
    BY <1>1, LenProperties
  <1>3. s \in [1..Len(s) -> Y]
    BY <1>2
  <1>4. s \in Seq(Y)
    BY <1>2, <1>3, SeqDef
  <1> QED BY <1>1, <1>4 DEF Distinct

\* A sequence put in another order.
Permuted(list, order) == [i \in DOMAIN list |-> list[order[i]]]

Rearranges(q, list, order, X) ==
  /\ q \in Seq(X) /\ Len(q) = Len(list) /\ S!ToSet(q) = S!ToSet(list)
  /\ \A i \in 1..Len(list) : q[i] = list[order[i]]
  /\ Distinct(list, X) => Distinct(q, X)

LEMMA Reordered ==
  ASSUME NEW X, NEW list \in Seq(X), NEW key, NEW order, Sorting(order, Len(list), key)
  PROVE  Rearranges(Permuted(list, order), list, order, X)
  <1> DEFINE n == Len(list)
             q == Permuted(list, order)
  <1>1. n \in Nat /\ DOMAIN list = 1..n /\ \A i \in 1..n : list[i] \in X
    BY Members
  <1>2. /\ \A i, j \in 1..n : order[i] = order[j] => i = j
        /\ \A k \in 1..n : \E i \in 1..n : order[i] = k
    BY SortingPermutes
  <1>3. \A i \in 1..n : order[i] \in 1..n
    BY DEF Sorting
  <1>4. q \in [1..n -> X] /\ \A i \in 1..n : q[i] = list[order[i]]
    BY <1>1, <1>3 DEF Permuted
  <1> HIDE DEF n, q
  <1>5. q \in Seq(X) /\ Len(q) = n /\ DOMAIN q = 1..n
    BY <1>1, <1>4, AsSeq
  <1>6. S!ToSet(q) = S!ToSet(list)
    <2>1. \A x : x \in S!ToSet(q) <=> \E i \in 1..n : q[i] = x
      BY <1>5 DEF S!ToSet
    <2>2. \A x : x \in S!ToSet(list) <=> \E i \in 1..n : list[i] = x
      BY <1>1 DEF S!ToSet
    <2>3. ASSUME NEW x, x \in S!ToSet(q) PROVE x \in S!ToSet(list)
      <3>1. PICK i \in 1..n : q[i] = x
        BY <2>1, <2>3
      <3>2. order[i] \in 1..n /\ list[order[i]] = x
        BY <1>3, <1>4, <3>1
      <3> QED BY <2>2, <3>2
    <2>4. ASSUME NEW x, x \in S!ToSet(list) PROVE x \in S!ToSet(q)
      <3>1. PICK k \in 1..n : list[k] = x
        BY <2>2, <2>4
      <3>2. PICK i \in 1..n : order[i] = k
        BY <1>2
      <3>3. q[i] = x
        BY <1>4, <3>1, <3>2
      <3> QED BY <2>1, <3>3
    <2> QED BY <2>3, <2>4
  <1>7. ASSUME Distinct(list, X) PROVE Distinct(q, X)
    <2>1. \A i, j \in 1..n : list[i] = list[j] => i = j
      BY <1>7 DEF Distinct, n
    <2>2. ASSUME NEW i \in 1..n, NEW j \in 1..n, q[i] = q[j] PROVE i = j
      <3>1. order[i] \in 1..n /\ order[j] \in 1..n
        BY <1>3
      <3>2. list[order[i]] = list[order[j]]
        BY <1>4, <2>2
      <3>3. order[i] = order[j]
        BY <2>1, <3>1, <3>2
      <3> QED BY <1>2, <3>3
    <2> QED BY <1>5, <2>2 DEF Distinct
  <1> QED BY <1>4, <1>5, <1>6, <1>7 DEF n, q, Rearranges

\* Kept, element by element.
Keeps(F, q, list, wanted, X) ==
  /\ F \in [0..Len(list) -> Seq(X)] /\ F[0] = <<>> /\ F[Len(list)] = q
  /\ \A k \in 1..Len(list) :
       F[k] = IF list[k] \in wanted THEN Append(F[k - 1], list[k]) ELSE F[k - 1]

LEMMA KeptSteps ==
  ASSUME NEW X, NEW list \in Seq(X), NEW wanted
  PROVE  \E F : Keeps(F, S!Kept(list, wanted), list, wanted, X)
  <1> DEFINE n == Len(list)
             Op(p, k) == IF list[k] \in wanted THEN Append(p, list[k]) ELSE p
             op == [w \in Seq(X) \X (1..n) |-> Op(w[1], w[2])]
             Fold(f) == f = [q \in SUBSET (1..n) |->
                               IF q = {} THEN <<>> ELSE Op(f[q \ {Largest(q)}], Largest(q))]
             it == CHOOSE f : Fold(f)
  <1>1. n \in Nat /\ DOMAIN list = 1..n /\ \A k \in 1..n : list[k] \in X
    BY LenProperties, ElementOfSeq
  <1>2. it[1..n] = S!Kept(list, wanted)
    BY <1>1 DEF S!Kept, S!FoldLeft, S!MapThenFoldSet, S!Max, Largest
  <1>3. <<>> \in Seq(X) /\ op \in [Seq(X) \X (1..n) -> Seq(X)]
    <2>1. ASSUME NEW p \in Seq(X), NEW k \in 1..n PROVE Op(p, k) \in Seq(X)
      BY <1>1, AppendProperties
    <2> HIDE DEF Op
    <2> QED BY <2>1, EmptySeq
  <1>4. PICK f : IsFold(f, Seq(X), <<>>, n, op)
    <2> HIDE DEF op, n
    <2> QED BY <1>1, <1>3, FoldExists
  <1>5. Fold(f)
    <2>1. ASSUME NEW q \in SUBSET (1..n), q # {}
          PROVE  op[<<f[q \ {Largest(q)}], Largest(q)>>] = Op(f[q \ {Largest(q)}], Largest(q))
      <3>1. Largest(q) \in 1..n
        BY <1>1, <2>1, LargestOf
      <3>2. f[q \ {Largest(q)}] \in Seq(X)
        BY <1>4 DEF IsFold
      <3> HIDE DEF Op
      <3> QED BY <3>1, <3>2
    <2> HIDE DEF Op, op, n
    <2> QED BY <1>4, <2>1 DEF IsFold
  <1>6. Fold(it)
    BY <1>5
  <1> HIDE DEF it
  <1>7. Follows(it, Seq(X), <<>>, n, op)
    <2>1. it[{}] = <<>>
      <3>1. {} \in SUBSET (1..n)
        OBVIOUS
      <3> HIDE DEF Op
      <3> QED BY <1>6, <3>1
    <2>2. ASSUME NEW q \in SUBSET (1..n), q # {}, it[q \ {Largest(q)}] \in Seq(X)
          PROVE  it[q] = op[<<it[q \ {Largest(q)}], Largest(q)>>]
      <3>1. Largest(q) \in 1..n
        BY <1>1, <2>2, LargestOf
      <3> HIDE DEF Op
      <3>2. it[q] = Op(it[q \ {Largest(q)}], Largest(q))
        BY <1>6, <2>2
      <3> QED BY <2>2, <3>1, <3>2
    <2> HIDE DEF op
    <2> QED BY <2>1, <2>2 DEF Follows
  <1>8. PICK F : Passes(F, it[1..n], Seq(X), <<>>, n, op)
    <2> HIDE DEF op, n
    <2> QED BY <1>1, <1>3, <1>7, FoldSteps
  <1>9. F \in [0..n -> Seq(X)] /\ F[0] = <<>> /\ F[n] = it[1..n]
    BY <1>8 DEF Passes
  <1>10. ASSUME NEW k \in 1..n PROVE F[k] = Op(F[k - 1], k)
    <2>1. F[k] = op[<<F[k - 1], k>>]
      BY <1>8 DEF Passes
    <2>2. k - 1 \in 0..n
      BY <1>1
    <2>3. F[k - 1] \in Seq(X)
      BY <1>9, <2>2
    <2> HIDE DEF Op
    <2> QED BY <2>1, <2>3
  <1>11. Keeps(F, S!Kept(list, wanted), list, wanted, X)
    BY <1>2, <1>9, <1>10 DEF Keeps
  <1> QED BY <1>11


\* q holds the elements of s[1..k] that are in W, in their order; e tells where.
Picks(e, q, s, W, k, X) ==
  /\ q \in Seq(X) /\ e \in [1..Len(q) -> 1..k]
  /\ \A i, j \in 1..Len(q) : i < j => e[i] < e[j]
  /\ \A i \in 1..Len(q) : q[i] = s[e[i]] /\ s[e[i]] \in W
  /\ \A j \in 1..k : s[j] \in W => \E i \in 1..Len(q) : e[i] = j

LEMMA KeptIs ==
  ASSUME NEW X, NEW list \in Seq(X), NEW wanted
  PROVE  \E e : Picks(e, S!Kept(list, wanted), list, wanted, Len(list), X)
  <1>0. PICK F : Keeps(F, S!Kept(list, wanted), list, wanted, X)
    BY KeptSteps
  <1>1. Len(list) \in Nat /\ \A k \in 1..Len(list) : list[k] \in X
    BY Members
  <1>2. /\ F \in [0..Len(list) -> Seq(X)] /\ F[0] = <<>> /\ F[Len(list)] = S!Kept(list, wanted)
        /\ \A k \in 1..Len(list) :
             F[k] = IF list[k] \in wanted THEN Append(F[k - 1], list[k]) ELSE F[k - 1]
    BY <1>0 DEF Keeps
  <1> DEFINE T == {k \in 0..Len(list) : \E e : Picks(e, F[k], list, wanted, k, X)}
             n == Len(list)
  <1>3. 0 \in T
    <2>1. Picks(<<>>, <<>>, list, wanted, 0, X)
      <3>1. <<>> \in Seq(X) /\ Len(<<>>) = 0 /\ 1..0 = {}
        BY EmptySeq
      <3>2. <<>> \in [1..0 -> 1..0]
        BY <3>1
      <3> QED BY <3>1, <3>2 DEF Picks
    <2> QED BY <1>1, <1>2, <2>1
  <1> HIDE DEF n
  <1>4. ASSUME NEW k \in 1..n, k - 1 \in T PROVE k \in T
    <2> DEFINE q == F[k - 1]
               r == F[k]
               l == Len(q)
    <2>1. PICK e : Picks(e, q, list, wanted, k - 1, X)
      BY <1>4
    <2>2. /\ k \in Nat /\ k - 1 \in Nat /\ k \in 0..n
      BY <1>1, <1>4 DEF n
    <2>3. /\ q \in Seq(X) /\ e \in [1..l -> 1..(k - 1)]
          /\ \A i, j \in 1..l : i < j => e[i] < e[j]
          /\ \A i \in 1..l : q[i] = list[e[i]] /\ list[e[i]] \in wanted
          /\ \A j \in 1..(k - 1) : list[j] \in wanted => \E i \in 1..l : e[i] = j
      BY <2>1 DEF Picks
    <2>4. l \in Nat
      BY <2>3, LenProperties
    <2>5. r = IF list[k] \in wanted THEN Append(q, list[k]) ELSE q
      BY <1>2, <1>4 DEF n
    <2>6. list[k] \in X
      BY <1>1, <1>4 DEF n
    <2>10. \A i \in 1..l : e[i] \in 1..(k - 1)
      BY <2>3
    <2> HIDE DEF q, r
    <2>7. CASE list[k] \in wanted
      <3> DEFINE d == [i \in 1..(l + 1) |-> IF i <= l THEN e[i] ELSE k]
      <3>1. /\ r \in Seq(X) /\ Len(r) = l + 1 /\ r[l + 1] = list[k]
            /\ \A i \in 1..l : r[i] = q[i]
        BY <2>3, <2>5, <2>6, <2>7, AppendProperties
      <3> HIDE DEF l
      <3>2. /\ \A i \in 1..l : d[i] = e[i] /\ i \in 1..(l + 1)
            /\ d[l + 1] = k /\ l + 1 \in 1..(l + 1)
            /\ \A i \in 1..(l + 1) : i \in 1..l \/ i = l + 1
        BY <2>4
      <3>3. d \in [1..(l + 1) -> 1..k]
        <4>1. ASSUME NEW i \in 1..(l + 1) PROVE (IF i <= l THEN e[i] ELSE k) \in 1..k
          <5>1. CASE i <= l
            <6>1. i \in 1..l
              BY <2>4, <5>1
            <6>2. e[i] \in 1..(k - 1)
              BY <2>10, <6>1
            <6> QED BY <2>2, <5>1, <6>2
          <5>2. CASE ~(i <= l)
            BY <2>2, <5>2, <1>4
          <5> QED BY <5>1, <5>2
        <4> QED BY <4>1
      <3> HIDE DEF d
      <3>4. ASSUME NEW i \in 1..(l + 1), NEW j \in 1..(l + 1), i < j PROVE d[i] < d[j]
        <4>1. i \in 1..l
          BY <2>4, <3>4
        <4>2. CASE j \in 1..l
          BY <2>3, <3>2, <3>4, <4>1, <4>2
        <4>3. CASE j = l + 1
          <5>1. e[i] \in 1..(k - 1) /\ d[i] = e[i] /\ d[j] = k
            BY <2>10, <3>2, <4>1, <4>3
          <5> QED BY <2>2, <5>1
        <4> QED BY <3>2, <4>2, <4>3
      <3>5. \A i \in 1..(l + 1) : r[i] = list[d[i]] /\ list[d[i]] \in wanted
        BY <2>3, <2>7, <3>1, <3>2
      <3>6. ASSUME NEW j \in 1..k, list[j] \in wanted PROVE \E i \in 1..(l + 1) : d[i] = j
        <4>1. CASE j = k
          BY <3>2, <4>1
        <4>2. CASE j # k
          <5>1. j \in 1..(k - 1)
            BY <2>2, <4>2
          <5>2. PICK i \in 1..l : e[i] = j
            BY <2>3, <3>6, <5>1
          <5> QED BY <3>2, <5>2
        <4> QED BY <4>1, <4>2
      <3>7. Picks(d, r, list, wanted, k, X)
        BY <3>1, <3>3, <3>4, <3>5, <3>6 DEF Picks
      <3> QED BY <2>2, <3>7 DEF r, n
    <2>8. CASE list[k] \notin wanted
      <3>1. r = q
        BY <2>5, <2>8
      <3>2. e \in [1..l -> 1..k]
        <4>1. \A i \in 1..(k - 1) : i \in 1..k
          BY <2>2
        <4> QED BY <2>3, <4>1
      <3>3. ASSUME NEW j \in 1..k, list[j] \in wanted PROVE \E i \in 1..l : e[i] = j
        <4>1. j \in 1..(k - 1)
          <5>1. j # k
            BY <2>8, <3>3
          <5> QED BY <2>2, <5>1
        <4> QED BY <2>3, <3>3, <4>1
      <3>4. Picks(e, r, list, wanted, k, X)
        BY <2>3, <3>1, <3>2, <3>3 DEF Picks
      <3> QED BY <2>2, <3>4 DEF r, n
    <2> QED BY <2>7, <2>8
  <1>5. 0..n \subseteq T
    <2> HIDE DEF T
    <2> QED BY <1>1, <1>3, <1>4, UpTo DEF n
  <1>6. Len(list) \in T
    <2>1. Len(list) \in 0..n
      BY <1>1 DEF n
    <2> QED BY <1>5, <2>1
  <1> QED BY <1>2, <1>6

\* Kept on a list without repetition.
LEMMA KeptDistinct ==
  ASSUME NEW X, NEW list, Distinct(list, X), NEW wanted
  PROVE  /\ Distinct(S!Kept(list, wanted), X)
         /\ S!ToSet(S!Kept(list, wanted)) = S!ToSet(list) \cap wanted
  <1> DEFINE q == S!Kept(list, wanted)
             n == Len(list)
             l == Len(q)
  <1>1. list \in Seq(X) /\ \A i, j \in 1..n : list[i] = list[j] => i = j
    BY DEF Distinct
  <1>2. PICK e : Picks(e, q, list, wanted, n, X)
    BY <1>1, KeptIs
  <1> HIDE DEF q
  <1>3. /\ q \in Seq(X) /\ e \in [1..l -> 1..n]
        /\ \A i, j \in 1..l : i < j => e[i] < e[j]
        /\ \A i \in 1..l : q[i] = list[e[i]] /\ list[e[i]] \in wanted
        /\ \A j \in 1..n : list[j] \in wanted => \E i \in 1..l : e[i] = j
    BY <1>2 DEF Picks
  <1>4. l \in Nat /\ n \in Nat
    BY <1>1, <1>3, LenProperties
  <1>5. \A i \in 1..l : e[i] \in 1..n
    BY <1>3
  <1>6. /\ \A x : x \in S!ToSet(q) <=> \E i \in 1..l : q[i] = x
        /\ \A x : x \in S!ToSet(list) <=> \E i \in 1..n : list[i] = x
    BY <1>1, <1>3, Members
  <1> HIDE DEF n, l
  <1>7. ASSUME NEW i \in 1..l, NEW j \in 1..l, q[i] = q[j] PROVE i = j
    <2>1. e[i] = e[j]
      BY <1>1, <1>3, <1>5, <1>7
    <2>2. e[i] \in 1..n /\ e[j] \in 1..n
      BY <1>5
    <2>3. ~(i < j) /\ ~(j < i)
      BY <1>3, <1>4, <2>1, <2>2
    <2> QED BY <1>4, <2>3
  <1>8. Distinct(q, X)
    BY <1>3, <1>7 DEF Distinct, l
  <1>9. ASSUME NEW x, x \in S!ToSet(q) PROVE x \in S!ToSet(list) \cap wanted
    <2>1. PICK i \in 1..l : q[i] = x
      BY <1>6, <1>9
    <2>2. e[i] \in 1..n /\ list[e[i]] = x /\ x \in wanted
      BY <1>3, <1>5, <2>1
    <2> QED BY <1>6, <2>2
  <1>10. ASSUME NEW x, x \in S!ToSet(list) \cap wanted PROVE x \in S!ToSet(q)
    <2>1. PICK j \in 1..n : list[j] = x
      BY <1>6, <1>10
    <2>2. PICK i \in 1..l : e[i] = j
      BY <1>3, <1>10, <2>1
    <2>3. q[i] = x
      BY <1>3, <2>1, <2>2
    <2> QED BY <1>6, <2>3
  <1> QED BY <1>8, <1>9, <1>10 DEF q

LEMMA FirstNIs ==
  ASSUME NEW X, NEW list \in Seq(X), NEW m \in Nat
  PROVE  /\ S!FirstN(list, m) \in Seq(X)
         /\ Len(S!FirstN(list, m)) = IF m <= Len(list) THEN m ELSE Len(list)
         /\ \A i \in 1..Len(S!FirstN(list, m)) : S!FirstN(list, m)[i] = list[i] /\ i \in 1..Len(list)
  <1> DEFINE l == IF m <= Len(list) THEN m ELSE Len(list)
  <1>1. Len(list) \in Nat
    BY Members
  <1>2. S!Min({m, Len(list)}) = l
    <2>1. m \in Int /\ Len(list) \in Int
      BY <1>1
    <2> QED BY <2>1, TheLess
  <1>3. l \in 0..Len(list) /\ 0 \in 0..Len(list) /\ 0 <= l /\ l - 0 = l /\ 0 + 1 = 1
        /\ \A i \in 1..l : 0 + i = i /\ i \in 1..Len(list)
    BY <1>1
  <1> HIDE DEF l
  <1>4. S!FirstN(list, m) = SubSeq(list, 0 + 1, l)
    BY <1>2, <1>3 DEF S!FirstN
  <1>5. /\ SubSeq(list, 0 + 1, l) \in Seq(X) /\ Len(SubSeq(list, 0 + 1, l)) = l - 0
        /\ \A i \in 1..(l - 0) : SubSeq(list, 0 + 1, l)[i] = list[0 + i] /\ list[0 + i] \in X
    BY <1>3, PartOf
  <1>6. /\ S!FirstN(list, m) \in Seq(X) /\ Len(S!FirstN(list, m)) = l
        /\ \A i \in 1..l : S!FirstN(list, m)[i] = list[i] /\ i \in 1..Len(list)
    BY <1>3, <1>4, <1>5
  <1> QED BY <1>6 DEF l

LEMMA FirstNDistinct ==
  ASSUME NEW X, NEW list, Distinct(list, X), NEW m \in Nat
  PROVE  Distinct(S!FirstN(list, m), X) /\ S!ToSet(S!FirstN(list, m)) \subseteq S!ToSet(list)
  <1> DEFINE q == S!FirstN(list, m)
  <1>1. list \in Seq(X) /\ \A i, j \in 1..Len(list) : list[i] = list[j] => i = j
    BY DEF Distinct
  <1>2. q \in Seq(X) /\ \A i \in 1..Len(q) : q[i] = list[i] /\ i \in 1..Len(list)
    BY <1>1, FirstNIs
  <1> HIDE DEF q
  <1>3. Distinct(q, X)
    BY <1>1, <1>2 DEF Distinct
  <1>4. S!ToSet(q) \subseteq S!ToSet(list)
    <2>1. ASSUME NEW x \in S!ToSet(q) PROVE x \in S!ToSet(list)
      <3>1. PICK i \in 1..Len(q) : q[i] = x
        BY <1>2, Members
      <3>2. list[i] = x /\ i \in 1..Len(list)
        BY <1>2, <3>1
      <3> QED BY <1>1, <3>2, Members
    <2> QED BY <2>1
  <1> QED BY <1>3, <1>4 DEF q

\* The second list adds what the first does not have.
LEMMA JoinedIs ==
  ASSUME NEW X, NEW one, Distinct(one, X), NEW two, Distinct(two, X)
  PROVE  /\ Distinct(S!Joined(one, two), X)
         /\ S!ToSet(S!Joined(one, two)) = S!ToSet(one) \cup S!ToSet(two)
  <1> DEFINE W == S!ToSet(two) \ S!ToSet(one)
             k == S!Kept(two, W)
             q == one \o k
             l == Len(one)
             m == Len(k)
  <1>1. one \in Seq(X) /\ \A i, j \in 1..l : one[i] = one[j] => i = j
    BY DEF Distinct
  <1>2. Distinct(k, X) /\ S!ToSet(k) = S!ToSet(two) \cap W
    BY KeptDistinct
  <1> HIDE DEF k
  <1>3. k \in Seq(X) /\ \A i, j \in 1..m : k[i] = k[j] => i = j
    BY <1>2 DEF Distinct
  <1>4. S!ToSet(k) = W
    BY <1>2
  <1>5. l \in Nat /\ m \in Nat
    BY <1>1, <1>3, LenProperties
  <1>6. /\ q \in Seq(X) /\ Len(q) = l + m
        /\ \A i \in 1..(l + m) : q[i] = IF i <= l THEN one[i] ELSE k[i - l]
    BY <1>1, <1>3, ConcatProperties
  <1>7. /\ \A x : x \in S!ToSet(q) <=> \E i \in 1..(l + m) : q[i] = x
        /\ \A x : x \in S!ToSet(one) <=> \E i \in 1..l : one[i] = x
        /\ \A x : x \in S!ToSet(k) <=> \E i \in 1..m : k[i] = x
    <2> HIDE DEF q
    <2>1. \A x : x \in S!ToSet(q) <=> \E i \in 1..Len(q) : q[i] = x
      BY <1>6, Members
    <2>2. \A x : x \in S!ToSet(one) <=> \E i \in 1..l : one[i] = x
      BY <1>1, Members
    <2>3. \A x : x \in S!ToSet(k) <=> \E i \in 1..m : k[i] = x
      BY <1>3, Members
    <2> QED BY <1>6, <2>1, <2>2, <2>3
  <1> HIDE DEF q, l, m
  <1>8. ASSUME NEW i \in 1..(l + m)
        PROVE  \/ i \in 1..l /\ q[i] = one[i] /\ q[i] \in S!ToSet(one)
               \/ i - l \in 1..m /\ ~(i <= l) /\ q[i] = k[i - l] /\ q[i] \in W
    <2>1. CASE i <= l
      BY <1>5, <1>6, <1>7, <2>1
    <2>2. CASE ~(i <= l)
      <3>1. i - l \in 1..m
        BY <1>5, <2>2
      <3> QED BY <1>4, <1>6, <1>7, <2>2, <3>1
    <2> QED BY <2>1, <2>2
  <1>9. ASSUME NEW i \in 1..(l + m), NEW j \in 1..(l + m), q[i] = q[j] PROVE i = j
    <2>1. CASE i \in 1..l /\ q[i] = one[i] /\ q[i] \in S!ToSet(one)
      <3>1. j \in 1..l /\ q[j] = one[j]
        BY <1>8, <1>9, <2>1
      <3> QED BY <1>1, <1>9, <2>1, <3>1 DEF l
    <2>2. CASE i - l \in 1..m /\ ~(i <= l) /\ q[i] = k[i - l] /\ q[i] \in W
      <3>1. j - l \in 1..m /\ q[j] = k[j - l]
        BY <1>8, <1>9, <2>2
      <3>2. i - l = j - l
        BY <1>3, <1>9, <2>2, <3>1 DEF m
      <3> QED BY <1>5, <3>2
    <2> QED BY <1>8, <2>1, <2>2
  <1>10. Distinct(q, X)
    BY <1>6, <1>9 DEF Distinct
  <1>11. ASSUME NEW x, x \in S!ToSet(q) PROVE x \in S!ToSet(one) \cup S!ToSet(two)
    <2>1. PICK i \in 1..(l + m) : q[i] = x
      BY <1>7, <1>11
    <2> QED BY <1>8, <2>1
  <1>12. ASSUME NEW x, x \in S!ToSet(one) \cup S!ToSet(two) PROVE x \in S!ToSet(q)
    <2>1. CASE x \in S!ToSet(one)
      <3>1. PICK i \in 1..l : one[i] = x
        BY <1>7, <2>1
      <3>2. i \in 1..(l + m) /\ i <= l
        BY <1>5
      <3> QED BY <1>6, <1>7, <3>1, <3>2
    <2>2. CASE x \in W
      <3>1. PICK i \in 1..m : k[i] = x
        BY <1>4, <1>7, <2>2
      <3>2. l + i \in 1..(l + m) /\ ~(l + i <= l) /\ (l + i) - l = i
        BY <1>5
      <3>3. q[l + i] = k[i]
        BY <1>6, <3>2
      <3> QED BY <1>7, <3>1, <3>2, <3>3
    <2> QED BY <1>12, <2>1, <2>2
  <1>13. q = S!Joined(one, two)
    BY DEF S!Joined, q, k
  <1> QED BY <1>10, <1>11, <1>12, <1>13

-----------------------------------------------------------------------------
(* Fusion.                                                                  *)

\* The place of a chunk is its first one, or the one after the last.
LEMMA PlaceIs ==
  ASSUME NEW X, NEW s \in Seq(X), NEW a
  PROVE  /\ S!Place(s, a) \in 1..(Len(s) + 1)
         /\ a \in S!ToSet(s) => /\ S!Place(s, a) \in 1..Len(s) /\ s[S!Place(s, a)] = a
                                /\ \A i \in 1..Len(s) : s[i] = a => S!Place(s, a) <= i
         /\ a \notin S!ToSet(s) => S!Place(s, a) = Len(s) + 1
  <1> DEFINE T == {i \in 1..Len(s) : s[i] = a}
             first == S!SelectInSeq(s, LAMBDA c : c = a)
  <1>1. Len(s) \in Nat /\ \A x : x \in S!ToSet(s) <=> \E i \in 1..Len(s) : s[i] = x
    BY Members
  <1>2. first = IF T # {} THEN S!Min(T) ELSE 0
    BY DEF S!SelectInSeq
  <1>3. S!Place(s, a) = IF first = 0 THEN Len(s) + 1 ELSE first
    BY DEF S!Place
  <1>4. CASE a \in S!ToSet(s)
    <2>1. T # {} /\ T \in SUBSET Nat
      BY <1>1, <1>4
    <2>2. S!Min(T) \in T /\ \A i \in T : S!Min(T) <= i
      <3> HIDE DEF T
      <3> QED BY <2>1, LeastOf
    <2> HIDE DEF first
    <2>3. first \in 1..Len(s) /\ s[first] = a /\ \A i \in 1..Len(s) : s[i] = a => first <= i
      BY <1>2, <2>1, <2>2
    <2>4. S!Place(s, a) = first
      BY <1>1, <1>3, <2>3
    <2> QED BY <1>1, <1>4, <2>3, <2>4
  <1>5. CASE a \notin S!ToSet(s)
    <2>1. T = {}
      BY <1>1, <1>5
    <2>2. S!Place(s, a) = Len(s) + 1
      BY <1>2, <1>3, <2>1
    <2> QED BY <1>1, <1>5, <2>2
  <1> QED BY <1>4, <1>5

LEMMA PlaceOf ==
  ASSUME NEW X, NEW s, Distinct(s, X), NEW i \in 1..Len(s)
  PROVE  S!Place(s, s[i]) = i /\ s[i] \in S!ToSet(s)
  <1>1. s \in Seq(X) /\ \A k, j \in 1..Len(s) : s[k] = s[j] => k = j
    BY DEF Distinct
  <1>2. s[i] \in S!ToSet(s)
    BY <1>1, Members
  <1>3. S!Place(s, s[i]) \in 1..Len(s) /\ s[S!Place(s, s[i])] = s[i]
    BY <1>1, <1>2, PlaceIs
  <1> QED BY <1>1, <1>2, <1>3

\* The product of the ranks, factor by factor.
LEMMA UnitSteps ==
  ASSUME S!SearchSettings, NEW list, list = [k \in 1..Candidates |-> k]
  PROVE  \E F \in [0..Len(list) -> Nat] :
           /\ F[0] = 1 /\ F[Len(list)] = S!Unit
           /\ \A k \in 1..Len(list) : F[k] = F[k - 1] * (RrfK + list[k])
  <1> DEFINE n == Len(list)
             Op(p, k) == p * (RrfK + list[k])
             op == [w \in Nat \X (1..n) |-> Op(w[1], w[2])]
             Fold(f) == f = [q \in SUBSET (1..n) |->
                               IF q = {} THEN 1 ELSE Op(f[q \ {Largest(q)}], Largest(q))]
             it == CHOOSE f : Fold(f)
  <1>1. n \in Nat /\ DOMAIN list = 1..n /\ \A k \in 1..n : RrfK + list[k] \in Nat
    <2>1. Candidates \in Nat /\ RrfK \in Nat
      BY DEF S!SearchSettings
    <2>2. list \in [1..Candidates -> Nat] /\ \A k \in 1..Candidates : list[k] \in Nat
      OBVIOUS
    <2>3. n = Candidates /\ DOMAIN list = 1..Candidates
      BY <2>1, <2>2, AsSeq
    <2> HIDE DEF n
    <2> QED BY <2>1, <2>2, <2>3
  <1>2. it[1..n] = S!Unit
    <2>1. S!Unit = S!FoldLeft(LAMBDA p, k : p * (RrfK + k), 1, list)
      BY DEF S!Unit
    <2> QED BY <1>1, <2>1 DEF S!FoldLeft, S!MapThenFoldSet, S!Max, Largest
  <1>3. 1 \in Nat /\ op \in [Nat \X (1..n) -> Nat]
    <2>1. ASSUME NEW p \in Nat, NEW k \in 1..n PROVE Op(p, k) \in Nat
      <3>1. RrfK + list[k] \in Nat
        BY <1>1
      <3> DEFINE r == RrfK + list[k]
      <3> HIDE DEF r
      <3>2. p * r \in Nat
        BY <3>1 DEF r
      <3> QED BY <3>2 DEF r
    <2> HIDE DEF Op
    <2> QED BY <2>1
  <1>4. PICK f : IsFold(f, Nat, 1, n, op)
    <2> HIDE DEF op, n
    <2> QED BY <1>1, <1>3, FoldExists
  <1>5. Fold(f)
    <2>1. ASSUME NEW q \in SUBSET (1..n), q # {}
          PROVE  op[<<f[q \ {Largest(q)}], Largest(q)>>] = Op(f[q \ {Largest(q)}], Largest(q))
      <3>1. Largest(q) \in 1..n
        BY <1>1, <2>1, LargestOf
      <3>2. f[q \ {Largest(q)}] \in Nat
        BY <1>4 DEF IsFold
      <3> HIDE DEF Op
      <3> QED BY <3>1, <3>2
    <2> HIDE DEF Op, op, n
    <2> QED BY <1>4, <2>1 DEF IsFold
  <1>6. Fold(it)
    BY <1>5
  <1> HIDE DEF it
  <1>7. Follows(it, Nat, 1, n, op)
    <2>1. it[{}] = 1
      <3>1. {} \in SUBSET (1..n)
        OBVIOUS
      <3> HIDE DEF Op
      <3> QED BY <1>6, <3>1
    <2>2. ASSUME NEW q \in SUBSET (1..n), q # {}, it[q \ {Largest(q)}] \in Nat
          PROVE  it[q] = op[<<it[q \ {Largest(q)}], Largest(q)>>]
      <3>1. Largest(q) \in 1..n
        BY <1>1, <2>2, LargestOf
      <3> HIDE DEF Op
      <3>2. it[q] = Op(it[q \ {Largest(q)}], Largest(q))
        BY <1>6, <2>2
      <3> QED BY <2>2, <3>1, <3>2
    <2> HIDE DEF op
    <2> QED BY <2>1, <2>2 DEF Follows
  <1>8. PICK F : Passes(F, it[1..n], Nat, 1, n, op)
    <2> HIDE DEF op, n
    <2> QED BY <1>1, <1>3, <1>7, FoldSteps
  <1>9. F \in [0..n -> Nat] /\ F[0] = 1 /\ F[n] = it[1..n]
    BY <1>8 DEF Passes
  <1>10. ASSUME NEW k \in 1..n PROVE F[k] = Op(F[k - 1], k)
    <2>1. F[k] = op[<<F[k - 1], k>>]
      BY <1>8 DEF Passes
    <2>2. k - 1 \in 0..n
      <3>1. n \in Nat
        BY <1>1
      <3> HIDE DEF n
      <3> QED BY <3>1
    <2>3. F[k - 1] \in Nat
      BY <1>9, <2>2
    <2> HIDE DEF Op
    <2> QED BY <2>1, <2>3
  <1> QED BY <1>2, <1>9, <1>10

LEMMA UnitIs ==
  ASSUME S!SearchSettings
  PROVE  S!Unit \in Nat
  <1> DEFINE list == [k \in 1..Candidates |-> k]
  <1>1. PICK F \in [0..Len(list) -> Nat] : F[Len(list)] = S!Unit
    <2> HIDE DEF list
    <2> QED BY UnitSteps DEF list
  <1>2. Len(list) \in Nat
    <2>1. Candidates \in Nat
      BY DEF S!SearchSettings
    <2>2. list \in [1..Candidates -> Nat]
      OBVIOUS
    <2> HIDE DEF list
    <2> QED BY <2>1, <2>2, AsSeq
  <1> HIDE DEF list
  <1>3. Len(list) \in 0..Len(list)
    BY <1>2
  <1> QED BY <1>1, <1>3

\* A share of u among more is not larger.
LEMMA SmallerShare ==
  ASSUME NEW u \in Nat, NEW x \in Nat \ {0}, NEW y \in Nat \ {0}, x <= y
  PROVE  u \div y <= u \div x /\ u \div x \in Nat /\ u \div y \in Nat
  <1> DEFINE p == u \div x
             q == u \div y
             r == u % x
             t == u % y
  <1>1. p \in Nat /\ r \in 0..(x - 1) /\ u = x * p + r
    OBVIOUS
  <1>2. q \in Nat /\ t \in 0..(y - 1) /\ u = y * q + t
    OBVIOUS
  <1> HIDE DEF p, q, r, t
  <1>3. ~(p < q)
    <2> SUFFICES ASSUME p < q PROVE FALSE
      OBVIOUS
    <2>1. PICK d \in Nat : q = p + 1 + d
      <3>1. q - p - 1 \in Nat /\ q = p + 1 + (q - p - 1)
        BY <1>1, <1>2
      <3> QED BY <3>1
    <2>2. PICK f \in Nat : y = x + f
      <3>1. y - x \in Nat /\ y = x + (y - x)
        OBVIOUS
      <3> QED BY <3>1
    <2>3. x * p \in Nat /\ x * d \in Nat /\ f * q \in Nat
      BY <1>1, <1>2, <2>1, <2>2
    <2>4. y * q = x * p + x + x * d + f * q
      BY <1>1, <1>2, <2>1, <2>2
    <2> QED BY <1>1, <1>2, <2>3, <2>4
  <1> QED BY <1>1, <1>2, <1>3 DEF p, q

LEMMA ScoreOrder ==
  ASSUME S!SearchSettings, NEW list \in Seq(Index), NEW a, NEW b,
         S!Place(list, a) <= S!Place(list, b)
  PROVE  /\ S!RankScore(list, a) \in Nat /\ S!RankScore(list, b) \in Nat
         /\ S!RankScore(list, b) <= S!RankScore(list, a)
  <1> DEFINE x == S!Place(list, a)
             y == S!Place(list, b)
  <1>1. S!Unit \in Nat /\ RrfK \in Nat /\ Len(list) \in Nat
    BY UnitIs, Members DEF S!SearchSettings
  <1>2. /\ x \in 1..(Len(list) + 1) /\ y \in 1..(Len(list) + 1)
        /\ a \notin S!ToSet(list) => x = Len(list) + 1
        /\ b \in S!ToSet(list) => y \in 1..Len(list)
    BY PlaceIs
  <1>3. x <= y
    OBVIOUS
  <1> HIDE DEF x, y
  <1>4. b \in S!ToSet(list) => a \in S!ToSet(list)
    BY <1>1, <1>2, <1>3
  <1>5. RrfK + x \in Nat \ {0} /\ RrfK + y \in Nat \ {0} /\ RrfK + x <= RrfK + y
    BY <1>1, <1>2, <1>3
  <1>6. /\ S!Unit \div (RrfK + y) <= S!Unit \div (RrfK + x)
        /\ S!Unit \div (RrfK + x) \in Nat /\ S!Unit \div (RrfK + y) \in Nat
    <2> DEFINE v == RrfK + x
               w == RrfK + y
    <2>1. v \in Nat \ {0} /\ w \in Nat \ {0} /\ v <= w
      BY <1>5
    <2> HIDE DEF v, w
    <2>2. S!Unit \div w <= S!Unit \div v /\ S!Unit \div v \in Nat /\ S!Unit \div w \in Nat
      BY <1>1, <2>1, SmallerShare
    <2> QED BY <2>2 DEF v, w
  <1>7. /\ S!RankScore(list, a) = IF a \in S!ToSet(list) THEN S!Unit \div (RrfK + x) ELSE 0
        /\ S!RankScore(list, b) = IF b \in S!ToSet(list) THEN S!Unit \div (RrfK + y) ELSE 0
    BY DEF S!RankScore, x, y
  <1> DEFINE v == S!Unit \div (RrfK + x)
             w == S!Unit \div (RrfK + y)
  <1> HIDE DEF v, w
  <1>8. /\ v \in Nat /\ w \in Nat /\ w <= v
        /\ S!RankScore(list, a) = IF a \in S!ToSet(list) THEN v ELSE 0
        /\ S!RankScore(list, b) = IF b \in S!ToSet(list) THEN w ELSE 0
    BY <1>6, <1>7 DEF v, w
  <1> QED BY <1>4, <1>8

Score(one, two, c) == S!RankScore(one, c) + S!RankScore(two, c)

\* The fused list is the joined one, sorted by score.
LEMMA FuseIs ==
  ASSUME S!SearchSettings, NEW one \in Seq(Index), NEW two \in Seq(Index),
         NEW J, J = S!Joined(one, two), J \in Seq(Index)
  PROVE  \E order, key : /\ Sorting(order, Len(J), key)
                         /\ S!Fuse(one, two) = Permuted(J, order)
                         /\ \A i \in 1..Len(J) : key[i] = Score(one, two, J[i])
  <1> DEFINE n == Len(J)
             D == DOMAIN J
             Sc(c) == S!RankScore(one, c) + S!RankScore(two, c)
             Good(o) == \A i, j \in D : i < j =>
                          \/ Sc(J[o[i]]) > Sc(J[o[j]])
                          \/ Sc(J[o[i]]) = Sc(J[o[j]]) /\ o[i] < o[j]
             order == CHOOSE o \in [D -> D] : Good(o)
             key == [i \in 1..n |-> Sc(J[i])]
  <1>1. n \in Nat /\ D = 1..n /\ \A i \in 1..n : J[i] \in Index
    BY Members
  <1>2. S!Fuse(one, two) = Permuted(J, order)
    BY DEF S!Fuse, S!SortDescending, Permuted
  <1>3. \A c : Sc(c) \in Int
    <2>1. ASSUME NEW c PROVE Sc(c) \in Int
      <3>1. S!Place(one, c) \in 1..(Len(one) + 1) /\ S!Place(two, c) \in 1..(Len(two) + 1)
            /\ Len(one) \in Nat /\ Len(two) \in Nat
        BY PlaceIs, Members
      <3>2. S!Place(one, c) <= S!Place(one, c) /\ S!Place(two, c) <= S!Place(two, c)
        BY <3>1
      <3>3. S!RankScore(one, c) \in Nat /\ S!RankScore(two, c) \in Nat
        BY <3>2, ScoreOrder
      <3> QED BY <3>3
    <2> QED BY <2>1
  <1> HIDE DEF Sc
  <1>4. key \in [1..n -> Int] /\ \A i \in 1..n : key[i] = Sc(J[i])
    BY <1>3
  <1> HIDE DEF key, n
  <1>5. PICK o : Sorting(o, n, key)
    BY <1>1, <1>4, Sorts
  <1>6. o \in [D -> D] /\ Good(o)
    <2>1. o \in [1..n -> 1..n] /\ \A i \in 1..n : o[i] \in 1..n
      BY <1>5 DEF Sorting
    <2>2. \A i \in 1..n : key[o[i]] = Sc(J[o[i]])
      BY <1>4, <2>1
    <2>3. ASSUME NEW i \in 1..n, NEW j \in 1..n, i < j
          PROVE  Sc(J[o[i]]) > Sc(J[o[j]]) \/ (Sc(J[o[i]]) = Sc(J[o[j]]) /\ o[i] < o[j])
      <3>1. key[o[i]] > key[o[j]] \/ (key[o[i]] = key[o[j]] /\ o[i] < o[j])
        BY <1>5, <2>3 DEF Sorting
      <3> QED BY <2>2, <3>1
    <2> QED BY <1>1, <2>1, <2>3
  <1>7. order \in [D -> D] /\ Good(order)
    <2> HIDE DEF Good
    <2> QED BY <1>6
  <1> HIDE DEF order
  <1>8. Sorting(order, n, key)
    <2>1. order \in [1..n -> 1..n] /\ \A i \in 1..n : order[i] \in 1..n
      BY <1>1, <1>7
    <2>2. \A i \in 1..n : key[order[i]] = Sc(J[order[i]])
      BY <1>4, <2>1
    <2>3. ASSUME NEW i \in 1..n, NEW j \in 1..n, i < j
          PROVE  key[order[i]] > key[order[j]] \/ (key[order[i]] = key[order[j]] /\ order[i] < order[j])
      <3>1. \/ Sc(J[order[i]]) > Sc(J[order[j]])
            \/ Sc(J[order[i]]) = Sc(J[order[j]]) /\ order[i] < order[j]
        BY <1>1, <1>7, <2>3
      <3> QED BY <2>2, <3>1
    <2> QED BY <1>1, <1>4, <2>1, <2>3 DEF Sorting
  <1>9. \A i \in 1..n : key[i] = Score(one, two, J[i])
    BY <1>4 DEF Sc, Score
  <1> QED BY <1>2, <1>8, <1>9 DEF n

\* The same with a score given for each element.
ByScore(list, score) == S!SortDescending(list, LAMBDA c : score[c])

LEMMA SortedIs ==
  ASSUME NEW X, NEW J \in Seq(X), NEW score, \A x \in S!ToSet(J) : score[x] \in Int
  PROVE  \E order, key : /\ Sorting(order, Len(J), key)
                         /\ ByScore(J, score) = Permuted(J, order)
  <1> DEFINE n == Len(J)
             D == DOMAIN J
             Good(o) == \A i, j \in D : i < j =>
                          \/ score[J[o[i]]] > score[J[o[j]]]
                          \/ score[J[o[i]]] = score[J[o[j]]] /\ o[i] < o[j]
             order == CHOOSE o \in [D -> D] : Good(o)
             key == [i \in 1..n |-> score[J[i]]]
  <1>1. n \in Nat /\ D = 1..n /\ \A i \in 1..n : J[i] \in S!ToSet(J)
    BY Members
  <1>2. ByScore(J, score) = Permuted(J, order)
    BY DEF ByScore, S!SortDescending, Permuted
  <1>4. key \in [1..n -> Int] /\ \A i \in 1..n : key[i] = score[J[i]]
    BY <1>1
  <1> HIDE DEF key, n
  <1>5. PICK o : Sorting(o, n, key)
    BY <1>1, <1>4, Sorts
  <1>6. o \in [D -> D] /\ Good(o)
    <2>1. o \in [1..n -> 1..n] /\ \A i \in 1..n : o[i] \in 1..n
      BY <1>5 DEF Sorting
    <2>2. \A i \in 1..n : key[o[i]] = score[J[o[i]]]
      BY <1>4, <2>1
    <2> QED BY <1>1, <1>5, <2>1, <2>2 DEF Sorting
  <1>7. order \in [D -> D] /\ Good(order)
    <2> HIDE DEF Good
    <2> QED BY <1>6
  <1> HIDE DEF order
  <1>8. Sorting(order, n, key)
    <2>1. order \in [1..n -> 1..n] /\ \A i \in 1..n : order[i] \in 1..n
      BY <1>1, <1>7
    <2>2. \A i \in 1..n : key[order[i]] = score[J[order[i]]]
      BY <1>4, <2>1
    <2>3. ASSUME NEW i \in 1..n, NEW j \in 1..n, i < j
          PROVE  key[order[i]] > key[order[j]] \/ (key[order[i]] = key[order[j]] /\ order[i] < order[j])
      <3>1. \/ score[J[order[i]]] > score[J[order[j]]]
            \/ score[J[order[i]]] = score[J[order[j]]] /\ order[i] < order[j]
        BY <1>1, <1>7, <2>3
      <3> QED BY <2>2, <3>1
    <2> QED BY <1>1, <1>4, <2>1, <2>3 DEF Sorting
  <1> QED BY <1>2, <1>8 DEF n

\* What is joined stands in the order of the lists: a chunk no list ranks below
\* another stands before it.
LEMMA JoinedOrder ==
  ASSUME NEW one, Distinct(one, Index), NEW two, Distinct(two, Index),
         NEW J, J = S!Joined(one, two),
         NEW x \in 1..Len(J), NEW y \in 1..Len(J), x # y,
         S!Place(one, J[x]) <= S!Place(one, J[y]),
         S!Place(two, J[x]) <= S!Place(two, J[y])
  PROVE  x < y
  <1> DEFINE W == S!ToSet(two) \ S!ToSet(one)
             k == S!Kept(two, W)
             a == J[x]
             b == J[y]
             l == Len(one)
             m == Len(k)
  <1>1. one \in Seq(Index) /\ two \in Seq(Index) /\ l \in Nat /\ Len(two) \in Nat
    BY Members DEF Distinct
  <1>2. PICK e : Picks(e, k, two, W, Len(two), Index)
    BY <1>1, KeptIs
  <1>3. J = one \o k
    BY DEF S!Joined
  <1> HIDE DEF k
  <1>4. k \in Seq(Index) /\ m \in Nat /\ e \in [1..m -> 1..Len(two)]
        /\ (\A i, j \in 1..m : i < j => e[i] < e[j])
        /\ (\A i \in 1..m : k[i] = two[e[i]] /\ two[e[i]] \in W)
    BY <1>2, Members DEF Picks
  <1>5. /\ J \in Seq(Index) /\ Len(J) = l + m
        /\ \A i \in 1..(l + m) : J[i] = IF i <= l THEN one[i] ELSE k[i - l]
    BY <1>1, <1>3, <1>4, ConcatProperties
  <1> HIDE DEF l, m
  <1>6. SUFFICES ASSUME y < x PROVE FALSE
    BY <1>1, <1>4, <1>5
  <1>7. S!Place(one, a) \in 1..(l + 1) /\ S!Place(one, b) \in 1..(l + 1)
    BY <1>1, PlaceIs DEF l
  <1>8. CASE x <= l
    <2>1. x \in 1..l /\ y \in 1..l /\ a = one[x] /\ b = one[y]
      BY <1>1, <1>4, <1>5, <1>6, <1>8
    <2>2. S!Place(one, a) = x /\ S!Place(one, b) = y
      BY <2>1, PlaceOf DEF l
    <2> QED BY <1>6, <2>1, <2>2
  <1>9. CASE ~(x <= l)
    <2> DEFINE u == x - l
               v == y - l
    <2>1. u \in 1..m /\ a = k[u]
      BY <1>1, <1>4, <1>5, <1>9
    <2>2. a \in W /\ a = two[e[u]] /\ e[u] \in 1..Len(two)
      BY <1>4, <2>1
    <2>3. S!Place(one, a) = l + 1
      BY <1>1, <2>2, PlaceIs DEF l
    <2>4. CASE y <= l
      <3>1. y \in 1..l /\ b = one[y]
        BY <1>1, <1>4, <1>5, <2>4
      <3>2. S!Place(one, b) = y
        BY <3>1, PlaceOf DEF l
      <3> HIDE DEF a, b
      <3>3. l + 1 <= y
        BY <2>3, <3>2 DEF a, b
      <3> QED BY <1>1, <2>4, <3>1, <3>3
    <2>5. CASE ~(y <= l)
      <3>1. v \in 1..m /\ b = k[v] /\ v < u
        BY <1>1, <1>4, <1>5, <1>6, <2>5
      <3>2. b = two[e[v]] /\ e[v] \in 1..Len(two)
        BY <1>4, <3>1
      <3>3. e[v] < e[u]
        BY <1>4, <2>1, <3>1
      <3>4. S!Place(two, a) = e[u] /\ S!Place(two, b) = e[v]
        BY <2>2, <3>2, PlaceOf
      <3>5. e[u] <= e[v]
        BY <3>4
      <3> QED BY <1>1, <2>2, <3>2, <3>3, <3>5
    <2> QED BY <2>4, <2>5
  <1> QED BY <1>8, <1>9

\* Fusion respects agreement, for the whole fused list.
LEMMA FusionAgrees ==
  ASSUME S!SearchSettings, NEW one, Distinct(one, Index), NEW two, Distinct(two, Index),
         NEW a \in S!ToSet(one) \cup S!ToSet(two), NEW b \in S!ToSet(one) \cup S!ToSet(two),
         a # b, S!Place(one, a) <= S!Place(one, b), S!Place(two, a) <= S!Place(two, b)
  PROVE  S!Place(S!Fuse(one, two), a) < S!Place(S!Fuse(one, two), b)
  <1> DEFINE J == S!Joined(one, two)
             q == S!Fuse(one, two)
             n == Len(J)
  <1>1. one \in Seq(Index) /\ two \in Seq(Index)
    BY DEF Distinct
  <1>2. Distinct(J, Index) /\ S!ToSet(J) = S!ToSet(one) \cup S!ToSet(two)
    BY JoinedIs
  <1> HIDE DEF J
  <1>3. J \in Seq(Index) /\ n \in Nat /\ DOMAIN J = 1..n
        /\ \A x : x \in S!ToSet(J) <=> \E i \in 1..n : J[i] = x
    BY <1>2, Members DEF Distinct
  <1>4. PICK order, key : /\ Sorting(order, n, key)
                          /\ q = Permuted(J, order)
                          /\ \A i \in 1..n : key[i] = Score(one, two, J[i])
    BY <1>1, <1>3, FuseIs DEF J
  <1> HIDE DEF q
  <1>5. /\ q \in Seq(Index) /\ Len(q) = n /\ S!ToSet(q) = S!ToSet(J)
        /\ \A i \in 1..n : q[i] = J[order[i]]
        /\ Distinct(q, Index)
    <2> DEFINE z == Permuted(J, order)
    <2>1. Rearranges(z, J, order, Index)
      BY <1>3, <1>4, Reordered
    <2> HIDE DEF z
    <2>2. q = z
      BY <1>4 DEF z
    <2> QED BY <1>2, <2>1, <2>2 DEF Rearranges
  <1>6. \A x : x \in S!ToSet(q) <=> \E i \in 1..n : q[i] = x
    BY <1>5, Members
  <1>7. PICK i \in 1..n : q[i] = a
    BY <1>2, <1>5, <1>6
  <1>8. PICK j \in 1..n : q[j] = b
    BY <1>2, <1>5, <1>6
  <1>9. S!Place(q, a) = i /\ S!Place(q, b) = j
    BY <1>5, <1>7, <1>8, PlaceOf
  <1> DEFINE x == order[i]
             y == order[j]
  <1> HIDE DEF n
  <1>10. /\ x \in 1..n /\ y \in 1..n /\ J[x] = a /\ J[y] = b
         /\ n \in Nat /\ key[x] \in Int /\ key[y] \in Int
    BY <1>4, <1>5, <1>7, <1>8 DEF Sorting
  <1>11. key[x] = Score(one, two, a) /\ key[y] = Score(one, two, b)
    BY <1>4, <1>10
  <1>12. Score(one, two, b) <= Score(one, two, a)
    <2>1. /\ S!RankScore(one, a) \in Nat /\ S!RankScore(one, b) \in Nat
          /\ S!RankScore(one, b) <= S!RankScore(one, a)
      BY <1>1, ScoreOrder
    <2>2. /\ S!RankScore(two, a) \in Nat /\ S!RankScore(two, b) \in Nat
          /\ S!RankScore(two, b) <= S!RankScore(two, a)
      BY <1>1, ScoreOrder
    <2> QED BY <2>1, <2>2 DEF Score
  <1>13. x # y
    BY <1>10
  <1>14. x < y
    <2>1. S!Place(one, J[x]) <= S!Place(one, J[y]) /\ S!Place(two, J[x]) <= S!Place(two, J[y])
      BY <1>10
    <2> HIDE DEF x, y
    <2> QED BY <1>10, <1>13, <2>1, JoinedOrder DEF J, n
  <1>15. i < j
    <2> SUFFICES ASSUME ~(i < j) PROVE FALSE
      OBVIOUS
    <2>1. j < i
      <3>1. i # j
        BY <1>7, <1>8
      <3> QED BY <1>3, <3>1
    <2>2. \/ key[order[j]] > key[order[i]]
          \/ key[order[j]] = key[order[i]] /\ order[j] < order[i]
      BY <1>4, <2>1 DEF Sorting
    <2> HIDE DEF Score
    <2>3. key[y] <= key[x]
      BY <1>11, <1>12
    <2>4. key[y] > key[x] \/ (key[y] = key[x] /\ y < x)
      BY <2>2
    <2> HIDE DEF x, y
    <2> QED BY <1>10, <1>14, <2>3, <2>4
  <1> QED BY <1>2, <1>5, <1>9, <1>15 DEF q

\* The fused list holds every chunk of the two lists once.
LEMMA FuseWhole ==
  ASSUME S!SearchSettings, NEW X, NEW one, Distinct(one, X), NEW two, Distinct(two, X), X \subseteq Index
  PROVE  /\ Distinct(S!Fuse(one, two), X)
         /\ S!ToSet(S!Fuse(one, two)) = S!ToSet(one) \cup S!ToSet(two)
  <1> DEFINE J == S!Joined(one, two)
             q == S!Fuse(one, two)
  <1>1. Distinct(one, Index) /\ Distinct(two, Index)
    BY Wider
  <1>2. /\ Distinct(J, X) /\ S!ToSet(J) = S!ToSet(one) \cup S!ToSet(two)
        /\ Distinct(J, Index)
    BY <1>1, JoinedIs
  <1> HIDE DEF J
  <1>3. one \in Seq(Index) /\ two \in Seq(Index) /\ J \in Seq(Index) /\ J \in Seq(X)
    BY <1>1, <1>2 DEF Distinct
  <1>4. PICK order, key : /\ Sorting(order, Len(J), key)
                          /\ q = Permuted(J, order)
                          /\ \A i \in 1..Len(J) : key[i] = Score(one, two, J[i])
    BY <1>3, FuseIs DEF J
  <1> HIDE DEF q
  <1>5. Rearranges(Permuted(J, order), J, order, X)
    BY <1>3, <1>4, Reordered
  <1>6. Rearranges(q, J, order, X)
    BY <1>4, <1>5
  <1> QED BY <1>2, <1>6 DEF q, Rearranges

\* What is cut off a list leaves the order of the rest.
LEMMA FirstNPlace ==
  ASSUME NEW q, Distinct(q, Index), NEW m \in Nat,
         NEW a \in S!ToSet(q), NEW b \in S!ToSet(q), S!Place(q, a) <= S!Place(q, b)
  PROVE  S!Place(S!FirstN(q, m), a) <= S!Place(S!FirstN(q, m), b)
  <1> DEFINE f == S!FirstN(q, m)
             l == Len(f)
             i == S!Place(q, a)
             j == S!Place(f, b)
  <1>1. q \in Seq(Index)
    BY DEF Distinct
  <1>2. Distinct(f, Index) /\ f \in Seq(Index) /\ \A k \in 1..l : f[k] = q[k] /\ k \in 1..Len(q)
    BY <1>1, FirstNIs, FirstNDistinct
  <1> HIDE DEF f
  <1>3. l \in Nat /\ Len(q) \in Nat
    BY <1>1, <1>2, LenProperties
  <1>4. S!Place(f, a) \in 1..(l + 1)
    BY <1>2, PlaceIs
  <1>5. i \in 1..Len(q) /\ q[i] = a
    BY <1>1, PlaceIs
  <1>6. CASE b \in S!ToSet(f)
    <2>1. j \in 1..l /\ f[j] = b
      BY <1>2, <1>6, PlaceIs
    <2>2. S!Place(q, b) = j
      BY <1>2, <2>1, PlaceOf
    <2>3. i <= j
      BY <2>2
    <2> HIDE DEF i, j, l
    <2>4. i \in 1..l
      BY <1>3, <1>5, <2>1, <2>3
    <2>5. f[i] = a
      BY <1>2, <1>5, <2>4
    <2>6. S!Place(f, a) = i
      BY <1>2, <2>4, <2>5, PlaceOf DEF l
    <2> QED BY <2>3, <2>6 DEF f, j
  <1>7. CASE b \notin S!ToSet(f)
    <2>1. S!Place(f, b) = l + 1
      BY <1>2, <1>7, PlaceIs
    <2> HIDE DEF l
    <2>2. S!Place(f, a) <= S!Place(f, b)
      BY <1>3, <1>4, <2>1
    <2> QED BY <2>2 DEF f
  <1> QED BY <1>6, <1>7

-----------------------------------------------------------------------------
(* The search.                                                              *)

Matching(q) == {c \in Index : S!Matches(c, q)}

LEMMA RankingIs ==
  ASSUME S!SearchSettings, NEW q, NEW r \in S!Rankings(q)
  PROVE  Distinct(r, Matching(q))
  <1>1. r \in S!SetToAllKPermutations(Matching(q))
    BY DEF S!Rankings, Matching
  <1>2. PICK t \in SUBSET Matching(q) : r \in S!SetToSeqs(t)
    BY <1>1 DEF S!SetToAllKPermutations
  <1> DEFINE n == S!Cardinality(t)
  <1>3. n \in Nat
    <2>1. IsFiniteSet(Index) /\ t \subseteq Index
      BY SearchCount DEF S!SearchSettings, Matching
    <2>2. IsFiniteSet(t)
      BY <2>1, FS_Subset
    <2> QED BY <2>2, FS_CardinalityType, SearchCount
  <1>4. r \in [1..n -> t] /\ \A i, j \in 1..n : i # j => r[i] # r[j]
    BY <1>2 DEF S!SetToSeqs
  <1>5. r \in [1..n -> Matching(q)]
    BY <1>2, <1>4
  <1> HIDE DEF n
  <1>6. r \in Seq(Matching(q)) /\ Len(r) = n
    BY <1>3, <1>5, AsSeq
  <1> QED BY <1>4, <1>6 DEF Distinct

LEMMA DenseIs ==
  ASSUME S!SearchSettings, NEW q, NEW d \in S!DenseHits(q)
  PROVE  Distinct(S!ChunksOf(d), Matching(q))
  <1>1. PICK r \in S!Rankings(q) :
          \E sim : d = [i \in DOMAIN r |-> [chunk |-> r[i], similarity |-> sim[i]]]
    BY DEF S!DenseHits
  <1>2. Distinct(r, Matching(q))
    BY RankingIs
  <1>3. r \in Seq(Matching(q))
    BY <1>2 DEF Distinct
  <1>4. r \in [1..Len(r) -> Matching(q)] /\ DOMAIN r = 1..Len(r)
    BY <1>3, LenProperties
  <1>5. S!ChunksOf(d) = r
    BY <1>1, <1>4 DEF S!ChunksOf
  <1> QED BY <1>2, <1>5

Agreement(one, two, fused) ==
  \A a, b \in S!ToSet(one) \cup S!ToSet(two) :
    S!Place(one, a) <= S!Place(one, b) /\ S!Place(two, a) <= S!Place(two, b) /\ a # b
      => S!Place(fused, a) <= S!Place(fused, b)

LEMMA FusedWell ==
  ASSUME S!SearchSettings, NEW X, X \subseteq Index,
         NEW one, Distinct(one, X), NEW two, Distinct(two, X)
  PROVE  /\ Distinct(S!FirstN(S!Fuse(one, two), Candidates), X)
         /\ Agreement(one, two, S!FirstN(S!Fuse(one, two), Candidates))
  <1> DEFINE q == S!Fuse(one, two)
             f == S!FirstN(q, Candidates)
  <1>1. Distinct(one, Index) /\ Distinct(two, Index)
    BY Wider
  <1>2. Distinct(q, X) /\ Distinct(q, Index) /\ S!ToSet(q) = S!ToSet(one) \cup S!ToSet(two)
    BY <1>1, FuseWhole
  <1>3. Candidates \in Nat
    BY DEF S!SearchSettings
  <1>4. ASSUME NEW a \in S!ToSet(one) \cup S!ToSet(two), NEW b \in S!ToSet(one) \cup S!ToSet(two),
               S!Place(one, a) <= S!Place(one, b), S!Place(two, a) <= S!Place(two, b), a # b
        PROVE  S!Place(f, a) <= S!Place(f, b)
    <2>1. S!Place(q, a) < S!Place(q, b)
      BY <1>1, <1>4, FusionAgrees
    <2>2. S!Place(q, a) \in 1..(Len(q) + 1) /\ S!Place(q, b) \in 1..(Len(q) + 1) /\ Len(q) \in Nat
      BY <1>2, PlaceIs, Members DEF Distinct
    <2> HIDE DEF q
    <2>3. S!Place(q, a) <= S!Place(q, b)
      BY <2>1, <2>2
    <2>4. a \in S!ToSet(q) /\ b \in S!ToSet(q)
      BY <1>2, <1>4
    <2> QED BY <1>2, <1>3, <2>3, <2>4, FirstNPlace
  <1>5. Distinct(f, X)
    BY <1>2, <1>3, FirstNDistinct
  <1> QED BY <1>4, <1>5 DEF Agreement

\* A chunk is near a hit: the same review of the same product.
Near(c, hit) ==
  /\ c.review = hit.review /\ c.product = hit.product
  /\ c.number - hit.number \in (-Radius)..Radius

NearSome(list, hits) == \A c \in S!ToSet(list) : \E hit \in S!ToSet(hits) : Near(c, hit)

LEMMA NearItself ==
  ASSUME S!SearchSettings, NEW c \in Index
  PROVE  Near(c, c)
  <1>1. c.number \in Nat /\ Radius \in Nat
    BY DEF S!SearchSettings
  <1>2. c.number - c.number = 0 /\ 0 \in (-Radius)..Radius
    BY <1>1
  <1> QED BY <1>2 DEF Near

LEMMA NeighboursIn ==
  ASSUME S!SearchSettings, NEW hit \in Index
  PROVE  /\ Distinct(S!InOrder(S!Neighbours(hit)), S!Neighbours(hit))
         /\ \A c \in S!Neighbours(hit) : Near(c, hit) /\ c \in Index
  <1> DEFINE N == S!Neighbours(hit)
             n == Cardinality(N)
             B == {w \in N \X N : w[1].number < w[2].number}
             Good(q) == \A i, j \in 1..n : i < j => q[i] # q[j] /\ q[i].number <= q[j].number
             found == CHOOSE q \in [1..n -> N] : Good(q)
  <1>1. \A c \in Index : c.number \in Nat
    BY DEF S!SearchSettings
  <1>2. ASSUME NEW c \in N PROVE Near(c, hit) /\ c \in Index
    <2>1. /\ c \in Index /\ c.review = hit.review /\ c.product = hit.product
          /\ c.number \in (hit.number - Radius)..(hit.number + Radius)
      BY DEF S!Neighbours
    <2>2. c.number \in Nat /\ hit.number \in Nat /\ Radius \in Nat
      BY <1>1, <2>1 DEF S!SearchSettings
    <2>3. c.number - hit.number \in (-Radius)..Radius
      BY <2>1, <2>2
    <2> QED BY <2>1, <2>3 DEF Near
  <1>3. IsFiniteSet(N) /\ n \in Nat
    <2>1. IsFiniteSet(Index) /\ N \subseteq Index
      BY <1>2, SearchCount DEF S!SearchSettings
    <2> QED BY <2>1, FS_Subset, FS_CardinalityType
  <1> HIDE DEF N
  <1>4. \A c, d \in N : <<c, d>> \in B <=> c.number < d.number
    OBVIOUS
  <1> HIDE DEF B
  <1>5. ASSUME NEW c \in N, NEW d \in N, c.number = d.number PROVE c = d
    <2>1. /\ c.review = d.review /\ c.product = d.product /\ c \in Index /\ d \in Index
      BY <1>2 DEF Near
    <2> QED BY <1>5, <2>1 DEF S!SearchSettings
  <1>6. \A c \in N : c.number \in Nat
    BY <1>1, <1>2
  <1>7. Orders(B, N)
    <2>1. \A c \in N : <<c, c>> \notin B
      BY <1>4, <1>6
    <2>2. ASSUME NEW c \in N, NEW d \in N PROVE c = d \/ <<c, d>> \in B \/ <<d, c>> \in B
      <3>1. c.number \in Nat /\ d.number \in Nat
        BY <1>6
      <3>2. c.number = d.number \/ c.number < d.number \/ d.number < c.number
        BY <3>1
      <3> QED BY <1>4, <1>5, <3>2
    <2>3. ASSUME NEW c \in N, NEW d \in N, NEW e \in N, <<c, d>> \in B, <<d, e>> \in B
          PROVE  <<c, e>> \in B
      <3>1. c.number \in Nat /\ d.number \in Nat /\ e.number \in Nat
        BY <1>6
      <3>2. c.number < d.number /\ d.number < e.number
        BY <1>4, <2>3
      <3>3. c.number < e.number
        BY <3>1, <3>2
      <3> QED BY <1>4, <3>3
    <2> QED BY <2>1, <2>2, <2>3 DEF Orders
  <1> HIDE DEF n
  <1>8. PICK q \in [1..n -> N] : \A i, j \in 1..n : i < j => <<q[i], q[j]>> \in B
    BY <1>3, <1>7, Enumerated DEF n
  <1>9. Good(q)
    <2> SUFFICES ASSUME NEW i \in 1..n, NEW j \in 1..n, i < j
                 PROVE  q[i] # q[j] /\ q[i].number <= q[j].number
      OBVIOUS
    <2>1. q[i] \in N /\ q[j] \in N
      OBVIOUS
    <2>2. q[i].number < q[j].number
      BY <1>4, <1>8, <2>1
    <2>3. q[i].number \in Nat /\ q[j].number \in Nat
      BY <1>6, <2>1
    <2> QED BY <2>2, <2>3
  <1>10. S!InOrder(N) = found
    BY SearchCount DEF S!InOrder, n
  <1>11. found \in [1..n -> N] /\ Good(found)
    <2> HIDE DEF Good
    <2> QED BY <1>9
  <1> HIDE DEF found
  <1>12. found \in Seq(N) /\ Len(found) = n
    BY <1>3, <1>11, AsSeq DEF n
  <1>13. \A i, j \in 1..n : found[i] = found[j] => i = j
    <2>1. n \in Nat
      BY <1>3 DEF n
    <2> QED BY <1>11, <2>1
  <1>14. Distinct(found, N)
    BY <1>12, <1>13 DEF Distinct
  <1> QED BY <1>2, <1>10, <1>14 DEF N

\* The neighbours of the hits, gathered behind them; found are the hits whose
\* lookup answered.
Gather(hits, found) ==
  S!FoldLeft(LAMBDA q, i : IF i \in found /\ Radius > 0
                             THEN S!Joined(q, S!InOrder(S!Neighbours(hits[i]))) ELSE q,
             hits, [i \in DOMAIN hits |-> i])

Gathered(hits, M) == {q \in Seq(M) : Distinct(q, M) /\ NearSome(q, hits)}

\* What a product filter lets through it lets through with its neighbours.
Whole(M) == M \subseteq Index /\ \A hit \in M : S!Neighbours(hit) \subseteq M

LEMMA GatherOne ==
  ASSUME S!SearchSettings, NEW M, Whole(M), NEW hits \in Seq(M),
         NEW q \in Gathered(hits, M), NEW i \in 1..Len(hits)
  PROVE  S!Joined(q, S!InOrder(S!Neighbours(hits[i]))) \in Gathered(hits, M)
  <1> DEFINE hit == hits[i]
             N == S!Neighbours(hit)
             two == S!InOrder(N)
  <1>1. hit \in M /\ hit \in S!ToSet(hits)
    BY Members
  <1>2. hit \in Index /\ N \subseteq M
    BY <1>1 DEF Whole
  <1> HIDE DEF hit
  <1>3. Distinct(two, N) /\ \A c \in N : Near(c, hit)
    BY <1>2, NeighboursIn
  <1> HIDE DEF N, two
  <1>4. Distinct(two, M)
    BY <1>2, <1>3, Wider
  <1>5. Distinct(q, M) /\ NearSome(q, hits)
    BY DEF Gathered
  <1>6. /\ Distinct(S!Joined(q, two), M)
        /\ S!ToSet(S!Joined(q, two)) = S!ToSet(q) \cup S!ToSet(two)
    BY <1>4, <1>5, JoinedIs
  <1>7. S!ToSet(two) \subseteq N
    BY <1>3, Members DEF Distinct
  <1>8. NearSome(S!Joined(q, two), hits)
    BY <1>1, <1>3, <1>5, <1>6, <1>7 DEF NearSome
  <1> QED BY <1>6, <1>8 DEF Gathered, Distinct, hit, N, two

\* Gather, hit by hit.
LEMMA GatherSteps ==
  ASSUME S!SearchSettings, NEW M, Whole(M), NEW hits, hits \in Gathered(hits, M), NEW found,
         NEW list, list = [i \in DOMAIN hits |-> i]
  PROVE  Gather(hits, found) \in Gathered(hits, M)
  <1> DEFINE n == Len(list)
             Op(p, k) == IF list[k] \in found /\ Radius > 0
                           THEN S!Joined(p, S!InOrder(S!Neighbours(hits[list[k]]))) ELSE p
             op == [w \in Gathered(hits, M) \X (1..n) |-> Op(w[1], w[2])]
             Fold(f) == f = [q \in SUBSET (1..n) |->
                               IF q = {} THEN hits ELSE Op(f[q \ {Largest(q)}], Largest(q))]
             it == CHOOSE f : Fold(f)
  <1>1. n \in Nat /\ DOMAIN list = 1..n /\ hits \in Seq(M) /\ \A k \in 1..n : list[k] \in 1..Len(hits)
    <2>1. hits \in Seq(M)
      BY DEF Gathered
    <2>2. Len(hits) \in Nat /\ DOMAIN hits = 1..Len(hits)
      BY <2>1, LenProperties
    <2>3. list \in [1..Len(hits) -> 1..Len(hits)] /\ \A k \in 1..Len(hits) : list[k] \in 1..Len(hits)
      BY <2>2
    <2> HIDE DEF n
    <2>4. Len(list) = Len(hits) /\ DOMAIN list = 1..Len(hits)
      BY <2>2, <2>3, AsSeq
    <2> QED BY <2>1, <2>2, <2>3, <2>4 DEF n
  <1>2. it[1..n] = Gather(hits, found)
    <2>1. Gather(hits, found) =
            S!FoldLeft(LAMBDA q, i : IF i \in found /\ Radius > 0
                                       THEN S!Joined(q, S!InOrder(S!Neighbours(hits[i]))) ELSE q,
                       hits, list)
      BY DEF Gather
    <2> QED BY <1>1, <2>1 DEF S!FoldLeft, S!MapThenFoldSet, S!Max, Largest
  <1>3. hits \in Gathered(hits, M) /\ op \in [Gathered(hits, M) \X (1..n) -> Gathered(hits, M)]
    <2>1. ASSUME NEW p \in Gathered(hits, M), NEW k \in 1..n PROVE Op(p, k) \in Gathered(hits, M)
      <3>1. list[k] \in 1..Len(hits)
        BY <1>1
      <3>2. S!Joined(p, S!InOrder(S!Neighbours(hits[list[k]]))) \in Gathered(hits, M)
        BY <1>1, <3>1, GatherOne
      <3> QED BY <3>2
    <2> HIDE DEF Op
    <2> QED BY <2>1
  <1>4. PICK f : IsFold(f, Gathered(hits, M), hits, n, op)
    <2> HIDE DEF op, n
    <2> QED BY <1>1, <1>3, FoldExists
  <1>5. Fold(f)
    <2>1. ASSUME NEW q \in SUBSET (1..n), q # {}
          PROVE  op[<<f[q \ {Largest(q)}], Largest(q)>>] = Op(f[q \ {Largest(q)}], Largest(q))
      <3>1. Largest(q) \in 1..n
        BY <1>1, <2>1, LargestOf
      <3>2. f[q \ {Largest(q)}] \in Gathered(hits, M)
        BY <1>4 DEF IsFold
      <3> HIDE DEF Op
      <3> QED BY <3>1, <3>2
    <2> HIDE DEF Op, op, n
    <2> QED BY <1>4, <2>1 DEF IsFold
  <1>6. Fold(it)
    BY <1>5
  <1> HIDE DEF it
  <1>7. Follows(it, Gathered(hits, M), hits, n, op)
    <2>1. it[{}] = hits
      <3>1. {} \in SUBSET (1..n)
        OBVIOUS
      <3> HIDE DEF Op
      <3> QED BY <1>6, <3>1
    <2>2. ASSUME NEW q \in SUBSET (1..n), q # {}, it[q \ {Largest(q)}] \in Gathered(hits, M)
          PROVE  it[q] = op[<<it[q \ {Largest(q)}], Largest(q)>>]
      <3>1. Largest(q) \in 1..n
        BY <1>1, <2>2, LargestOf
      <3> HIDE DEF Op
      <3>2. it[q] = Op(it[q \ {Largest(q)}], Largest(q))
        BY <1>6, <2>2
      <3> QED BY <2>2, <3>1, <3>2
    <2> HIDE DEF op
    <2> QED BY <2>1, <2>2 DEF Follows
  <1>8. PICK F : Passes(F, it[1..n], Gathered(hits, M), hits, n, op)
    <2> HIDE DEF op, n
    <2> QED BY <1>1, <1>3, <1>7, FoldSteps
  <1>9. F \in [0..n -> Gathered(hits, M)] /\ F[0] = hits /\ F[n] = it[1..n]
    BY <1>8 DEF Passes
  <1>10. F[n] \in Gathered(hits, M)
    <2>1. n \in 0..n
      BY <1>1
    <2> QED BY <1>9, <2>1
  <1> QED BY <1>2, <1>9, <1>10

-----------------------------------------------------------------------------
(* What the model reads.                                                    *)

Read == [read : Seq([chunk : Index, chars : Nat]), budget : Nat]
Unread == [read |-> <<>>, budget |-> ContextChars]
Taking(p, c) ==
  LET chars == S!Min({TextChars, p.budget, ExcerptChars})
  IN  IF chars = 0 \/ Len(p.read) >= MaxResults THEN p
      ELSE [read |-> Append(p.read, [chunk |-> c, chars |-> chars]), budget |-> p.budget - chars]

LEMMA TakingIs ==
  ASSUME S!SearchSettings, NEW p \in Read, NEW c \in Index
  PROVE  /\ Taking(p, c) \in Read
         /\ \/ Taking(p, c) = p
            \/ \E chars \in Nat :
                 /\ Len(p.read) < MaxResults
                 /\ Taking(p, c).read = Append(p.read, [chunk |-> c, chars |-> chars])
                 /\ Taking(p, c).budget + chars = p.budget
  <1> DEFINE T == {TextChars, p.budget, ExcerptChars}
             chars == S!Min(T)
             r == [chunk |-> c, chars |-> chars]
  <1>1. /\ p.read \in Seq([chunk : Index, chars : Nat]) /\ p.budget \in Nat
        /\ TextChars \in Nat /\ ExcerptChars \in Nat /\ MaxResults \in Nat
    BY DEF Read, S!SearchSettings
  <1>2. chars \in Nat /\ chars <= p.budget
    <2>1. T \in SUBSET Nat /\ T # {} /\ p.budget \in T
      BY <1>1
    <2> HIDE DEF T
    <2>2. chars \in T /\ \A x \in T : chars <= x
      BY <2>1, LeastOf
    <2> QED BY <2>1, <2>2
  <1>3. Taking(p, c) = IF chars = 0 \/ Len(p.read) >= MaxResults THEN p
                       ELSE [read |-> Append(p.read, r), budget |-> p.budget - chars]
    BY DEF Taking
  <1> HIDE DEF chars
  <1>4. Append(p.read, r) \in Seq([chunk : Index, chars : Nat])
    BY <1>1, <1>2, AppendProperties
  <1>5. CASE chars = 0 \/ Len(p.read) >= MaxResults
    BY <1>3, <1>5
  <1>6. CASE ~(chars = 0 \/ Len(p.read) >= MaxResults)
    <2>1. Taking(p, c) = [read |-> Append(p.read, r), budget |-> p.budget - chars]
      BY <1>3, <1>6
    <2>2. p.budget - chars \in Nat /\ (p.budget - chars) + chars = p.budget
      BY <1>1, <1>2
    <2>3. Len(p.read) \in Nat
      BY <1>1, LenProperties
    <2>4. Len(p.read) < MaxResults
      BY <1>1, <1>6, <2>3
    <2> HIDE DEF r
    <2>5. Taking(p, c).read = Append(p.read, r) /\ Taking(p, c).budget = p.budget - chars
      BY <2>1
    <2>6. Taking(p, c) \in Read
      BY <1>4, <2>1, <2>2 DEF Read
    <2> QED BY <1>2, <2>2, <2>4, <2>5, <2>6 DEF r
  <1> QED BY <1>5, <1>6

Reading(list) ==
  S!FoldLeft(LAMBDA p, c :
               LET chars == S!Min({TextChars, p.budget, ExcerptChars})
               IN  IF chars = 0 \/ Len(p.read) >= MaxResults THEN p
                   ELSE [read |-> Append(p.read, [chunk |-> c, chars |-> chars]),
                         budget |-> p.budget - chars],
             [read |-> <<>>, budget |-> ContextChars], list)

\* Reading, chunk by chunk.
LEMMA ReadSteps ==
  ASSUME S!SearchSettings, NEW list \in Seq(Index)
  PROVE  \E F \in [0..Len(list) -> Read] :
           /\ F[0] = Unread /\ F[Len(list)] = Reading(list)
           /\ \A k \in 1..Len(list) : F[k] = Taking(F[k - 1], list[k])
  <1> DEFINE n == Len(list)
             Op(p, k) == Taking(p, list[k])
             op == [w \in Read \X (1..n) |-> Op(w[1], w[2])]
             Fold(f) == f = [q \in SUBSET (1..n) |->
                               IF q = {} THEN Unread ELSE Op(f[q \ {Largest(q)}], Largest(q))]
             it == CHOOSE f : Fold(f)
  <1>1. n \in Nat /\ DOMAIN list = 1..n /\ \A k \in 1..n : list[k] \in Index
    BY LenProperties, ElementOfSeq
  <1>2. it[1..n] = Reading(list)
    BY <1>1 DEF Reading, Taking, Unread, S!FoldLeft, S!MapThenFoldSet, S!Max, Largest
  <1>3. Unread \in Read /\ op \in [Read \X (1..n) -> Read]
    <2>1. Unread \in Read
      BY EmptySeq DEF Unread, Read, S!SearchSettings
    <2>2. ASSUME NEW p \in Read, NEW k \in 1..n PROVE Op(p, k) \in Read
      BY <1>1, TakingIs
    <2> HIDE DEF Op
    <2> QED BY <2>1, <2>2
  <1>4. PICK f : IsFold(f, Read, Unread, n, op)
    <2> HIDE DEF op, n
    <2> QED BY <1>1, <1>3, FoldExists
  <1>5. Fold(f)
    <2>1. ASSUME NEW q \in SUBSET (1..n), q # {}
          PROVE  op[<<f[q \ {Largest(q)}], Largest(q)>>] = Op(f[q \ {Largest(q)}], Largest(q))
      <3>1. Largest(q) \in 1..n
        BY <1>1, <2>1, LargestOf
      <3>2. f[q \ {Largest(q)}] \in Read
        BY <1>4 DEF IsFold
      <3> HIDE DEF Op
      <3> QED BY <3>1, <3>2
    <2> HIDE DEF Op, op, n
    <2> QED BY <1>4, <2>1 DEF IsFold
  <1>6. Fold(it)
    BY <1>5
  <1> HIDE DEF it
  <1>7. Follows(it, Read, Unread, n, op)
    <2>1. it[{}] = Unread
      <3>1. {} \in SUBSET (1..n)
        OBVIOUS
      <3> HIDE DEF Op
      <3> QED BY <1>6, <3>1
    <2>2. ASSUME NEW q \in SUBSET (1..n), q # {}, it[q \ {Largest(q)}] \in Read
          PROVE  it[q] = op[<<it[q \ {Largest(q)}], Largest(q)>>]
      <3>1. Largest(q) \in 1..n
        BY <1>1, <2>2, LargestOf
      <3> HIDE DEF Op
      <3>2. it[q] = Op(it[q \ {Largest(q)}], Largest(q))
        BY <1>6, <2>2
      <3> QED BY <2>2, <3>1, <3>2
    <2> HIDE DEF op
    <2> QED BY <2>1, <2>2 DEF Follows
  <1>8. PICK F : Passes(F, it[1..n], Read, Unread, n, op)
    <2> HIDE DEF op, n
    <2> QED BY <1>1, <1>3, <1>7, FoldSteps
  <1>9. F \in [0..n -> Read] /\ F[0] = Unread /\ F[n] = it[1..n]
    BY <1>8 DEF Passes
  <1>10. ASSUME NEW k \in 1..n PROVE F[k] = Op(F[k - 1], k)
    <2>1. F[k] = op[<<F[k - 1], k>>]
      BY <1>8 DEF Passes
    <2>2. k - 1 \in 0..n
      BY <1>1
    <2>3. F[k - 1] \in Read
      BY <1>9, <2>2
    <2> HIDE DEF Op
    <2> QED BY <2>1, <2>3
  <1> QED BY <1>2, <1>9, <1>10

\* The characters in a list of excerpts.
Total(list) == S!FoldLeft(LAMBDA sum, r : sum + r.chars, 0, list)

Sums(F, sum, list) ==
  /\ F \in [0..Len(list) -> Nat] /\ F[0] = 0 /\ F[Len(list)] = sum
  /\ \A k \in 1..Len(list) : F[k] = F[k - 1] + list[k].chars

\* Total, excerpt by excerpt.
LEMMA TotalSteps ==
  ASSUME NEW list \in Seq([chunk : Index, chars : Nat])
  PROVE  \E F : Sums(F, Total(list), list)
  <1> DEFINE n == Len(list)
             Op(p, k) == p + list[k].chars
             op == [w \in Nat \X (1..n) |-> Op(w[1], w[2])]
             Fold(f) == f = [q \in SUBSET (1..n) |->
                               IF q = {} THEN 0 ELSE Op(f[q \ {Largest(q)}], Largest(q))]
             it == CHOOSE f : Fold(f)
  <1>1. n \in Nat /\ DOMAIN list = 1..n /\ \A k \in 1..n : list[k].chars \in Nat
    <2>1. n \in Nat /\ DOMAIN list = 1..n /\ \A k \in 1..n : list[k] \in [chunk : Index, chars : Nat]
      BY LenProperties, ElementOfSeq
    <2> QED BY <2>1
  <1>2. it[1..n] = Total(list)
    BY <1>1 DEF Total, S!FoldLeft, S!MapThenFoldSet, S!Max, Largest
  <1>3. 0 \in Nat /\ op \in [Nat \X (1..n) -> Nat]
    <2>1. ASSUME NEW p \in Nat, NEW k \in 1..n PROVE Op(p, k) \in Nat
      BY <1>1
    <2> HIDE DEF Op
    <2> QED BY <2>1
  <1>4. PICK f : IsFold(f, Nat, 0, n, op)
    <2> HIDE DEF op, n
    <2> QED BY <1>1, <1>3, FoldExists
  <1>5. Fold(f)
    <2>1. ASSUME NEW q \in SUBSET (1..n), q # {}
          PROVE  op[<<f[q \ {Largest(q)}], Largest(q)>>] = Op(f[q \ {Largest(q)}], Largest(q))
      <3>1. Largest(q) \in 1..n
        BY <1>1, <2>1, LargestOf
      <3>2. f[q \ {Largest(q)}] \in Nat
        BY <1>4 DEF IsFold
      <3> HIDE DEF Op
      <3> QED BY <3>1, <3>2
    <2> HIDE DEF Op, op, n
    <2> QED BY <1>4, <2>1 DEF IsFold
  <1>6. Fold(it)
    BY <1>5
  <1> HIDE DEF it
  <1>7. Follows(it, Nat, 0, n, op)
    <2>1. it[{}] = 0
      <3>1. {} \in SUBSET (1..n)
        OBVIOUS
      <3> HIDE DEF Op
      <3> QED BY <1>6, <3>1
    <2>2. ASSUME NEW q \in SUBSET (1..n), q # {}, it[q \ {Largest(q)}] \in Nat
          PROVE  it[q] = op[<<it[q \ {Largest(q)}], Largest(q)>>]
      <3>1. Largest(q) \in 1..n
        BY <1>1, <2>2, LargestOf
      <3> HIDE DEF Op
      <3>2. it[q] = Op(it[q \ {Largest(q)}], Largest(q))
        BY <1>6, <2>2
      <3> QED BY <2>2, <3>1, <3>2
    <2> HIDE DEF op
    <2> QED BY <2>1, <2>2 DEF Follows
  <1>8. PICK F : Passes(F, it[1..n], Nat, 0, n, op)
    <2> HIDE DEF op, n
    <2> QED BY <1>1, <1>3, <1>7, FoldSteps
  <1>9. F \in [0..n -> Nat] /\ F[0] = 0 /\ F[n] = it[1..n]
    BY <1>8 DEF Passes
  <1>10. ASSUME NEW k \in 1..n PROVE F[k] = Op(F[k - 1], k)
    <2>1. F[k] = op[<<F[k - 1], k>>]
      BY <1>8 DEF Passes
    <2>2. k - 1 \in 0..n
      BY <1>1
    <2>3. F[k - 1] \in Nat
      BY <1>9, <2>2
    <2> HIDE DEF Op
    <2> QED BY <2>1, <2>3
  <1>11. Sums(F, Total(list), list)
    BY <1>2, <1>9, <1>10 DEF Sums
  <1> QED BY <1>11

LEMMA TotalAppend ==
  ASSUME NEW s \in Seq([chunk : Index, chars : Nat]), NEW r \in [chunk : Index, chars : Nat]
  PROVE  /\ Total(s) \in Nat
         /\ Total(Append(s, r)) = Total(s) + r.chars
  <1> DEFINE n == Len(s)
             t == Append(s, r)
  <1>1. n \in Nat
    BY LenProperties
  <1>2. /\ t \in Seq([chunk : Index, chars : Nat]) /\ Len(t) = n + 1 /\ t[n + 1] = r
        /\ \A i \in 1..n : t[i] = s[i]
    BY AppendProperties
  <1>3. PICK F : Sums(F, Total(s), s)
    BY TotalSteps
  <1>4. PICK G : Sums(G, Total(t), t)
    BY <1>2, TotalSteps
  <1>5. /\ F \in [0..n -> Nat] /\ F[0] = 0 /\ F[n] = Total(s)
        /\ \A k \in 1..n : F[k] = F[k - 1] + s[k].chars
    BY <1>3 DEF Sums
  <1> HIDE DEF t
  <1>6. /\ G[0] = 0 /\ G[n + 1] = Total(t)
        /\ \A k \in 1..(n + 1) : G[k] = G[k - 1] + t[k].chars
    BY <1>2, <1>4 DEF Sums
  <1> HIDE DEF n
  <1> DEFINE T == {k \in 0..n : F[k] = G[k]}
  <1>7. 0 \in T
    BY <1>1, <1>5, <1>6
  <1>8. ASSUME NEW k \in 1..n, k - 1 \in T PROVE k \in T
    <2>1. k \in 1..(n + 1) /\ k \in 0..n
      BY <1>1
    <2>2. F[k - 1] = G[k - 1]
      BY <1>8
    <2>3. F[k] = F[k - 1] + s[k].chars /\ G[k] = G[k - 1] + t[k].chars /\ t[k] = s[k]
      BY <1>2, <1>5, <1>6, <2>1
    <2> QED BY <2>1, <2>2, <2>3
  <1>9. 0..n \subseteq T
    <2> HIDE DEF T
    <2> QED BY <1>1, <1>7, <1>8, UpTo
  <1>10. F[n] = G[n]
    <2>1. n \in 0..n
      BY <1>1
    <2> QED BY <1>9, <2>1
  <1>11. G[n + 1] = G[n] + r.chars
    <2>1. n + 1 \in 1..(n + 1) /\ (n + 1) - 1 = n
      BY <1>1
    <2>2. G[n + 1] = G[(n + 1) - 1] + t[n + 1].chars
      BY <1>6, <2>1
    <2> QED BY <1>2, <2>1, <2>2
  <1>12. F[n] \in Nat
    <2>1. n \in 0..n
      BY <1>1
    <2> QED BY <1>5, <2>1
  <1> QED BY <1>5, <1>6, <1>10, <1>11, <1>12 DEF t

LEMMA TotalOfNone ==
  Total(<<>>) = 0
  <1>1. <<>> \in Seq([chunk : Index, chars : Nat]) /\ Len(<<>>) = 0
    BY EmptySeq
  <1>2. PICK F : Sums(F, Total(<<>>), <<>>)
    BY <1>1, TotalSteps
  <1> QED BY <1>1, <1>2 DEF Sums

\* What is read of the first k chunks of a list: each at most once, within both
\* limits.
ReadOf(p, list, k) ==
  /\ p \in Read /\ Len(p.read) <= MaxResults
  /\ \A i \in 1..Len(p.read) : \E j \in 1..k : p.read[i].chunk = list[j]
  /\ \A i, j \in 1..Len(p.read) : p.read[i].chunk = p.read[j].chunk => i = j
  /\ Total(p.read) + p.budget = ContextChars

LEMMA ReadingIs ==
  ASSUME S!SearchSettings, NEW list, Distinct(list, Index)
  PROVE  ReadOf(Reading(list), list, Len(list))
  <1> DEFINE n == Len(list)
  <1>1. /\ list \in Seq(Index) /\ n \in Nat /\ \A i \in 1..n : list[i] \in Index
        /\ \A i, j \in 1..n : list[i] = list[j] => i = j
    BY Members DEF Distinct
  <1>2. PICK F \in [0..n -> Read] :
           /\ F[0] = Unread /\ F[n] = Reading(list)
           /\ \A k \in 1..n : F[k] = Taking(F[k - 1], list[k])
    BY <1>1, ReadSteps
  <1> HIDE DEF n
  <1> DEFINE T == {k \in 0..n : ReadOf(F[k], list, k)}
  <1>3. 0 \in T
    <2>1. Unread.read = <<>> /\ Unread.budget = ContextChars
      BY DEF Unread
    <2>2. Unread \in Read
      BY EmptySeq DEF Unread, Read, S!SearchSettings
    <2>3. Len(<<>>) = 0 /\ 1..0 = {}
      BY EmptySeq
    <2>4. ContextChars \in Nat /\ MaxResults \in Nat
      BY DEF S!SearchSettings
    <2>5. ReadOf(Unread, list, 0)
      BY <2>1, <2>2, <2>3, <2>4, TotalOfNone DEF ReadOf
    <2> QED BY <1>1, <1>2, <2>5
  <1>4. ASSUME NEW k \in 1..n, k - 1 \in T PROVE k \in T
    <2> DEFINE p == F[k - 1]
               c == list[k]
    <2>1. ReadOf(p, list, k - 1)
      BY <1>4
    <2>2. F[k] = Taking(p, c)
      BY <1>2
    <2>3. c \in Index /\ k \in 0..n /\ k \in 1..k /\ \A j \in 1..(k - 1) : j \in 1..k /\ j \in 1..n /\ j # k
      BY <1>1
    <2> HIDE DEF p
    <2> DEFINE s == p.read
               l == Len(s)
    <2>4. /\ p \in Read /\ s \in Seq([chunk : Index, chars : Nat]) /\ l \in Nat /\ l <= MaxResults
          /\ \A i \in 1..l : \E j \in 1..(k - 1) : s[i].chunk = list[j]
          /\ \A i, j \in 1..l : s[i].chunk = s[j].chunk => i = j
          /\ Total(s) + p.budget = ContextChars
      BY <2>1, LenProperties DEF ReadOf, Read
    <2>5. \A i \in 1..l : \E j \in 1..k : s[i].chunk = list[j]
      BY <2>3, <2>4
    <2>6. CASE F[k] = p
      <3>1. ReadOf(p, list, k)
        BY <2>4, <2>5 DEF ReadOf
      <3> QED BY <2>3, <2>6, <3>1
    <2>7. ASSUME NEW chars \in Nat, l < MaxResults,
                 F[k].read = Append(s, [chunk |-> c, chars |-> chars]),
                 F[k].budget + chars = p.budget
          PROVE  ReadOf(F[k], list, k)
      <3> DEFINE e == [chunk |-> c, chars |-> chars]
                 t == F[k].read
      <3>1. e \in [chunk : Index, chars : Nat] /\ e.chunk = c /\ e.chars = chars
        BY <2>3
      <3> HIDE DEF s, l
      <3>2. /\ t \in Seq([chunk : Index, chars : Nat]) /\ Len(t) = l + 1 /\ t[l + 1] = e
            /\ \A i \in 1..l : t[i] = s[i]
        BY <2>4, <2>7, <3>1, AppendProperties DEF l
      <3>3. Total(s) \in Nat /\ Total(t) = Total(s) + chars
        BY <2>4, <2>7, <3>1, TotalAppend
      <3>4. F[k] \in Read
        BY <1>2, <2>3
      <3>5. F[k].budget \in Nat /\ p.budget \in Nat
        BY <2>4, <3>4 DEF Read
      <3> HIDE DEF e, t
      <3>6. Total(t) + F[k].budget = ContextChars
        BY <2>4, <2>7, <3>3, <3>5
      <3>7. l + 1 <= MaxResults /\ \A i \in 1..(l + 1) : i \in 1..l \/ i = l + 1
        <4>1. MaxResults \in Nat
          BY DEF S!SearchSettings
        <4> QED BY <2>4, <2>7, <4>1
      <3>8. t[l + 1].chunk = list[k]
        BY <3>1, <3>2
      <3>9. \A i \in 1..(l + 1) : \E j \in 1..k : t[i].chunk = list[j]
        BY <2>3, <2>5, <3>2, <3>7, <3>8
      <3>10. ASSUME NEW i \in 1..l PROVE t[i].chunk # t[l + 1].chunk
        <4>1. PICK j \in 1..(k - 1) : t[i].chunk = list[j]
          BY <2>4, <3>2
        <4>2. list[j] # list[k]
          BY <1>1, <2>3 DEF n
        <4> QED BY <3>8, <4>1, <4>2
      <3>11. \A i, j \in 1..(l + 1) : t[i].chunk = t[j].chunk => i = j
        BY <2>4, <3>2, <3>7, <3>10
      <3> QED BY <3>2, <3>4, <3>6, <3>7, <3>9, <3>11 DEF ReadOf, t
    <2>8. \/ Taking(p, c) = p
          \/ \E chars \in Nat :
               /\ l < MaxResults
               /\ Taking(p, c).read = Append(s, [chunk |-> c, chars |-> chars])
               /\ Taking(p, c).budget + chars = p.budget
      BY <2>3, <2>4, TakingIs
    <2> QED BY <2>2, <2>3, <2>6, <2>7, <2>8
  <1>5. 0..n \subseteq T
    <2> HIDE DEF T
    <2> QED BY <1>1, <1>3, <1>4, UpTo
  <1>6. n \in T
    <2>1. n \in 0..n
      BY <1>1
    <2> QED BY <1>5, <2>1
  <1> QED BY <1>2, <1>6 DEF n

LEMMA DistinctCount ==
  ASSUME NEW X, NEW s, Distinct(s, X)
  PROVE  S!Cardinality(S!ToSet(s)) = Len(s)
  <1> DEFINE n == Len(s)
             R == S!ToSet(s)
  <1>1. s \in Seq(X) /\ \A i, j \in 1..n : s[i] = s[j] => i = j
    BY DEF Distinct
  <1>2. n \in Nat /\ s \in [1..n -> X] /\ \A x : x \in R <=> \E i \in 1..n : s[i] = x
    BY <1>1, Members, LenProperties
  <1> HIDE DEF n, R
  <1>3. s \in [1..n -> R] /\ \A x \in R : \E i \in 1..n : s[i] = x
    BY <1>2
  <1>4. s \in Bijection(1..n, R)
    BY <1>1, <1>3 DEF Bijection, Injection, Surjection, IsInjective, n
  <1>5. ExistsBijection(1..n, R)
    BY <1>4 DEF ExistsBijection
  <1>6. IsFiniteSet(1..n) /\ Cardinality(1..n) = n
    BY <1>2, FS_Interval
  <1>7. Cardinality(R) = n
    BY <1>5, <1>6, FS_Bijection
  <1> QED BY <1>7, SearchCount DEF n, R


-----------------------------------------------------------------------------
(* The search, step by step: every list holds different chunks that pass    *)
(* the filter, and what is expanded stays near what was selected.           *)

Lists(q, d, k, c, s, e) ==
  /\ Distinct(S!ChunksOf(d), Matching(q)) /\ Distinct(k, Matching(q)) /\ Distinct(c, Matching(q))
  /\ Distinct(s, Matching(q)) /\ Distinct(e, Matching(q)) /\ NearSome(e, s)

\* EvidenceIsSound, of a question, its hits and the excerpts read.
Sound(q, hits, list) ==
  LET read == S!ChunksOf(list)
  IN  /\ Len(read) <= MaxResults /\ S!Cardinality(S!ToSet(read)) = Len(read)
      /\ Total(list) <= ContextChars
      /\ \A c \in S!ToSet(read) :
           S!Matches(c, q) /\ \E hit \in S!ToSet(hits) : Near(c, hit)

Phases == {"retrieve", "rank", "expand", "excerpts", "done"}

SearchInv ==
  /\ query \in Queries /\ phase \in Phases
  /\ Lists(query, dense, keyword, candidates, selected, expanded)
  /\ phase # "retrieve" => Agreement(S!ChunksOf(dense), keyword, candidates)
  /\ S!ToSet(S!ChunksOf(results)) \subseteq Index
  /\ phase = "done" => Sound(query, selected, results)

LEMMA MatchingWhole ==
  ASSUME NEW q
  PROVE  Whole(Matching(q))
  <1>1. ASSUME NEW hit \in Matching(q), NEW c \in S!Neighbours(hit) PROVE c \in Matching(q)
    <2>1. c \in Index /\ c.product = hit.product
      BY DEF S!Neighbours
    <2> QED BY <2>1 DEF Matching, S!Matches
  <1> QED BY <1>1 DEF Whole, Matching

LEMMA NoHits ==
  ASSUME NEW X
  PROVE  /\ Distinct(<<>>, X) /\ S!ToSet(<<>>) = {} /\ S!ChunksOf(<<>>) = <<>>
         /\ NearSome(<<>>, <<>>)
  <1>1. <<>> \in Seq(X) /\ Len(<<>>) = 0 /\ 1..0 = {} /\ DOMAIN <<>> = {}
    BY EmptySeq, LenProperties
  <1>2. S!ToSet(<<>>) = {}
    BY <1>1 DEF S!ToSet
  <1>3. S!ChunksOf(<<>>) = <<>>
    BY <1>1 DEF S!ChunksOf
  <1>4. Distinct(<<>>, X)
    BY <1>1 DEF Distinct
  <1> QED BY <1>2, <1>3, <1>4 DEF NearSome

\* The hits that are kept, as many as the question asks for.
LEMMA Selecting ==
  ASSUME S!SearchSettings, NEW M, M \subseteq Index, NEW list, Distinct(list, M),
         NEW wanted, NEW m \in Nat
  PROVE  /\ Distinct(S!FirstN(S!Kept(list, wanted), m), M)
         /\ NearSome(S!FirstN(S!Kept(list, wanted), m), S!FirstN(S!Kept(list, wanted), m))
  <1> DEFINE kept == S!Kept(list, wanted)
             s == S!FirstN(kept, m)
  <1>1. Distinct(kept, M)
    BY KeptDistinct
  <1> HIDE DEF kept
  <1>2. Distinct(s, M)
    BY <1>1, FirstNDistinct
  <1> HIDE DEF s
  <1>3. S!ToSet(s) \subseteq M
    BY <1>2, Members DEF Distinct
  <1>4. \A c \in S!ToSet(s) : c \in Index /\ Near(c, c)
    BY <1>3, NearItself
  <1> QED BY <1>2, <1>4 DEF NearSome, s, kept

LEMMA SearchInit ==
  ASSUME S!Init
  PROVE  SearchInv
  <1>1. /\ query \in Queries /\ phase = "retrieve" /\ dense = <<>> /\ keyword = <<>>
        /\ candidates = <<>> /\ selected = <<>> /\ expanded = <<>> /\ results = <<>>
    BY DEF S!Init
  <1>2. Lists(query, <<>>, <<>>, <<>>, <<>>, <<>>) /\ S!ToSet(S!ChunksOf(<<>>)) = {}
    BY NoHits DEF Lists
  <1> QED BY <1>1, <1>2 DEF SearchInv, Phases

LEMMA Retrieved ==
  ASSUME S!SearchSettings, SearchInv, S!Retrieve
  PROVE  SearchInv'
  <1> DEFINE M == Matching(query)
             one == S!ChunksOf(dense')
             two == keyword'
  <1>1. /\ dense' \in S!DenseHits(query) /\ keyword' \in S!Rankings(query)
        /\ candidates' = S!FirstN(S!Fuse(one, two), Candidates) /\ phase' = "rank"
        /\ UNCHANGED <<query, selected, expanded, results>>
    BY DEF S!Retrieve, S!KeywordHits
  <1>2. Distinct(one, M) /\ Distinct(two, M)
    BY <1>1, DenseIs, RankingIs
  <1>3. M \subseteq Index
    BY DEF Matching
  <1> HIDE DEF M, one, two
  <1>4. Distinct(candidates', M) /\ Agreement(one, two, candidates')
    BY <1>1, <1>2, <1>3, FusedWell
  <1>5. Lists(query', dense', keyword', candidates', selected', expanded')
    BY <1>1, <1>2, <1>4 DEF Lists, SearchInv, M, one, two
  <1> QED BY <1>1, <1>4, <1>5 DEF SearchInv, Phases, one, two

\* Both ways to rank end in the same selection.
LEMMA SelectedWell ==
  ASSUME S!SearchSettings, SearchInv, NEW list, Distinct(list, Matching(query)), NEW wanted,
         phase = "rank", phase' = "expand",
         selected' = S!FirstN(S!Kept(list, wanted), query.limit), expanded' = selected',
         UNCHANGED <<query, dense, keyword, candidates, results>>
  PROVE  SearchInv'
  <1>1. query.limit \in Nat
    BY DEF SearchInv, S!SearchSettings
  <1>2. Matching(query) \subseteq Index
    BY DEF Matching
  <1>3. Distinct(selected', Matching(query)) /\ NearSome(selected', selected')
    BY <1>1, <1>2, Selecting
  <1>4. Lists(query', dense', keyword', candidates', selected', expanded')
    BY <1>3 DEF Lists, SearchInv
  <1>5. Agreement(S!ChunksOf(dense'), keyword', candidates')
    BY DEF SearchInv
  <1> QED BY <1>4, <1>5 DEF SearchInv, Phases

LEMMA Floored ==
  ASSUME S!SearchSettings, SearchInv, S!SimilarityFloor
  PROVE  SearchInv'
  <1> DEFINE wanted == {c \in S!ToSet(candidates) : S!SimilarityOf(c) >= MinSimilarity}
  <1>1. Distinct(candidates, Matching(query))
    BY DEF SearchInv, Lists
  <1>2. /\ phase = "rank" /\ phase' = "expand"
        /\ selected' = S!FirstN(S!Kept(candidates, wanted), query.limit) /\ expanded' = selected'
        /\ UNCHANGED <<query, dense, keyword, candidates, results>>
    BY DEF S!SimilarityFloor
  <1> HIDE DEF wanted
  <1> QED BY <1>1, <1>2, SelectedWell

LEMMA Reranked ==
  ASSUME S!SearchSettings, SearchInv, S!Rerank
  PROVE  SearchInv'
  <1> DEFINE M == Matching(query)
  <1>1. PICK score \in [S!ToSet(candidates) -> Scores] :
          selected' = S!FirstN(S!Kept(S!SortDescending(candidates, LAMBDA c : score[c]),
                                      {c \in S!ToSet(candidates) : score[c] >= MinRerankScore}),
                               query.limit)
    BY DEF S!Rerank
  <1> DEFINE list == ByScore(candidates, score)
             wanted == {c \in S!ToSet(candidates) : score[c] >= MinRerankScore}
  <1>2. Distinct(candidates, M) /\ candidates \in Seq(M)
    BY DEF SearchInv, Lists, Distinct
  <1> HIDE DEF M
  <1>3. \A x \in S!ToSet(candidates) : score[x] \in Int
    BY DEF S!SearchSettings
  <1>4. PICK order, key : Sorting(order, Len(candidates), key) /\ list = Permuted(candidates, order)
    BY <1>2, <1>3, SortedIs
  <1>5. Rearranges(Permuted(candidates, order), candidates, order, M)
    BY <1>2, <1>4, Reordered
  <1>6. Distinct(list, M)
    <2> HIDE DEF list
    <2> QED BY <1>2, <1>4, <1>5 DEF Rearranges
  <1>7. /\ phase = "rank" /\ phase' = "expand" /\ expanded' = selected'
        /\ UNCHANGED <<query, dense, keyword, candidates, results>>
    BY DEF S!Rerank
  <1>8. selected' = S!FirstN(S!Kept(list, wanted), query.limit)
    BY <1>1 DEF ByScore
  <1> HIDE DEF list, wanted
  <1> QED BY <1>6, <1>7, <1>8, SelectedWell DEF M

LEMMA Expanded ==
  ASSUME S!SearchSettings, SearchInv, S!Expand
  PROVE  SearchInv'
  <1> DEFINE M == Matching(query)
             list == [i \in DOMAIN selected |-> i]
  <1>1. /\ phase = "expand" /\ phase' = "excerpts"
        /\ UNCHANGED <<query, dense, keyword, candidates, selected, results>>
    BY DEF S!Expand
  <1>2. PICK found : expanded' = Gather(selected, found)
    BY DEF S!Expand, Gather, S!FoldLeft, S!MapThenFoldSet
  <1>3. Whole(M)
    BY MatchingWhole
  <1>4. Distinct(selected, M) /\ selected \in Seq(M) /\ M \subseteq Index
    BY <1>3 DEF SearchInv, Lists, Distinct, Whole
  <1> HIDE DEF M
  <1>5. NearSome(selected, selected)
    <2>1. \A c \in S!ToSet(selected) : c \in Index
      BY <1>4, Members
    <2> QED BY <2>1, NearItself DEF NearSome
  <1>6. selected \in Gathered(selected, M)
    BY <1>4, <1>5 DEF Gathered
  <1>7. Gather(selected, found) \in Gathered(selected, M)
    BY <1>3, <1>6, GatherSteps
  <1>8. Distinct(expanded', M) /\ NearSome(expanded', selected)
    BY <1>2, <1>7 DEF Gathered
  <1>9. Lists(query', dense', keyword', candidates', selected', expanded')
    BY <1>1, <1>8 DEF SearchInv, Lists, M
  <1>10. Agreement(S!ChunksOf(dense'), keyword', candidates')
    BY <1>1 DEF SearchInv
  <1> QED BY <1>1, <1>9, <1>10 DEF SearchInv, Phases

LEMMA ExcerptsSound ==
  ASSUME S!SearchSettings, NEW q, NEW list, Distinct(list, Matching(q)), NEW hits,
         NearSome(list, hits)
  PROVE  /\ Sound(q, hits, Reading(list).read)
         /\ S!ToSet(S!ChunksOf(Reading(list).read)) \subseteq Index
  <1> DEFINE p == Reading(list)
             s == p.read
             read == S!ChunksOf(s)
             l == Len(s)
             M == Matching(q)
  <1>1. M \subseteq Index /\ list \in Seq(M)
    BY DEF Matching, Distinct
  <1>2. Distinct(list, Index)
    BY <1>1, Wider
  <1>3. ReadOf(p, list, Len(list))
    BY <1>2, ReadingIs
  <1> HIDE DEF p
  <1>4. /\ s \in Seq([chunk : Index, chars : Nat]) /\ l \in Nat /\ l <= MaxResults
        /\ DOMAIN s = 1..l /\ \A i \in 1..l : s[i] \in [chunk : Index, chars : Nat]
        /\ \A i \in 1..l : \E j \in 1..Len(list) : s[i].chunk = list[j]
        /\ \A i, j \in 1..l : s[i].chunk = s[j].chunk => i = j
        /\ Total(s) + p.budget = ContextChars /\ p.budget \in Nat
    BY <1>3, LenProperties, ElementOfSeq DEF ReadOf, Read
  <1>5. Total(s) <= ContextChars
    <2> HIDE DEF s
    <2>1. PICK F : Sums(F, Total(s), s)
      BY <1>4, TotalSteps
    <2>2. F \in [0..l -> Nat] /\ F[l] = Total(s) /\ l \in 0..l
      BY <1>4, <2>1 DEF Sums
    <2>3. Total(s) \in Nat /\ ContextChars \in Nat
      BY <2>2 DEF S!SearchSettings
    <2> QED BY <1>4, <2>3
  <1> HIDE DEF s
  <1>6. read \in [1..l -> Index] /\ \A i \in 1..l : read[i] = s[i].chunk
    BY <1>4 DEF S!ChunksOf
  <1> HIDE DEF read, l
  <1>7. read \in Seq(Index) /\ Len(read) = l
    BY <1>4, <1>6, AsSeq
  <1>8. Distinct(read, Index)
    BY <1>4, <1>6, <1>7 DEF Distinct
  <1>9. S!Cardinality(S!ToSet(read)) = Len(read)
    BY <1>8, DistinctCount
  <1>10. S!ToSet(read) \subseteq S!ToSet(list)
    <2>1. ASSUME NEW c \in S!ToSet(read) PROVE c \in S!ToSet(list)
      <3>1. PICK i \in 1..l : read[i] = c
        BY <1>7, Members
      <3>2. PICK j \in 1..Len(list) : s[i].chunk = list[j]
        BY <1>4
      <3>3. list[j] = c
        BY <1>6, <3>1, <3>2
      <3> QED BY <1>1, <3>3, Members
    <2> QED BY <2>1
  <1>11. S!ToSet(list) \subseteq M
    BY <1>1, Members
  <1>12. \A c \in S!ToSet(read) : S!Matches(c, q) /\ \E hit \in S!ToSet(hits) : Near(c, hit)
    BY <1>10, <1>11 DEF NearSome, Matching
  <1>13. S!ToSet(read) \subseteq Index
    BY <1>1, <1>10, <1>11
  <1> QED BY <1>4, <1>5, <1>7, <1>9, <1>12, <1>13 DEF Sound, read, s, p

LEMMA Excerpted ==
  ASSUME S!SearchSettings, SearchInv, S!Excerpts
  PROVE  SearchInv'
  <1>1. /\ phase = "excerpts" /\ phase' = "done"
        /\ UNCHANGED <<query, dense, keyword, candidates, selected, expanded>>
    BY DEF S!Excerpts
  <1>2. results' = Reading(expanded).read
    BY DEF S!Excerpts, Reading
  <1>3. Distinct(expanded, Matching(query)) /\ NearSome(expanded, selected)
    BY DEF SearchInv, Lists
  <1>4. Sound(query, selected, results') /\ S!ToSet(S!ChunksOf(results')) \subseteq Index
    BY <1>2, <1>3, ExcerptsSound
  <1>5. Lists(query', dense', keyword', candidates', selected', expanded')
    BY <1>1 DEF SearchInv
  <1>6. Agreement(S!ChunksOf(dense'), keyword', candidates')
    BY <1>1 DEF SearchInv
  <1> QED BY <1>1, <1>4, <1>5, <1>6 DEF SearchInv, Phases

LEMMA SearchNext ==
  ASSUME S!SearchSettings, SearchInv, [S!Next]_S!vars
  PROVE  SearchInv'
  <1>1. CASE UNCHANGED S!vars
    <2>1. UNCHANGED <<query, phase, dense, keyword, candidates, selected, expanded, results>>
      BY <1>1 DEF S!vars
    <2>2. Lists(query', dense', keyword', candidates', selected', expanded')
      BY <2>1 DEF SearchInv
    <2>3. phase' # "retrieve" => Agreement(S!ChunksOf(dense'), keyword', candidates')
      BY <2>1 DEF SearchInv
    <2>4. /\ S!ToSet(S!ChunksOf(results')) \subseteq Index
          /\ phase' = "done" => Sound(query', selected', results')
      BY <2>1 DEF SearchInv
    <2> QED BY <2>1, <2>2, <2>3, <2>4 DEF SearchInv
  <1>2. CASE S!Next
    BY <1>2, Retrieved, Reranked, Floored, Expanded, Excerpted DEF S!Next
  <1> QED BY <1>1, <1>2

LEMMA SearchHolds == SuiteSpec => []SearchInv
  <1>1. S!SearchSettings
    BY RetrievalSettings
  <1>2. S!Init => SearchInv
    BY SearchInit
  <1>3. SearchInv /\ [S!Next]_S!vars => SearchInv'
    BY <1>1, SearchNext
  <1> QED BY <1>2, <1>3, SearchPart, PTL DEF S!Spec

LEMMA SearchTypes ==
  ASSUME SearchInv
  PROVE  S!TypeOK
  <1> DEFINE M == Matching(query)
  <1>1. M \subseteq Index
    BY DEF Matching
  <1>2. /\ S!ChunksOf(dense) \in Seq(M) /\ keyword \in Seq(M) /\ candidates \in Seq(M)
        /\ selected \in Seq(M) /\ expanded \in Seq(M)
    BY DEF SearchInv, Lists, Distinct
  <1> HIDE DEF M
  <1>3. S!ToSet(S!ChunksOf(dense)) \subseteq M /\ S!ToSet(keyword) \subseteq M
    BY <1>2, Members
  <1>4. S!ToSet(candidates) \subseteq M /\ S!ToSet(selected) \subseteq M /\ S!ToSet(expanded) \subseteq M
    BY <1>2, Members
  <1> QED BY <1>1, <1>3, <1>4 DEF SearchInv, Phases, S!TypeOK

\* What the model reads of the reviews, whatever the index, the filter, the
\* rankings and scores and the failures of the lookups: no chunk twice, none
\* outside the products asked about, each a hit above the floor or a neighbour
\* of one in the same review of the same product, within the context budget.
THEOREM EvidenceSound == SuiteSpec => []EvidenceIsSound
  <1>1. SearchInv => EvidenceIsSound
    <2> SUFFICES ASSUME SearchInv, phase = "done" PROVE EvidenceIsSound
      BY DEF EvidenceIsSound, S!EvidenceIsSound
    <2>1. Sound(query, selected, results)
      BY DEF SearchInv
    <2>2. S!Spent = Total(results)
      BY DEF S!Spent, Total
    <2> QED BY <2>1, <2>2 DEF EvidenceIsSound, S!EvidenceIsSound, Sound, Near
  <1> QED BY <1>1, SearchHolds, PTL

\* Reciprocal rank fusion respects agreement, for any lists, any RRF_K and any
\* cut of the candidates: a chunk that neither list ranks below another one is
\* never behind it among the candidates.
THEOREM FusionRespectsRanks == SuiteSpec => []FusionRespectsAgreement
  <1>1. SearchInv => FusionRespectsAgreement
    BY DEF SearchInv, Agreement, FusionRespectsAgreement, S!FusionRespectsAgreement
  <1> QED BY <1>1, SearchHolds, PTL

-----------------------------------------------------------------------------
(* Who holds the lock of a singleton loads it, and nobody else does; what is*)
(* loaded is not loaded again; the clock of the retry window is ahead of the*)
(* last attempt unless that one goes on; a client needs a manifest.         *)

Kinds ==
  /\ now \in Nat /\ nextRetry \in Nat
  /\ at \in [Threads -> [step : {"idle", "waiting", "loading"}, for : Resources \cup {None}]]
  /\ lock \in [Resources -> Threads \cup {None}]
  /\ loads \in [Resources -> Nat]
  /\ attempts \in Seq(Nat)
  /\ manifest \in BOOLEAN /\ client \in BOOLEAN

Exclusive ==
  \A t \in Threads, r \in Resources :
    at[t] = [step |-> "loading", for |-> r] => lock[r] = t

LoadedOnce ==
  \A r \in Resources : loads[r] <= 1 /\ (loads[r] > 0 => lock[r] = None)

Apart ==
  /\ \A i \in 1..(Len(attempts) - 1) : attempts[i + 1] - attempts[i] >= RetryAfter
  /\ attempts # <<>> =>
       /\ attempts[Len(attempts)] <= now
       /\ \/ lock["ranker"] # None \/ loads["ranker"] > 0
          \/ nextRetry >= attempts[Len(attempts)] + RetryAfter

Opened == (client => manifest) /\ (loads["store"] > 0 => manifest)

LoadInv == Kinds /\ Exclusive /\ LoadedOnce /\ Apart /\ Opened

LEMMA LoadInit == Init => LoadInv
  <1> SUFFICES ASSUME Init PROVE LoadInv
    OBVIOUS
  <1>1. Kinds
    BY EmptySeq DEF Init, Kinds, Idle
  <1>2. Exclusive
    BY DEF Init, Exclusive, Idle
  <1>3. LoadedOnce /\ Opened
    BY DEF Init, LoadedOnce, Opened, Resources
  <1>4. Apart
    BY DEF Init, Apart
  <1> QED BY <1>1, <1>2, <1>3, <1>4 DEF LoadInv

\* One more attempt, at least RetryAfter after the last one.
LEMMA AttemptAppended ==
  ASSUME Kinds, NEW a \in Nat,
         \A i \in 1..(Len(attempts) - 1) : attempts[i + 1] - attempts[i] >= RetryAfter,
         attempts # <<>> => a >= attempts[Len(attempts)] + RetryAfter
  PROVE  LET more == Append(attempts, a) IN
         /\ more \in Seq(Nat) /\ more # <<>> /\ more[Len(more)] = a
         /\ \A i \in 1..(Len(more) - 1) : more[i + 1] - more[i] >= RetryAfter
  <1> DEFINE more == Append(attempts, a)
             l == Len(attempts)
  <1>1. attempts \in Seq(Nat) /\ l \in Nat /\ RetryAfter \in Nat
    BY LenProperties, LoaderSettings DEF Kinds
  <1>2. /\ more \in Seq(Nat) /\ Len(more) = l + 1 /\ more[l + 1] = a
        /\ \A i \in 1..l : more[i] = attempts[i]
    BY <1>1, AppendProperties
  <1>3. \A i \in 1..l : attempts[i] \in Nat
    BY <1>1, ElementOfSeq
  <1>4. l = 0 \/ attempts # <<>>
    BY <1>1, EmptySeq
  <1> HIDE DEF more
  <1>5. ASSUME NEW i \in 1..l PROVE more[i + 1] - more[i] >= RetryAfter
    <2>1. CASE i = l
      <3>1. attempts # <<>>
        BY <1>1, <1>4, <2>1
      <3> QED BY <1>1, <1>2, <1>3, <2>1, <3>1
    <2>2. CASE i # l
      <3>1. i \in 1..(l - 1) /\ i + 1 \in 1..l
        BY <1>1, <2>2
      <3> QED BY <1>2, <3>1
    <2> QED BY <2>1, <2>2
  <1>6. more # <<>>
    BY <1>1, <1>2, EmptySeq
  <1>7. Len(more) - 1 = l /\ Len(more) = l + 1
    BY <1>1, <1>2
  <1> QED BY <1>2, <1>5, <1>6, <1>7 DEF more

LEMMA LoadNext == LoadInv /\ [Next]_vars => LoadInv'
  <1> SUFFICES ASSUME LoadInv, [Next]_vars PROVE LoadInv'
    OBVIOUS
  <1>0. Kinds /\ Exclusive /\ LoadedOnce /\ Apart /\ Opened /\ RetryAfter \in Nat /\ None \notin Threads
    BY LoaderSettings DEF LoadInv
  <1>1. \A t \in Threads : at[t] \in [step : {"idle", "waiting", "loading"}, for : Resources \cup {None}]
    BY <1>0 DEF Kinds
  <1>2. ASSUME UNCHANGED <<lock, loads, nextRetry, attempts>>, now' \in Nat, now' >= now
        PROVE  Apart'
    <2>1. attempts # <<>> => attempts[Len(attempts)] \in Nat
      BY <1>0, LenProperties, ElementOfSeq, EmptySeq DEF Kinds
    <2> QED BY <1>0, <1>2, <2>1 DEF Apart, Kinds
  <1>3. ASSUME NEW t \in Threads, NEW r \in Resources, Call(t, r) PROVE LoadInv'
    <2>1. /\ UNCHANGED <<now, lock, loads, nextRetry, attempts, manifest, client>>
          /\ at' = [at EXCEPT ![t] = [step |-> "waiting", for |-> r]]
      BY <1>3 DEF Call
    <2>2. Kinds'
      BY <1>0, <2>1 DEF Kinds
    <2>3. Exclusive'
      BY <1>0, <2>1 DEF Exclusive, Kinds
    <2>4. LoadedOnce' /\ Opened'
      BY <1>0, <2>1 DEF LoadedOnce, Opened
    <2>5. Apart'
      BY <1>0, <2>1 DEF Apart
    <2> QED BY <2>2, <2>3, <2>4, <2>5 DEF LoadInv
  <1>4. ASSUME NEW t \in Threads, NEW r \in Resources, Enter(t, r) PROVE LoadInv'
    <2>1. /\ UNCHANGED <<now, loads, nextRetry, manifest, client>>
          /\ at[t] = [step |-> "waiting", for |-> r] /\ lock[r] = None
      BY <1>4 DEF Enter
    <2>2. CASE NotNow(r)
      <3>1. at' = [at EXCEPT ![t] = Idle] /\ UNCHANGED <<lock, attempts>>
        BY <1>4, <2>2 DEF Enter
      <3>2. Kinds'
        BY <1>0, <2>1, <3>1 DEF Kinds, Idle
      <3>3. Exclusive'
        BY <1>0, <2>1, <3>1 DEF Exclusive, Kinds, Idle
      <3>4. LoadedOnce' /\ Opened'
        BY <1>0, <2>1, <3>1 DEF LoadedOnce, Opened
      <3>5. Apart'
        BY <1>0, <2>1, <3>1 DEF Apart
      <3> QED BY <3>2, <3>3, <3>4, <3>5 DEF LoadInv
    <2>3. CASE ~NotNow(r)
      <3>1. /\ at' = [at EXCEPT ![t].step = "loading"] /\ lock' = [lock EXCEPT ![r] = t]
            /\ attempts' = IF r = "ranker" THEN Append(attempts, now) ELSE attempts
            /\ loads[r] = 0
        BY <1>0, <1>4, <2>3 DEF Enter, NotNow, Kinds
      <3>2. at' = [at EXCEPT ![t] = [step |-> "loading", for |-> r]]
        <4>1. [at[t] EXCEPT !.step = "loading"] = [step |-> "loading", for |-> r]
          BY <2>1
        <4>2. at' = [at EXCEPT ![t] = [at[t] EXCEPT !.step = "loading"]]
          BY <1>0, <3>1 DEF Kinds
        <4> QED BY <4>1, <4>2
      <3>3. Exclusive'
        <4> SUFFICES ASSUME NEW u \in Threads, NEW s \in Resources,
                            at'[u] = [step |-> "loading", for |-> s]
                     PROVE  lock'[s] = u
          BY DEF Exclusive
        <4>1. CASE u = t
          <5>1. s = r
            BY <1>0, <3>2, <4>1 DEF Kinds
          <5> QED BY <1>0, <3>1, <4>1, <5>1 DEF Kinds
        <4>2. CASE u # t
          <5>1. at[u] = [step |-> "loading", for |-> s]
            BY <1>0, <3>2, <4>2 DEF Kinds
          <5>2. lock[s] = u
            BY <1>0, <5>1 DEF Exclusive
          <5>3. s # r
            BY <1>0, <2>1, <5>2
          <5> QED BY <1>0, <3>1, <5>2, <5>3 DEF Kinds
        <4> QED BY <4>1, <4>2
      <3>4. LoadedOnce' /\ Opened'
        BY <1>0, <2>1, <3>1 DEF LoadedOnce, Opened, Kinds
      <3>5. CASE r = "ranker"
        <4>1. attempts' = Append(attempts, now) /\ now >= nextRetry /\ lock'["ranker"] = t
          BY <1>0, <2>3, <3>1, <3>5 DEF NotNow, Kinds
        <4>2. attempts # <<>> => now >= attempts[Len(attempts)] + RetryAfter
          <5>1. attempts # <<>> => attempts[Len(attempts)] \in Nat
            BY <1>0, LenProperties, ElementOfSeq, EmptySeq DEF Kinds
          <5> QED BY <1>0, <2>1, <3>1, <3>5, <4>1, <5>1 DEF Apart, Kinds
        <4>3. /\ attempts' \in Seq(Nat) /\ attempts' # <<>> /\ attempts'[Len(attempts')] = now
              /\ \A i \in 1..(Len(attempts') - 1) : attempts'[i + 1] - attempts'[i] >= RetryAfter
          BY <1>0, <4>1, <4>2, AttemptAppended DEF Apart, Kinds
        <4>4. Kinds'
          BY <1>0, <2>1, <3>1, <3>2, <4>3 DEF Kinds
        <4>5. Apart'
          BY <1>0, <2>1, <4>1, <4>3 DEF Apart, Kinds
        <4> QED BY <3>3, <3>4, <4>4, <4>5 DEF LoadInv
      <3>6. CASE r # "ranker"
        <4>1. attempts' = attempts /\ lock'["ranker"] = lock["ranker"]
          BY <1>0, <3>1, <3>6 DEF Kinds
        <4>2. Kinds'
          BY <1>0, <2>1, <3>1, <3>2, <4>1 DEF Kinds
        <4>3. Apart'
          BY <1>0, <2>1, <4>1 DEF Apart
        <4> QED BY <3>3, <3>4, <4>2, <4>3 DEF LoadInv
      <3> QED BY <3>5, <3>6
    <2> QED BY <2>2, <2>3
  <1>5. ASSUME NEW t \in Threads, NEW r \in Resources, Loaded(t, r) \/ Failed(t, r),
               at[t] = [step |-> "loading", for |-> r]
        PROVE  /\ lock[r] = t /\ Exclusive' /\ loads[r] = 0
               /\ at' \in [Threads -> [step : {"idle", "waiting", "loading"},
                                       for : Resources \cup {None}]]
               /\ lock' = [lock EXCEPT ![r] = None]
    <2>1. at' = [at EXCEPT ![t] = Idle] /\ lock' = [lock EXCEPT ![r] = None]
      BY <1>5 DEF Loaded, Failed, Leave
    <2>2. lock[r] = t
      BY <1>0, <1>5 DEF Exclusive
    <2>3. loads[r] = 0
      BY <1>0, <2>2 DEF LoadedOnce, Kinds
    <2>4. Exclusive'
      <3> SUFFICES ASSUME NEW u \in Threads, NEW s \in Resources,
                          at'[u] = [step |-> "loading", for |-> s]
                   PROVE  lock'[s] = u
        BY DEF Exclusive
      <3>1. u # t
        BY <1>0, <2>1 DEF Kinds, Idle
      <3>2. lock[s] = u
        BY <1>0, <2>1, <3>1 DEF Kinds, Exclusive
      <3>3. s # r
        BY <2>2, <3>1, <3>2
      <3> QED BY <1>0, <2>1, <3>2, <3>3 DEF Kinds
    <2>5. at' \in [Threads -> [step : {"idle", "waiting", "loading"}, for : Resources \cup {None}]]
      BY <1>0, <2>1 DEF Kinds, Idle
    <2> QED BY <2>1, <2>2, <2>3, <2>4, <2>5
  <1>6. ASSUME NEW t \in Threads, NEW r \in Resources, Loaded(t, r) PROVE LoadInv'
    <2>1. /\ at[t] = [step |-> "loading", for |-> r] /\ (r = "store" => client \/ manifest)
          /\ client' = (client \/ r = "store") /\ loads' = [loads EXCEPT ![r] = @ + 1]
          /\ UNCHANGED <<now, nextRetry, attempts, manifest>>
      BY <1>6 DEF Loaded
    <2>2. /\ lock[r] = t /\ Exclusive' /\ loads[r] = 0 /\ lock' = [lock EXCEPT ![r] = None]
          /\ at' \in [Threads -> [step : {"idle", "waiting", "loading"}, for : Resources \cup {None}]]
      BY <1>5, <1>6, <2>1
    <2>3. Kinds'
      <3>1. client' \in BOOLEAN
        BY <2>1
      <3> QED BY <1>0, <2>1, <2>2, <3>1 DEF Kinds
    <2>4. LoadedOnce'
      BY <1>0, <2>1, <2>2 DEF LoadedOnce, Kinds
    <2>5. Opened'
      BY <1>0, <2>1 DEF Opened, Kinds
    <2>6. Apart'
      <3>1. CASE r = "ranker"
        <4>1. loads'["ranker"] > 0
          BY <1>0, <2>1, <2>2, <3>1 DEF Kinds
        <4> QED BY <1>0, <2>1, <4>1 DEF Apart
      <3>2. CASE r # "ranker"
        <4>1. lock'["ranker"] = lock["ranker"] /\ loads'["ranker"] = loads["ranker"]
          BY <1>0, <2>1, <2>2, <3>2 DEF Kinds
        <4> QED BY <1>0, <2>1, <4>1 DEF Apart
      <3> QED BY <3>1, <3>2
    <2> QED BY <2>2, <2>3, <2>4, <2>5, <2>6 DEF LoadInv
  <1>7. ASSUME NEW t \in Threads, NEW r \in Resources, Failed(t, r) PROVE LoadInv'
    <2>1. /\ at[t] = [step |-> "loading", for |-> r]
          /\ nextRetry' = IF r = "ranker" THEN now + RetryAfter ELSE nextRetry
          /\ client' \in {client, client \/ (r = "store" /\ manifest)}
          /\ UNCHANGED <<now, loads, attempts, manifest>>
      BY <1>7 DEF Failed
    <2>2. /\ lock[r] = t /\ Exclusive' /\ lock' = [lock EXCEPT ![r] = None]
          /\ at' \in [Threads -> [step : {"idle", "waiting", "loading"}, for : Resources \cup {None}]]
      BY <1>5, <1>7, <2>1
    <2>3. client' \in BOOLEAN /\ (client' => manifest)
      BY <1>0, <2>1 DEF Opened, Kinds
    <2>4. nextRetry' \in Nat
      BY <1>0, <2>1 DEF Kinds
    <2>5. Kinds'
      BY <1>0, <2>1, <2>2, <2>3, <2>4 DEF Kinds
    <2>6. LoadedOnce' /\ Opened'
      BY <1>0, <2>1, <2>2, <2>3 DEF LoadedOnce, Opened, Kinds
    <2>7. Apart'
      <3>1. attempts # <<>> => attempts[Len(attempts)] \in Nat
        BY <1>0, LenProperties, ElementOfSeq, EmptySeq DEF Kinds
      <3>2. CASE r = "ranker"
        <4>1. nextRetry' = now + RetryAfter
          BY <2>1, <3>2
        <4> QED BY <1>0, <2>1, <3>1, <4>1 DEF Apart, Kinds
      <3>3. CASE r # "ranker"
        <4>1. lock'["ranker"] = lock["ranker"] /\ nextRetry' = nextRetry
          BY <1>0, <2>1, <2>2, <3>3 DEF Kinds
        <4> QED BY <1>0, <2>1, <4>1 DEF Apart
      <3> QED BY <3>2, <3>3
    <2> QED BY <2>2, <2>5, <2>6, <2>7 DEF LoadInv
  <1>8. CASE Count
    BY <1>0, <1>8 DEF Count, LoadInv, Kinds, Exclusive, LoadedOnce, Apart, Opened
  <1>9. CASE Ingested
    BY <1>0, <1>9 DEF Ingested, LoadInv, Kinds, Exclusive, LoadedOnce, Apart, Opened
  <1>10. CASE Tick
    <2>1. now' = now + 1 /\ UNCHANGED <<at, lock, loads, nextRetry, attempts, manifest, client>>
      BY <1>10 DEF Tick
    <2>2. now' \in Nat /\ now' >= now
      BY <1>0, <2>1 DEF Kinds
    <2> QED BY <1>0, <1>2, <2>1, <2>2 DEF LoadInv, Kinds, Exclusive, LoadedOnce, Opened
  <1>11. CASE UNCHANGED vars
    BY <1>0, <1>11 DEF vars, LoadInv, Kinds, Exclusive, LoadedOnce, Apart, Opened
  <1> QED BY <1>3, <1>4, <1>6, <1>7, <1>8, <1>9, <1>10, <1>11 DEF Next

Bounds ==
  /\ now <= MaxTime /\ nextRetry <= MaxTime + RetryAfter
  /\ \A i \in 1..Len(attempts) : attempts[i] <= MaxTime

LEMMA BoundsNext ==
  ASSUME LoadInv, Bounds, [Next]_vars
  PROVE  Bounds'
  <1>1. /\ now \in Nat /\ nextRetry \in Nat /\ attempts \in Seq(Nat) /\ Len(attempts) \in Nat
        /\ RetryAfter \in Nat /\ MaxTime \in Nat
    BY LoaderSettings, LenProperties DEF LoadInv, Kinds
  <1>2. ASSUME UNCHANGED <<now, nextRetry, attempts>> PROVE Bounds'
    BY <1>2 DEF Bounds
  <1>3. CASE UNCHANGED vars \/ Count \/ Ingested
    BY <1>2, <1>3 DEF vars, Count, Ingested
  <1>4. CASE Tick
    <2>1. now' = now + 1 /\ now < MaxTime /\ UNCHANGED <<nextRetry, attempts>>
      BY <1>4 DEF Tick
    <2>2. now' <= MaxTime
      BY <1>1, <2>1
    <2> QED BY <2>1, <2>2 DEF Bounds
  <1>5. ASSUME NEW t \in Threads, NEW r \in Resources, Call(t, r) \/ Loaded(t, r) PROVE Bounds'
    BY <1>2, <1>5 DEF Call, Loaded
  <1>6. ASSUME NEW t \in Threads, NEW r \in Resources, Enter(t, r) PROVE Bounds'
    <2>1. CASE UNCHANGED attempts
      BY <1>2, <1>6, <2>1 DEF Enter
    <2>2. CASE attempts' = Append(attempts, now)
      <3>1. /\ Len(attempts') = Len(attempts) + 1 /\ attempts'[Len(attempts) + 1] = now
            /\ \A i \in 1..Len(attempts) : attempts'[i] = attempts[i]
        BY <1>1, <2>2, AppendProperties
      <3>2. \A i \in 1..(Len(attempts) + 1) : i \in 1..Len(attempts) \/ i = Len(attempts) + 1
        BY <1>1
      <3>3. \A i \in 1..Len(attempts') : attempts'[i] <= MaxTime
        BY <3>1, <3>2 DEF Bounds
      <3>4. UNCHANGED <<now, nextRetry>>
        BY <1>6 DEF Enter
      <3> QED BY <3>3, <3>4 DEF Bounds
    <2>3. UNCHANGED attempts \/ attempts' = Append(attempts, now)
      BY <1>6 DEF Enter
    <2> QED BY <2>1, <2>2, <2>3
  <1>7. ASSUME NEW t \in Threads, NEW r \in Resources, Failed(t, r) PROVE Bounds'
    <2>1. /\ nextRetry' = IF r = "ranker" THEN now + RetryAfter ELSE nextRetry
          /\ UNCHANGED <<now, attempts>>
      BY <1>7 DEF Failed
    <2>2. nextRetry' <= MaxTime + RetryAfter
      BY <1>1, <2>1 DEF Bounds
    <2> QED BY <2>1, <2>2 DEF Bounds
  <1> QED BY <1>3, <1>4, <1>5, <1>6, <1>7 DEF Next

LEMMA LoadsHold == SuiteSpec => [](LoadInv /\ Bounds)
  <1>1. Init => Bounds
    <2>1. RetryAfter \in Nat /\ MaxTime \in Nat /\ Len(<<>>) = 0 /\ 1..0 = {}
      BY LoaderSettings, EmptySeq
    <2> QED BY <2>1 DEF Init, Bounds
  <1>2. (LoadInv /\ Bounds) /\ [Next]_vars => (LoadInv /\ Bounds)'
    BY LoadNext, BoundsNext
  <1> QED BY <1>1, <1>2, LoadInit, LoadersPart, PTL DEF Spec

\* However the threads meet, each singleton is loaded once, a failed load of the
\* re-ranker is not repeated inside the retry window, and the store is open only
\* over a completed ingestion.
THEOREM LoadsRationed == SuiteSpec => []LoadsAreRationed
  <1>1. LoadInv => LoadsAreRationed
    BY DEF LoadInv, LoadedOnce, Apart, Opened, LoadsAreRationed
  <1> QED BY LoadsHold, <1>1, PTL

LEMMA LoadTypes ==
  ASSUME LoadInv, Bounds
  PROVE  TypeOK
  <1>1. /\ now \in Nat /\ nextRetry \in Nat /\ attempts \in Seq(Nat)
        /\ RetryAfter \in Nat /\ MaxTime \in Nat
    BY LoaderSettings DEF LoadInv, Kinds
  <1>2. DOMAIN attempts = 1..Len(attempts) /\ \A i \in 1..Len(attempts) : attempts[i] \in Nat
    BY <1>1, LenProperties, ElementOfSeq
  <1>3. \A i \in DOMAIN attempts : attempts[i] \in 0..MaxTime
    BY <1>1, <1>2 DEF Bounds
  <1>4. now \in 0..MaxTime /\ nextRetry \in 0..(MaxTime + RetryAfter)
    BY <1>1 DEF Bounds
  <1> QED BY <1>3, <1>4 DEF LoadInv, Kinds, TypeOK

\* The three parts keep the types of their variables: the words of a chunk are
\* words of the review, what is ranked or read is in the index, and the clocks
\* stay within their bounds.
THEOREM TypesKept == SuiteSpec => []TypesOK
  <1>1. ChunkInv => C!TypeOK
    BY ChunkTypes, RetrievalSettings
  <1>2. SearchInv => S!TypeOK
    BY SearchTypes
  <1>3. LoadInv /\ Bounds => TypeOK
    BY LoadTypes
  <1>4. TypesOK <=> TypeOK /\ C!TypeOK /\ S!TypeOK
    BY DEF TypesOK
  <1> QED BY <1>1, <1>2, <1>3, <1>4, ChunksHold, SearchHolds, LoadsHold, PTL
=============================================================================
