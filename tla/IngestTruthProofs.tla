-------------------------- MODULE IngestTruthProofs --------------------------
(***************************************************************************)
(* What the stores hold after the passes of the ingestion, and that the    *)
(* manifest says the truth about it: for any dataset, limits and sizes     *)
(* that satisfy the assumptions of Ingest, and any number of crashes.      *)
(***************************************************************************)
EXTENDS IngestProofs, MCIngest

-----------------------------------------------------------------------------
(* Pass 3 read up to line n: the lines of p that bring a text it had not    *)
(* before, and the chunks they make.                                        *)

LineChunks(p, i) ==
  {[product |-> p, review |-> Cardinality(KeptTexts(p, i - 1)), chunk |-> c - 1,
    text |-> Reviews[i].text] : c \in 1..ChunksOf[Reviews[i].text]}

NewLines(p, n) ==
  {i \in LinesOf(p) : i <= n /\ Reviews[i].text \notin KeptTexts(p, i - 1)}

ExpectedTo(p, n) == UNION {LineChunks(p, i) : i \in NewLines(p, n)}

LEMMA LinesType ==
  /\ Len(Reviews) \in Nat /\ DOMAIN Reviews = 1..Len(Reviews)
  /\ \A i \in DOMAIN Reviews :
       /\ i \in Nat /\ i >= 1 /\ i <= Len(Reviews)
       /\ Reviews[i].product \in Products /\ Reviews[i].text \in Texts
       /\ ChunksOf[Reviews[i].text] \in Nat
  <1>1. Len(Reviews) \in Nat /\ DOMAIN Reviews = 1..Len(Reviews)
    BY LenProperties, DatasetAssumption
  <1>2. \A i \in 1..Len(Reviews) : Reviews[i] \in [product : Products, text : Texts]
    BY ElementOfSeq, DatasetAssumption
  <1> QED BY <1>1, <1>2, DatasetAssumption

LEMMA KeptTextsFinite == \A p : \A n \in Int : IsFiniteSet(KeptTexts(p, n))
  <1> SUFFICES ASSUME NEW p, NEW n \in Int PROVE IsFiniteSet(KeptTexts(p, n))
    OBVIOUS
  <1> DEFINE J == {j \in LinesOf(p) : j <= n /\ ChunksOf[Reviews[j].text] > 0}
             f == [j \in J |-> Reviews[j].text]
  <1>1. J \in SUBSET (1..Len(Reviews)) /\ IsFiniteSet(1..Len(Reviews))
    BY LinesType, FS_Interval DEF LinesOf
  <1>2. IsFiniteSet(J)
    BY <1>1, FS_Subset
  <1>3. KeptTexts(p, n) = {Reviews[j].text : j \in J}
    BY DEF KeptTexts
  <1>4. f \in Surjection(J, KeptTexts(p, n))
    <2> HIDE DEF J
    <2> QED BY <1>3 DEF Surjection
  <1> QED BY <1>2, <1>4, FS_Surjection

\* Before the first line nothing is kept.
LEMMA NothingRead ==
  ASSUME NEW p
  PROVE  /\ KeptTexts(p, 0) = {} /\ ExpectedTo(p, 0) = {}
  <1>1. \A j \in LinesOf(p) : ~(j <= 0)
    BY LinesType DEF LinesOf
  <1>2. NewLines(p, 0) = {}
    BY <1>1 DEF NewLines
  <1> QED BY <1>1, <1>2 DEF KeptTexts, ExpectedTo

\* After the last line everything expected is.
LEMMA AllRead ==
  ASSUME NEW p, NEW n \in Int, n >= Len(Reviews)
  PROVE  ExpectedTo(p, n) = Expected(p)
  <1>1. NewLines(p, n) = {j \in LinesOf(p) : Reviews[j].text \notin KeptTexts(p, j - 1)}
    <2>1. \A j \in LinesOf(p) : j <= n
      BY LinesType DEF LinesOf
    <2> QED BY <2>1 DEF NewLines
  <1> QED BY <1>1 DEF ExpectedTo, LineChunks, Expected

\* What line i adds to the texts kept of p, and to its chunks.
LEMMA LineRead ==
  ASSUME NEW p, NEW i \in DOMAIN Reviews
  PROVE  /\ KeptTexts(p, i) =
              KeptTexts(p, i - 1) \cup
              {t \in {Reviews[i].text} : Reviews[i].product = p /\ ChunksOf[t] > 0}
         /\ ExpectedTo(p, i) =
              ExpectedTo(p, i - 1) \cup
              {c \in LineChunks(p, i) :
                 Reviews[i].product = p /\ Reviews[i].text \notin KeptTexts(p, i - 1)}
  <1>1. \A j \in LinesOf(p) : j <= i <=> (j <= i - 1 \/ j = i)
    BY LinesType DEF LinesOf
  <1>2. i \in LinesOf(p) <=> Reviews[i].product = p
    BY DEF LinesOf
  <1>3. i <= i /\ ~(i <= i - 1)
    BY LinesType
  <1>4. KeptTexts(p, i) =
          KeptTexts(p, i - 1) \cup
          {t \in {Reviews[i].text} : Reviews[i].product = p /\ ChunksOf[t] > 0}
    <2> DEFINE J(n) == {j \in LinesOf(p) : j <= n /\ ChunksOf[Reviews[j].text] > 0}
    <2>1. \A j : j \in J(i) <=> j \in J(i - 1) \/ (j = i /\ Reviews[i].product = p
                                                  /\ ChunksOf[Reviews[i].text] > 0)
      BY <1>1, <1>2, <1>3
    <2>2. \A n : KeptTexts(p, n) = {Reviews[j].text : j \in J(n)}
      BY DEF KeptTexts
    <2> HIDE DEF J
    <2> QED BY <2>1, <2>2
  <1>5. \A j : j \in NewLines(p, i) <=>
                 j \in NewLines(p, i - 1) \/
                 (j = i /\ Reviews[i].product = p /\ Reviews[i].text \notin KeptTexts(p, i - 1))
    BY <1>1, <1>2, <1>3 DEF NewLines
  <1>6. ExpectedTo(p, i) =
          ExpectedTo(p, i - 1) \cup
          {c \in LineChunks(p, i) :
             Reviews[i].product = p /\ Reviews[i].text \notin KeptTexts(p, i - 1)}
    BY <1>5 DEF ExpectedTo
  <1> QED BY <1>4, <1>6

\* A line of another product, a filtered one and a repetition add nothing.
LEMMA PassedLine ==
  ASSUME NEW p, NEW i \in DOMAIN Reviews,
         \/ Reviews[i].product # p
         \/ ~(ChunksOf[Reviews[i].text] > 0)
         \/ Reviews[i].text \in KeptTexts(p, i - 1)
  PROVE  KeptTexts(p, i) = KeptTexts(p, i - 1) /\ ExpectedTo(p, i) = ExpectedTo(p, i - 1)
  <1> DEFINE t == Reviews[i].text
             T == {u \in {t} : Reviews[i].product = p /\ ChunksOf[u] > 0}
             C == {c \in LineChunks(p, i) : Reviews[i].product = p /\ t \notin KeptTexts(p, i - 1)}
  <1>1. KeptTexts(p, i) = KeptTexts(p, i - 1) \cup T
    BY LineRead
  <1>2. ExpectedTo(p, i) = ExpectedTo(p, i - 1) \cup C
    BY LineRead
  <1>3. T \subseteq KeptTexts(p, i - 1)
    OBVIOUS
  <1>4. C = {}
    <2>1. ChunksOf[t] \in Nat
      BY LinesType
    <2>2. CASE ~(ChunksOf[t] > 0)
      <3>1. 1..ChunksOf[t] = {}
        BY <2>1, <2>2
      <3>2. LineChunks(p, i) = {}
        BY <3>1 DEF LineChunks
      <3> QED BY <3>2
    <2> QED BY <2>2
  <1> HIDE DEF T, C
  <1> QED BY <1>1, <1>2, <1>3, <1>4

\* A line whose review is kept.
LEMMA KeptLine ==
  ASSUME NEW i \in DOMAIN Reviews, NEW p, Reviews[i].product = p,
         ChunksOf[Reviews[i].text] > 0, Reviews[i].text \notin KeptTexts(p, i - 1)
  PROVE  /\ KeptTexts(p, i) = KeptTexts(p, i - 1) \cup {Reviews[i].text}
         /\ ExpectedTo(p, i) = ExpectedTo(p, i - 1) \cup LineChunks(p, i)
  BY LineRead

\* As many chunks as the text makes, each under a number of its own.
LEMMA LineChunksCount ==
  ASSUME NEW p, NEW i \in DOMAIN Reviews
  PROVE  /\ IsFiniteSet(LineChunks(p, i))
         /\ Cardinality(LineChunks(p, i)) = ChunksOf[Reviews[i].text]
  <1> DEFINE n == ChunksOf[Reviews[i].text]
             r == Cardinality(KeptTexts(p, i - 1))
             t == Reviews[i].text
             S == {[product |-> p, review |-> r, chunk |-> c - 1, text |-> t] : c \in 1..n}
             f == [c \in 1..n |-> [product |-> p, review |-> r, chunk |-> c - 1, text |-> t]]
  <1>1. n \in Nat
    BY LinesType
  <1>2. LineChunks(p, i) = S
    BY DEF LineChunks
  <1> HIDE DEF n, r, t
  <1>3. f \in Surjection(1..n, S)
    BY DEF Surjection
  <1>4. \A c, d \in 1..n : f[c] = f[d] => c = d
    <2> SUFFICES ASSUME NEW c \in 1..n, NEW d \in 1..n, f[c] = f[d] PROVE c = d
      OBVIOUS
    <2>1. f[c].chunk = c - 1 /\ f[d].chunk = d - 1
      OBVIOUS
    <2>2. c - 1 = d - 1
      BY <2>1
    <2> QED BY <1>1, <2>2
  <1>5. f \in Injection(1..n, S)
    <2> HIDE DEF f
    <2> QED BY <1>3, <1>4 DEF Injection, Surjection, IsInjective
  <1>6. IsFiniteSet(1..n) /\ Cardinality(1..n) = n
    BY <1>1, FS_Interval
  <1> HIDE DEF f, S
  <1> QED BY <1>2, <1>3, <1>5, <1>6, FS_Surjection DEF n

-----------------------------------------------------------------------------
(* Pass 2.  Every selected line that is new or changed is upserted, and the *)
(* chunks of what changed are deleted before the reviews are read.          *)

VisitInv ==
  /\ pc \in {"wipe products", "wipe vectors"} => changed = {} /\ todo = chosen
  /\ pc # "idle" => \A p \in changed : products[p] = meta[p].hash
  /\ pc = "products" => \A p \in chosen \ todo : Upserts(p) => p \in changed
  /\ pc \in {"delete", "reviews", "flush", "save"} =>
       \A p \in chosen : Upserts(p) => p \in changed
  /\ pc = "delete" => \A p \in changed \ todo : Stored(p) = {}

LEMMA VisitInit == Init => VisitInv
  BY DEF Init, VisitInv

LEMMA VisitNext ==
  ASSUME TypeOK, VisitInv, [Next]_vars
  PROVE  VisitInv'
  <1> USE DEF outside, stores, passThree, VisitInv, Upserts
  <1>1. ASSUME NEW mode \in Modes, NEW limit \in Limits, Start(mode, limit) PROVE VisitInv'
    BY <1>1 DEF Start
  <1>2. CASE WipeProducts
    BY <1>2 DEF WipeProducts
  <1>3. CASE WipeVectors
    BY <1>3 DEF WipeVectors
  <1>4. ASSUME NEW p \in Products, VisitProduct(p) PROVE VisitInv'
    <2>1. pc = "products" /\ pc' = "products" /\ UNCHANGED <<meta, known, chosen>>
      BY <1>4 DEF VisitProduct
    <2>2. CASE Upserts(p)
      <3>1. products' = [products EXCEPT ![p] = meta[p].hash] /\ changed' = changed \cup {p}
            /\ todo' = todo \ {p}
        BY <1>4, <2>2 DEF VisitProduct
      <3>2. \A q \in changed' : products'[q] = meta'[q].hash
        BY <2>1, <3>1 DEF TypeOK
      <3> QED BY <2>1, <3>1, <3>2
    <2>3. CASE ~Upserts(p)
      BY <1>4, <2>1, <2>3 DEF VisitProduct
    <2> QED BY <2>2, <2>3
  <1>5. ASSUME NEW p \in Products, DeleteChunks(p) PROVE VisitInv'
    <2>1. \A q \in changed \ todo' : Stored(q)' = {}
      BY <1>5 DEF DeleteChunks, Stored
    <2> QED BY <1>5, <2>1 DEF DeleteChunks
  <1>6. ASSUME NEW p \in Products, Edit(p) PROVE VisitInv'
    BY <1>6 DEF Edit
  <1>7. CASE EndProducts
    BY <1>7 DEF EndProducts
  <1>8. CASE EndDelete
    BY <1>8 DEF EndDelete
  <1>9. ASSUME KeepReview \/ SkipReview \/ EndReviews \/ StoreBatch \/ EndFlush PROVE VisitInv'
    BY <1>9 DEF KeepReview, SkipReview, EndReviews, StoreBatch, EndFlush
  <1>10. ASSUME Save \/ Crash \/ Recover PROVE VisitInv'
    BY <1>10 DEF Save, Entries, Crash, Recover
  <1>11. CASE UNCHANGED vars
    BY <1>11 DEF vars, Stored
  <1> QED BY <1>1, <1>2, <1>3, <1>4, <1>5, <1>6, <1>7, <1>8, <1>9, <1>10, <1>11 DEF Next

\* A save brings every selected product with a usable line up to date.
LEMMA SaveCovers ==
  ASSUME TypeOK, VisitInv, [Next]_vars, pc = "save", pc' = "idle", crashes' = crashes
  PROVE  Save
  <1>1. crashes + 1 # crashes
    BY DEF TypeOK
  <1>2. ~Crash /\ ~Recover /\ ~UNCHANGED vars
    BY <1>1 DEF Crash, Recover, vars
  <1> QED
    BY <1>2 DEF Next, Start, WipeProducts, WipeVectors, VisitProduct, DeleteChunks, Edit,
        EndProducts, EndDelete, KeepReview, SkipReview, EndReviews, StoreBatch, EndFlush

\* A run that reaches its end leaves every selected product with a usable line
\* up to date, whatever died before it.
THEOREM RunsCover == Spec => CompleteRunCovers
  <1>1. TypeOK /\ VisitInv /\ [Next]_vars => VisitInv'
    BY VisitNext
  <1>2. TypeOK /\ VisitInv /\ [Next]_vars =>
          [pc = "save" /\ pc' = "idle" /\ crashes' = crashes =>
             \A p \in chosen : meta[p].hash # 0 /\ meta[p].usable => UpToDate(p)']_vars
    <2> SUFFICES ASSUME TypeOK, VisitInv, [Next]_vars, pc = "save", pc' = "idle",
                        crashes' = crashes, NEW p \in chosen, meta[p].hash # 0, meta[p].usable
                 PROVE  UpToDate(p)'
      BY Zenon
    <2>1. Save
      BY SaveCovers
    <2>2. p \in Products /\ meta' = meta
      BY <2>1 DEF TypeOK, Save, Entries, outside
    <2>3. manifest'.entries[p] = IF p \in changed THEN [hash |-> meta[p].hash, chunks |-> counts[p]]
                                 ELSE known[p]
      BY <2>1, <2>2 DEF Save, Entries
    <2>4. p \notin changed => known[p].hash = meta[p].hash
      BY DEF VisitInv, Upserts
    <2> QED BY <2>2, <2>3, <2>4 DEF UpToDate
  <1> QED BY TypeCorrect, VisitInit, <1>1, <1>2, PTL DEF Spec, CompleteRunCovers

-----------------------------------------------------------------------------
(* Pass 3.  Of every changed product, the chunks that are stored and those  *)
(* that wait in the buffer are what the lines read so far make; they carry  *)
(* the numbers below the next one, so the next review's ids are new.        *)

BufferedOf(p) == {c \in Buffered : c.product = p}

ReadTo(p) ==
  /\ seen[p] = KeptTexts(p, at - 1)
  /\ nextReview[p] = Cardinality(seen[p])
  /\ IsFiniteSet(ExpectedTo(p, at - 1))
  /\ counts[p] = Cardinality(ExpectedTo(p, at - 1))
  /\ Stored(p) \cup BufferedOf(p) = ExpectedTo(p, at - 1)
  /\ \A c \in ExpectedTo(p, at - 1) : c.review < nextReview[p]

NewIds ==
  /\ \A i, j \in DOMAIN buffer : IdOf(buffer[i]) = IdOf(buffer[j]) => i = j
  /\ \A i \in DOMAIN buffer : IdOf(buffer[i]) \notin Ids(vectors)

ReadInv ==
  /\ pc \in {"reviews", "flush", "save"} => NewIds /\ \A p \in changed : ReadTo(p)
  /\ pc = "save" => buffer = <<>> /\ at > Len(Reviews)

\* The chunks of the review at hand, as the buffer gets them.
LEMMA ChunksAtLine ==
  ASSUME TypeOK, at <= Len(Reviews), NEW p, p = Reviews[at].product,
         nextReview[p] = Cardinality(KeptTexts(p, at - 1))
  PROVE  /\ at \in DOMAIN Reviews
         /\ \A i \in 1..Len(ChunksAt(at)) :
              IdOf(ChunksAt(at)[i]) = <<p, nextReview[p], i - 1>>
         /\ LineChunks(p, at) = {ChunksAt(at)[i] : i \in 1..Len(ChunksAt(at))}
         /\ \A c \in LineChunks(p, at) : c.product = p /\ c.review = nextReview[p]
  <1>1. at \in DOMAIN Reviews
    <2>1. at \in Nat \ {0}
      BY DEF TypeOK
    <2> QED BY <2>1, LinesType
  <1>2. Len(ChunksAt(at)) = ChunksOf[Reviews[at].text]
    BY ChunksAtType
  <1>3. \A i \in 1..ChunksOf[Reviews[at].text] :
          ChunksAt(at)[i] = [product |-> p, review |-> nextReview[p], chunk |-> i - 1,
                             text |-> Reviews[at].text]
    BY DEF ChunksAt
  <1>4. LineChunks(p, at) = {ChunksAt(at)[i] : i \in 1..Len(ChunksAt(at))}
    BY <1>2, <1>3 DEF LineChunks
  <1>5. \A i \in 1..Len(ChunksAt(at)) : IdOf(ChunksAt(at)[i]) = <<p, nextReview[p], i - 1>>
    <2> DEFINE w == ChunksAt(at)
               n == ChunksOf[Reviews[at].text]
    <2>1. \A i \in 1..n :
            w[i].product = p /\ w[i].review = nextReview[p] /\ w[i].chunk = i - 1
      BY DEF ChunksAt
    <2>2. Len(w) = n
      BY <1>2
    <2> HIDE DEF w, n
    <2>3. \A i \in 1..Len(w) : IdOf(w[i]) = <<p, nextReview[p], i - 1>>
      BY <2>1, <2>2 DEF IdOf
    <2> QED BY <2>3 DEF w
  <1>6. \A c \in LineChunks(p, at) : c.product = p /\ c.review = nextReview[p]
    BY DEF LineChunks
  <1> QED BY <1>1, <1>4, <1>5, <1>6

\* The buffer after a review is kept: what it had, then the new chunks.
LEMMA Appended ==
  ASSUME TypeOK, at <= Len(Reviews), buffer' = buffer \o ChunksAt(at)
  PROVE  LET l == Len(buffer)
             k == Len(ChunksAt(at)) IN
         /\ l \in Nat /\ k \in Nat /\ DOMAIN buffer = 1..l /\ DOMAIN buffer' = 1..l + k
         /\ \A i \in 1..l : buffer'[i] = buffer[i]
         /\ \A i \in l + 1..l + k : buffer'[i] = ChunksAt(at)[i - l] /\ i - l \in 1..k
         /\ \A i \in 1..k : buffer'[l + i] = ChunksAt(at)[i] /\ l + i \in l + 1..l + k
         /\ 1..l + k = (1..l) \cup (l + 1..l + k)
  <1> DEFINE w == ChunksAt(at)
             l == Len(buffer)
             k == Len(w)
  <1>1. buffer \in Seq(Chunk) /\ w \in Seq(Chunk)
    BY ChunksAtType DEF TypeOK
  <1> HIDE DEF w
  <1>2. /\ Len(buffer') = l + k
        /\ \A i \in 1..l + k : buffer'[i] = IF i <= l THEN buffer[i] ELSE w[i - l]
        /\ buffer' \in Seq(Chunk)
    BY <1>1, ConcatProperties DEF w
  <1>3. l \in Nat /\ k \in Nat /\ DOMAIN buffer = 1..l
    BY <1>1, LenProperties
  <1>4. DOMAIN buffer' = 1..l + k
    BY <1>2, LenProperties
  <1> HIDE DEF l, k
  <1>5. \A i \in 1..l : buffer'[i] = buffer[i]
    BY <1>2, <1>3
  <1>6. \A i \in l + 1..l + k : buffer'[i] = w[i - l] /\ i - l \in 1..k
    BY <1>2, <1>3
  <1>7. \A i \in 1..k : buffer'[l + i] = w[i] /\ l + i \in l + 1..l + k
    <2> SUFFICES ASSUME NEW i \in 1..k
                 PROVE  buffer'[l + i] = w[i] /\ l + i \in l + 1..l + k
      OBVIOUS
    <2>1. l + i \in l + 1..l + k /\ (l + i) - l = i
      BY <1>3
    <2> QED BY <1>6, <2>1
  <1>8. 1..l + k = (1..l) \cup (l + 1..l + k)
    BY <1>3
  <1> QED BY <1>3, <1>4, <1>5, <1>6, <1>7, <1>8 DEF w, l, k

\* The stored and the buffered chunks of a changed product have small numbers.
LEMMA OldNumbers ==
  ASSUME NEW p \in changed, ReadTo(p)
  PROVE  \A c : (c \in vectors \/ c \in Buffered) /\ c.product = p => c.review < nextReview[p]
  BY DEF ReadTo, Stored, BufferedOf

LEMMA ReadInit == Init => ReadInv
  BY DEF Init, ReadInv

\* A line whose review is kept.
LEMMA KeptStep ==
  ASSUME TypeOK, TouchInv, ReadInv, KeepReview
  PROVE  ReadInv'
  <1>0. PICK q : q = Reviews[at].product
    OBVIOUS
  <1> DEFINE t == Reviews[at].text
             w == ChunksAt(at)
             l == Len(buffer)
             k == Len(w)
             D == LineChunks(q, at)
  <1>1. /\ pc = "reviews" /\ at <= Len(Reviews) /\ q \in changed /\ ChunksOf[t] > 0
        /\ t \notin seen[q] /\ buffer' = buffer \o w /\ at' = at + 1
        /\ pc' \in {"reviews", "flush"} /\ UNCHANGED <<vectors, changed>>
        /\ seen' = [seen EXCEPT ![q] = @ \cup {t}]
        /\ nextReview' = [nextReview EXCEPT ![q] = @ + 1]
        /\ counts' = [counts EXCEPT ![q] = @ + ChunksOf[t]]
    BY <1>0 DEF KeepReview, Keeps, stores
  <1>2. NewIds /\ \A p \in changed : ReadTo(p)
    BY <1>1 DEF ReadInv
  <1>3. changed \subseteq Products
    BY DEF TypeOK
  <1>4. /\ seen[q] = KeptTexts(q, at - 1) /\ nextReview[q] = Cardinality(KeptTexts(q, at - 1))
        /\ nextReview[q] \in Nat /\ counts[q] = Cardinality(ExpectedTo(q, at - 1))
        /\ IsFiniteSet(ExpectedTo(q, at - 1))
    BY <1>1, <1>2, <1>3 DEF ReadTo, TypeOK
  <1>5. /\ at \in DOMAIN Reviews /\ at \in Nat
        /\ \A i \in 1..k : IdOf(w[i]) = <<q, nextReview[q], i - 1>>
        /\ D = {w[i] : i \in 1..k}
        /\ \A c \in D : c.product = q /\ c.review = nextReview[q]
    BY <1>0, <1>1, <1>4, ChunksAtLine DEF TypeOK
  <1>6. /\ l \in Nat /\ k \in Nat /\ DOMAIN buffer = 1..l /\ DOMAIN buffer' = 1..l + k
        /\ \A i \in 1..l : buffer'[i] = buffer[i]
        /\ \A i \in l + 1..l + k : buffer'[i] = w[i - l] /\ i - l \in 1..k
        /\ \A i \in 1..k : buffer'[l + i] = w[i] /\ l + i \in l + 1..l + k
        /\ 1..l + k = (1..l) \cup (l + 1..l + k)
    BY <1>1, Appended
  <1>7. at' - 1 = at
    BY <1>1, <1>5
  <1>8. /\ IsFiniteSet(D) /\ Cardinality(D) = ChunksOf[t] /\ ChunksOf[t] \in Nat
    BY <1>5, LineChunksCount, LinesType
  <1> HIDE DEF t, w, l, k, D
  <1>9. Buffered' = Buffered \cup D
    <2>1. Buffered' = {buffer'[i] : i \in 1..l + k} /\ Buffered = {buffer[i] : i \in 1..l}
      BY <1>6 DEF Buffered
    <2>2. ASSUME NEW c \in Buffered' PROVE c \in Buffered \cup D
      <3>1. PICK i \in 1..l + k : c = buffer'[i]
        BY <2>1
      <3>2. i \in 1..l \/ i \in l + 1..l + k
        BY <1>6
      <3> QED BY <1>5, <1>6, <2>1, <3>1, <3>2
    <2>3. ASSUME NEW c \in Buffered PROVE c \in Buffered'
      BY <1>6, <2>1
    <2>4. ASSUME NEW c \in D PROVE c \in Buffered'
      BY <1>5, <1>6, <2>1
    <2> QED BY <2>2, <2>3, <2>4
  <1>10. \A c : (c \in vectors \/ c \in Buffered) /\ c.product = q => c.review < nextReview[q]
    BY <1>1, <1>2, OldNumbers
  <1>11. NewIds'
    <2>1. ASSUME NEW c, c \in vectors \/ c \in Buffered, NEW i \in 1..k
          PROVE  IdOf(c) # IdOf(w[i])
      <3>1. IdOf(w[i]) = <<q, nextReview[q], i - 1>>
        BY <1>5
      <3>2. ~(c.product = q /\ c.review = nextReview[q])
        BY <1>4, <1>10, <2>1
      <3> QED BY <3>1, <3>2, Zenon DEF IdOf
    <2>2. ASSUME NEW i \in 1..k, NEW j \in 1..k, IdOf(w[i]) = IdOf(w[j]) PROVE i = j
      <3>1. i - 1 = j - 1
        BY <1>5, <2>2
      <3> QED BY <1>6, <3>1
    <2>3. ASSUME NEW i \in DOMAIN buffer' PROVE IdOf(buffer'[i]) \notin Ids(vectors')
      <3>1. i \in 1..l \/ i \in l + 1..l + k
        BY <1>6
      <3>2. CASE i \in 1..l
        BY <1>1, <1>2, <1>6, <3>2 DEF NewIds
      <3>3. CASE i \in l + 1..l + k
        BY <1>1, <1>6, <2>1, <3>3 DEF Ids
      <3> QED BY <3>1, <3>2, <3>3
    <2>4. ASSUME NEW i \in DOMAIN buffer', NEW j \in DOMAIN buffer',
                 IdOf(buffer'[i]) = IdOf(buffer'[j])
          PROVE  i = j
      <3>1. (i \in 1..l \/ i \in l + 1..l + k) /\ (j \in 1..l \/ j \in l + 1..l + k)
        BY <1>6
      <3>2. \A m \in 1..l : buffer[m] \in Buffered
        BY <1>6 DEF Buffered
      <3>3. CASE i \in 1..l /\ j \in 1..l
        BY <1>2, <1>6, <2>4, <3>3 DEF NewIds
      <3>4. CASE i \in 1..l /\ j \in l + 1..l + k
        BY <1>6, <2>1, <2>4, <3>2, <3>4
      <3>5. CASE i \in l + 1..l + k /\ j \in 1..l
        BY <1>6, <2>1, <2>4, <3>2, <3>5
      <3>6. CASE i \in l + 1..l + k /\ j \in l + 1..l + k
        <4>1. i - l \in 1..k /\ j - l \in 1..k /\ IdOf(w[i - l]) = IdOf(w[j - l])
          BY <1>6, <2>4, <3>6
        <4>2. i - l = j - l
          BY <2>2, <4>1
        <4> QED BY <1>6, <3>6, <4>2
      <3> QED BY <3>1, <3>3, <3>4, <3>5, <3>6
    <2> QED BY <2>3, <2>4 DEF NewIds
  <1>12. ASSUME NEW p \in changed, p # q PROVE ReadTo(p)'
    <2>1. KeptTexts(p, at) = KeptTexts(p, at - 1) /\ ExpectedTo(p, at) = ExpectedTo(p, at - 1)
      BY <1>0, <1>5, <1>12, PassedLine
    <2>2. seen'[p] = seen[p] /\ nextReview'[p] = nextReview[p] /\ counts'[p] = counts[p]
      BY <1>1, <1>3, <1>12 DEF TypeOK
    <2>3. Stored(p)' = Stored(p) /\ BufferedOf(p)' = BufferedOf(p)
      BY <1>1, <1>5, <1>9, <1>12 DEF Stored, BufferedOf
    <2>4. ReadTo(p)
      BY <1>2
    <2> QED BY <1>7, <2>1, <2>2, <2>3, <2>4 DEF ReadTo
  <1>13. ReadTo(q)'
    <2>1. KeptTexts(q, at) = KeptTexts(q, at - 1) \cup {t}
      BY <1>0, <1>1, <1>4, <1>5, KeptLine DEF t
    <2>2. ExpectedTo(q, at) = ExpectedTo(q, at - 1) \cup D
      BY <1>0, <1>1, <1>4, <1>5, KeptLine DEF t, D
    <2>3. /\ seen'[q] = seen[q] \cup {t} /\ nextReview'[q] = nextReview[q] + 1
          /\ counts'[q] = counts[q] + ChunksOf[t] /\ q \in Products
      BY <1>1, <1>3 DEF TypeOK
    <2>4. nextReview'[q] = Cardinality(seen'[q])
      <3>1. IsFiniteSet(seen[q])
        BY <1>4, <1>5, KeptTextsFinite
      <3>2. Cardinality(seen[q] \cup {t}) = Cardinality(seen[q]) + 1
        BY <1>1, <3>1, FS_AddElement
      <3> QED BY <1>4, <2>3, <3>2
    <2>5. ReadTo(q)
      BY <1>1, <1>2
    <2>6. ExpectedTo(q, at - 1) \cap D = {}
      <3>1. \A c \in ExpectedTo(q, at - 1) : c.review < nextReview[q]
        BY <2>5 DEF ReadTo
      <3>2. ~(nextReview[q] < nextReview[q])
        BY <1>4
      <3> QED BY <1>5, <3>1, <3>2
    <2>7. IsFiniteSet(ExpectedTo(q, at)) /\ counts'[q] = Cardinality(ExpectedTo(q, at))
      <3>1. Cardinality(ExpectedTo(q, at - 1)) \in Nat
        BY <1>4, FS_CardinalityType
      <3> DEFINE E == ExpectedTo(q, at - 1)
      <3> HIDE DEF E
      <3>2. /\ IsFiniteSet(E \cup D)
            /\ Cardinality(E \cup D) = Cardinality(E) + Cardinality(D) - Cardinality(E \cap D)
        BY <1>4, <1>8, FS_Union DEF E
      <3>3. Cardinality(E \cap D) = 0
        BY <2>6, FS_EmptySet DEF E
      <3>4. Cardinality(E \cup D) = Cardinality(E) + ChunksOf[t]
        BY <1>8, <3>1, <3>2, <3>3 DEF E
      <3> QED BY <1>4, <2>2, <2>3, <3>2, <3>4 DEF E
    <2>8. Stored(q)' = Stored(q) /\ BufferedOf(q)' = BufferedOf(q) \cup D
      BY <1>1, <1>5, <1>9 DEF Stored, BufferedOf
    <2>9. Stored(q)' \cup BufferedOf(q)' = ExpectedTo(q, at)
      BY <2>2, <2>5, <2>8 DEF ReadTo
    <2>10. \A c \in ExpectedTo(q, at) : c.review < nextReview'[q]
      <3>1. ASSUME NEW c \in ExpectedTo(q, at - 1) PROVE c.review < nextReview[q] + 1
        <4>1. c.review < nextReview[q]
          BY <2>5 DEF ReadTo
        <4>2. c \in vectors \/ c \in Buffered
          BY <2>5 DEF ReadTo, Stored, BufferedOf
        <4>3. c.review \in Nat
          <5>1. c \in Chunk
            <6>1. vectors \subseteq Chunk /\ buffer \in Seq(Chunk)
              BY DEF TypeOK
            <6>2. \A i \in DOMAIN buffer : buffer[i] \in Chunk
              BY <1>6, <6>1, ElementOfSeq DEF l
            <6> QED BY <4>2, <6>1, <6>2 DEF Buffered
          <5> QED BY <5>1 DEF Chunk
        <4> QED BY <1>4, <4>1, <4>3
      <3>2. ASSUME NEW c \in D PROVE c.review < nextReview[q] + 1
        BY <1>4, <1>5
      <3> QED BY <2>2, <2>3, <3>1, <3>2
    <2> QED BY <1>7, <2>1, <2>3, <2>4, <2>7, <2>9, <2>10, <2>5 DEF ReadTo
  <1> QED BY <1>1, <1>11, <1>12, <1>13 DEF ReadInv

\* A line that brings nothing new.
LEMMA PassedStep ==
  ASSUME TypeOK, ReadInv, SkipReview
  PROVE  ReadInv'
  <1>1. /\ pc = "reviews" /\ pc' = pc /\ at <= Len(Reviews) /\ ~Keeps(at) /\ at' = at + 1
        /\ UNCHANGED <<vectors, changed, seen, nextReview, counts, buffer>>
    BY DEF SkipReview, stores
  <1>2. NewIds /\ \A p \in changed : ReadTo(p)
    BY <1>1 DEF ReadInv
  <1>3. at \in DOMAIN Reviews /\ at' - 1 = at
    <2>1. at \in Nat \ {0}
      BY DEF TypeOK
    <2> QED BY <1>1, <2>1, LinesType
  <1>4. ASSUME NEW p \in changed PROVE ReadTo(p)'
    <2>1. ReadTo(p)
      BY <1>2
    <2>2. \/ Reviews[at].product # p
          \/ ~(ChunksOf[Reviews[at].text] > 0)
          \/ Reviews[at].text \in KeptTexts(p, at - 1)
      BY <1>1, <2>1 DEF Keeps, ReadTo
    <2>3. KeptTexts(p, at) = KeptTexts(p, at - 1) /\ ExpectedTo(p, at) = ExpectedTo(p, at - 1)
      BY <1>3, <2>2, PassedLine
    <2>4. Stored(p)' = Stored(p) /\ BufferedOf(p)' = BufferedOf(p)
      BY <1>1 DEF Stored, BufferedOf, Buffered
    <2> QED BY <1>1, <1>3, <2>1, <2>3, <2>4 DEF ReadTo
  <1>5. NewIds'
    BY <1>1, <1>2 DEF NewIds
  <1> QED BY <1>1, <1>4, <1>5 DEF ReadInv

\* A batch goes from the buffer to the store, as it is.
LEMMA StoredStep ==
  ASSUME TypeOK, ReadInv, StoreBatch
  PROVE  ReadInv'
  <1> DEFINE l == Len(buffer)
             n == IF l < AddBatch THEN l ELSE AddBatch
             w == SubSeq(buffer, n + 1, l)
             B == {buffer[i] : i \in 1..n}
  <1>1. /\ pc = "flush" /\ pc' = pc /\ buffer # <<>> /\ vectors' = AddBatchOf(n) /\ buffer' = w
        /\ UNCHANGED <<changed, at, seen, nextReview, counts>>
    BY DEF StoreBatch
  <1>2. NewIds /\ \A p \in changed : ReadTo(p)
    BY <1>1 DEF ReadInv
  <1>3. buffer \in Seq(Chunk) /\ l \in Nat /\ DOMAIN buffer = 1..l
    BY LenProperties DEF TypeOK
  <1>4. n \in 1..l /\ w \in Seq(Chunk)
    BY <1>1, BatchType
  <1> HIDE DEF l, n
  <1>5. \A i \in 1..l : buffer[i] \in Chunk
    BY <1>3, ElementOfSeq DEF l
  <1>6. /\ Len(w) = l - n
        /\ \A i \in 1..l - n : w[i] = buffer[n + i]
    <2>1. \A i \in n + 1..l : buffer[i] \in Chunk
      BY <1>3, <1>4, <1>5
    <2>2. /\ Len(w) = IF n + 1 <= l THEN l - (n + 1) + 1 ELSE 0
          /\ \A i \in 1..l - (n + 1) + 1 : w[i] = buffer[(n + 1) + i - 1]
      BY <1>3, <1>4, <2>1, SubSeqProperties
    <2>3. l - (n + 1) + 1 = l - n /\ (~(n + 1 <= l) => l - n = 0)
      BY <1>3, <1>4
    <2>4. \A i \in 1..l - n : (n + 1) + i - 1 = n + i
      BY <1>3, <1>4
    <2> QED BY <2>2, <2>3, <2>4
  <1> HIDE DEF w
  <1>7. DOMAIN buffer' = 1..l - n /\ \A i \in 1..l - n : buffer'[i] = buffer[n + i]
    BY <1>1, <1>4, <1>6, LenProperties
  <1>8. \A i \in 1..l - n : n + i \in 1..l /\ n + i \notin 1..n
    BY <1>3, <1>4
  <1>9. vectors' = vectors \cup B
    <2>1. \A i \in 1..n : IdOf(buffer[i]) \notin Ids(vectors)
      BY <1>2, <1>3, <1>4 DEF NewIds
    <2> QED BY <1>1, <2>1 DEF AddBatchOf
  <1>10. Buffered = B \cup Buffered'
    <2>1. Buffered' = {buffer[n + i] : i \in 1..l - n}
      BY <1>7 DEF Buffered
    <2>2. Buffered = {buffer[i] : i \in 1..l}
      BY <1>3 DEF Buffered
    <2>3. \A i \in 1..l : i \in 1..n \/ (i - n \in 1..l - n /\ n + (i - n) = i)
      BY <1>3, <1>4
    <2>4. \A i \in 1..n : i \in 1..l
      BY <1>3, <1>4
    <2>5. \A c \in Buffered : c \in B \cup Buffered'
      BY <2>1, <2>2, <2>3
    <2>6. \A c \in B \cup Buffered' : c \in Buffered
      BY <2>1, <2>2, <2>4, <1>8
    <2> QED BY <2>5, <2>6
  <1>11. NewIds'
    <2>1. ASSUME NEW i \in 1..l - n, NEW j \in 1..l - n, IdOf(buffer'[i]) = IdOf(buffer'[j])
          PROVE  i = j
      <3>1. n + i = n + j
        BY <1>2, <1>3, <1>7, <1>8, <2>1 DEF NewIds
      <3> QED BY <1>3, <1>4, <3>1
    <2>2. ASSUME NEW i \in 1..l - n PROVE IdOf(buffer'[i]) \notin Ids(vectors')
      <3>1. IdOf(buffer[n + i]) \notin Ids(vectors)
        BY <1>2, <1>3, <1>8 DEF NewIds
      <3>2. \A j \in 1..n : j \in 1..l /\ j # n + i
        BY <1>3, <1>4, <1>8
      <3>3. \A j \in 1..n : IdOf(buffer[j]) # IdOf(buffer[n + i])
        BY <1>2, <1>3, <1>8, <3>2 DEF NewIds
      <3>4. \A c \in B : IdOf(c) # IdOf(buffer[n + i])
        BY <3>3
      <3> QED BY <1>7, <1>9, <3>1, <3>4 DEF Ids
    <2> QED BY <1>7, <2>1, <2>2 DEF NewIds
  <1> HIDE DEF B
  <1>12. ASSUME NEW p \in changed PROVE ReadTo(p)'
    <2>1. ReadTo(p)
      BY <1>2
    <2>2. Stored(p)' \cup BufferedOf(p)' = Stored(p) \cup BufferedOf(p)
      BY <1>9, <1>10 DEF Stored, BufferedOf
    <2> QED BY <1>1, <2>1, <2>2 DEF ReadTo
  <1> QED BY <1>1, <1>11, <1>12 DEF ReadInv

LEMMA ReadNext ==
  ASSUME TypeOK, TouchInv, VisitInv, ReadInv, [Next]_vars
  PROVE  ReadInv'
  <1> USE DEF outside, stores, passThree
  <1>1. ASSUME NEW mode \in Modes, NEW limit \in Limits, Start(mode, limit) PROVE ReadInv'
    BY <1>1 DEF Start, ReadInv
  <1>2. CASE WipeProducts \/ WipeVectors
    BY <1>2 DEF WipeProducts, WipeVectors, ReadInv
  <1>3. ASSUME NEW p \in Products, VisitProduct(p) \/ DeleteChunks(p) \/ Edit(p)
        PROVE  ReadInv'
    BY <1>3 DEF VisitProduct, DeleteChunks, Edit, ReadInv
  <1>4. CASE EndProducts
    BY <1>4 DEF EndProducts, ReadInv
  <1>5. CASE EndDelete
    <2>1. /\ pc = "delete" /\ todo = {} /\ pc' = "reviews" /\ at' = 1
          /\ buffer' = <<>> /\ UNCHANGED <<vectors, changed>>
          /\ \A p \in changed : seen'[p] = {} /\ nextReview'[p] = 0 /\ counts'[p] = 0
      BY <1>5 DEF EndDelete, TypeOK
    <2>2. at' - 1 = 0 /\ DOMAIN buffer' = {} /\ Buffered' = {}
      BY <2>1 DEF Buffered
    <2>3. ASSUME NEW p \in changed PROVE ReadTo(p)'
      <3>1. Stored(p)' = {} /\ BufferedOf(p)' = {}
        BY <2>1, <2>2 DEF VisitInv, Stored, BufferedOf
      <3>2. KeptTexts(p, 0) = {} /\ ExpectedTo(p, 0) = {}
        BY NothingRead
      <3> QED BY <2>1, <2>2, <3>1, <3>2, FS_EmptySet DEF ReadTo
    <2>4. NewIds'
      BY <2>2 DEF NewIds
    <2> QED BY <2>1, <2>3, <2>4 DEF ReadInv
  <1>6. CASE KeepReview
    BY <1>6, KeptStep
  <1>7. CASE SkipReview
    BY <1>7, PassedStep
  <1>8. CASE StoreBatch
    BY <1>8, StoredStep
  <1>9. ASSUME UNCHANGED <<vectors, changed, at, seen, nextReview, counts, buffer>>
        PROVE  (NewIds /\ \A p \in changed : ReadTo(p))' = (NewIds /\ \A p \in changed : ReadTo(p))
    BY <1>9 DEF NewIds, ReadTo, Stored, BufferedOf, Buffered
  <1>10. CASE EndReviews
    BY <1>9, <1>10 DEF EndReviews, ReadInv
  <1>11. CASE EndFlush
    BY <1>9, <1>11 DEF EndFlush, ReadInv
  <1>12. CASE Save
    BY <1>12 DEF Save, Entries, ReadInv
  <1>13. CASE Crash
    BY <1>13 DEF Crash, ReadInv
  <1>14. CASE Recover
    BY <1>14 DEF Recover, ReadInv
  <1>15. CASE UNCHANGED vars
    BY <1>9, <1>15 DEF vars, ReadInv
  <1> QED BY <1>1, <1>2, <1>3, <1>4, <1>5, <1>6, <1>7, <1>8, <1>10, <1>11, <1>12, <1>13,
             <1>14, <1>15 DEF Next

\* The job, whatever happens around it: the invariant of its three passes.
JobInv == TypeOK /\ TouchInv /\ VisitInv /\ ReadInv

LEMMA JobInit == Init => JobInv
  BY TypeInit, TouchInit, VisitInit, ReadInit DEF JobInv

LEMMA JobNext == JobInv /\ [Next]_vars => JobInv'
  BY TypeNext, TouchNext, VisitNext, ReadNext DEF JobInv

\* No add meets an id that is stored, and no id is twice in the buffer: the
\* caller "owns id uniqueness", as Chroma's add silently passes over such a chunk.
THEOREM FreshIds == Spec => []IdsAreFresh
  <1>1. JobInv => IdsAreFresh
    <2> SUFFICES ASSUME JobInv, pc \in {"reviews", "flush"}
                 PROVE  /\ Ids(Buffered) \cap Ids(vectors) = {}
                        /\ Cardinality(Ids(Buffered)) = Len(buffer)
      BY DEF IdsAreFresh
    <2>1. NewIds /\ buffer \in Seq(Chunk)
      BY DEF JobInv, ReadInv, TypeOK
    <2>2. Len(buffer) \in Nat /\ DOMAIN buffer = 1..Len(buffer)
      BY <2>1, LenProperties
    <2> DEFINE l == Len(buffer)
               f == [i \in 1..l |-> IdOf(buffer[i])]
    <2> HIDE DEF l
    <2>3. f \in Surjection(1..l, Ids(Buffered))
      BY <2>2 DEF Surjection, Ids, Buffered, l
    <2>4. \A i, j \in 1..l : f[i] = f[j] => i = j
      BY <2>1, <2>2 DEF NewIds, l
    <2>5. f \in Injection(1..l, Ids(Buffered))
      <3> HIDE DEF f
      <3> QED BY <2>3, <2>4 DEF Injection, Surjection, IsInjective
    <2>6. IsFiniteSet(1..l) /\ Cardinality(1..l) = l
      <3>1. l \in Nat
        BY <2>2 DEF l
      <3> QED BY <3>1, FS_Interval
    <2>7. Cardinality(Ids(Buffered)) = l
      <3> HIDE DEF f
      <3> QED BY <2>3, <2>5, <2>6, FS_Surjection
    <2>8. Ids(Buffered) \cap Ids(vectors) = {}
      BY <2>1 DEF NewIds, Ids, Buffered
    <2> QED BY <2>7, <2>8 DEF l
  <1> QED BY JobInit, JobNext, <1>1, PTL DEF Spec

-----------------------------------------------------------------------------
(* The manifest.  When the passes are over, the stores hold of every changed*)
(* product what a complete ingestion stores.  A run that started without    *)
(* entries saves entries of these only.  One that started from the file     *)
(* keeps the others, which were true and, by Untouched, still are.          *)

LEMMA ChangedAreComplete ==
  ASSUME JobInv, pc = "save", NEW p \in changed
  PROVE  /\ p \in Products /\ products[p] = meta[p].hash
         /\ Stored(p) = Expected(p) /\ counts[p] = Cardinality(Expected(p))
  <1>1. /\ ReadTo(p) /\ buffer = <<>> /\ at > Len(Reviews) /\ at \in Nat
        /\ products[p] = meta[p].hash /\ p \in Products
    BY DEF JobInv, ReadInv, VisitInv, TypeOK
  <1>2. at - 1 \in Int /\ at - 1 >= Len(Reviews)
    BY <1>1, LinesType
  <1>3. ExpectedTo(p, at - 1) = Expected(p)
    BY <1>2, AllRead
  <1>4. BufferedOf(p) = {}
    BY <1>1 DEF BufferedOf, Buffered
  <1> QED BY <1>1, <1>3, <1>4 DEF ReadTo

\* "--force wipes both stores and the manifest and starts clean": a run that
\* started without entries leaves a manifest that is true of the stores.
THEOREM FreshRunsTellTheTruth == Spec => FreshRunIsTruthful
  <1>1. JobInv /\ [Next]_vars =>
          [pc = "save" /\ pc' = "idle" /\ crashes' = crashes /\ known = NoEntries =>
             ManifestTruthful']_vars
    <2> SUFFICES ASSUME JobInv, [Next]_vars, pc = "save", pc' = "idle", crashes' = crashes,
                        known = NoEntries
                 PROVE  ManifestTruthful'
      BY Zenon
    <2>1. Save
      BY SaveCovers DEF JobInv
    <2>2. UNCHANGED <<meta, products, vectors>>
      BY <2>1 DEF Save, Entries, outside, stores
    <2> SUFFICES ASSUME NEW p \in Products, UpToDate(p)'
                 PROVE  /\ products'[p] = meta'[p].hash /\ Stored(p)' = Expected(p)
                        /\ manifest'.entries[p].chunks = Cardinality(Expected(p))
      BY DEF ManifestTruthful
    <2>3. manifest'.entries[p] = IF p \in changed THEN [hash |-> meta[p].hash, chunks |-> counts[p]]
                                 ELSE [hash |-> 0, chunks |-> 0]
      BY <2>1 DEF Save, Entries, NoEntries
    <2>4. p \in changed
      BY <2>3 DEF UpToDate
    <2>5. /\ products[p] = meta[p].hash /\ Stored(p) = Expected(p)
          /\ counts[p] = Cardinality(Expected(p))
      BY <2>4, ChangedAreComplete
    <2>6. Stored(p)' = Stored(p)
      BY <2>2 DEF Stored
    <2> QED BY <2>2, <2>3, <2>4, <2>5, <2>6
  <1> QED BY JobInit, JobNext, <1>1, PTL DEF Spec, FreshRunIsTruthful

\* The invariant of an operator who never uses --force.
Truth ==
  /\ pc \notin {"wipe products", "wipe vectors"}
  /\ pc # "idle" => known = manifest.entries
  /\ \A p \in Products : manifest.entries[p].hash <= meta[p].hash
  /\ written =>
       /\ pc = "idle"
       /\ \A p \in Products :
            products[p] # 0 => products[p] = meta[p].hash /\ Stored(p) = Expected(p)
  /\ ManifestTruthful

LEMMA TruthInit == Init => Truth
  <1> SUFFICES ASSUME Init PROVE Truth
    OBVIOUS
  <1>1. \A p \in Products : manifest.entries[p].hash = 0
    BY DEF Init, NoEntries
  <1>2. \A p \in Products : meta[p].hash \in Nat
    BY TypeInit DEF TypeOK
  <1>3. \A p \in Products : manifest.entries[p].hash <= meta[p].hash
    BY <1>1, <1>2
  <1>4. ManifestTruthful
    BY <1>1 DEF ManifestTruthful, UpToDate
  <1> QED BY <1>3, <1>4 DEF Init, Truth

LEMMA SameTruth ==
  ASSUME ManifestTruthful, UNCHANGED <<manifest, meta>>,
         \A p \in Products : UpToDate(p) => products'[p] = products[p] /\ Stored(p)' = Stored(p)
  PROVE  ManifestTruthful'
  BY DEF ManifestTruthful, UpToDate

\* The step is not the start of a forced run.
NoForce == pc' # "wipe products"

LEMMA TruthNext ==
  ASSUME JobInv, Truth, [Next]_vars, NoForce
  PROVE  Truth'
  <1> USE DEF outside, stores, passThree
  <1>1. vectors' = vectors => \A p : Stored(p)' = Stored(p)
    BY DEF Stored
  <1>2. ASSUME UNCHANGED <<manifest, meta, written, known>>, pc # "idle",
               pc' \notin {"wipe products", "wipe vectors"}
        PROVE  Truth'
    <2>1. ~written /\ known = manifest.entries
      BY <1>2 DEF Truth
    <2>2. ManifestTruthful'
      BY <1>2, <2>1, SameTruth, Untouched DEF JobInv, Truth
    <2> QED BY <1>2, <2>1, <2>2 DEF Truth
  <1>3. ASSUME NEW mode \in Modes, NEW limit \in Limits, Start(mode, limit) PROVE Truth'
    <2>1. pc' = "products" /\ known' = manifest.entries /\ ~written'
          /\ UNCHANGED <<meta, products, vectors, manifest>>
      BY <1>3 DEF Start, NoForce
    <2>2. ManifestTruthful'
      BY <1>1, <2>1, SameTruth DEF Truth
    <2> QED BY <2>1, <2>2 DEF Truth
  <1>4. ASSUME WipeProducts \/ WipeVectors PROVE FALSE
    BY <1>4 DEF WipeProducts, WipeVectors, Truth
  <1>5. ASSUME NEW p \in Products, VisitProduct(p) PROVE Truth'
    BY <1>2, <1>5 DEF VisitProduct
  <1>6. ASSUME NEW p \in Products, DeleteChunks(p) PROVE Truth'
    BY <1>2, <1>6 DEF DeleteChunks
  <1>7. ASSUME NEW p \in Products, Edit(p) PROVE Truth'
    <2>1. /\ pc = "idle" /\ pc' = "idle" /\ ~written'
          /\ UNCHANGED <<products, vectors, manifest, known>>
      BY <1>7 DEF Edit
    <2>2. PICK usable : meta' = [meta EXCEPT ![p] = [hash |-> @.hash + 1, usable |-> usable]]
      BY <1>7 DEF Edit
    <2>3. \A q \in Products : meta[q].hash \in Nat /\ manifest.entries[q].hash \in Nat
      BY DEF JobInv, TypeOK, Entry
    <2>4. meta'[p].hash = meta[p].hash + 1 /\ \A q \in Products : q # p => meta'[q] = meta[q]
      BY <2>2 DEF JobInv, TypeOK
    <2>5. \A q \in Products : manifest.entries[q].hash <= meta[q].hash
      BY DEF Truth
    <2>6. manifest.entries[p].hash <= meta'[p].hash /\ manifest.entries[p].hash # meta'[p].hash
      <3> DEFINE a == manifest.entries[p].hash
                 b == meta[p].hash
      <3>1. a \in Nat /\ b \in Nat /\ a <= b
        BY <2>3, <2>5
      <3> HIDE DEF a, b
      <3>2. a <= b + 1 /\ a # b + 1
        BY <3>1
      <3> QED BY <2>4, <3>2 DEF a, b
    <2>7. \A q \in Products : manifest'.entries[q].hash <= meta'[q].hash
      BY <2>1, <2>4, <2>5, <2>6
    <2>8. ManifestTruthful'
      <3> SUFFICES ASSUME NEW q \in Products, UpToDate(q)', meta'[q].usable
                   PROVE  /\ products'[q] = meta'[q].hash /\ Stored(q)' = Expected(q)
                          /\ manifest'.entries[q].chunks = Cardinality(Expected(q))
        BY DEF ManifestTruthful
      <3>1. q # p
        BY <2>1, <2>6 DEF UpToDate
      <3>2. UpToDate(q) /\ meta[q].usable
        BY <2>1, <2>4, <3>1 DEF UpToDate
      <3>3. /\ products[q] = meta[q].hash /\ Stored(q) = Expected(q)
            /\ manifest.entries[q].chunks = Cardinality(Expected(q))
        BY <3>2 DEF Truth, ManifestTruthful
      <3> QED BY <1>1, <2>1, <2>4, <3>1, <3>3
    <2> QED BY <2>1, <2>7, <2>8 DEF Truth
  <1>8. CASE EndProducts
    BY <1>2, <1>8 DEF EndProducts
  <1>9. CASE EndDelete
    BY <1>2, <1>9 DEF EndDelete
  <1>10. CASE KeepReview
    <2>1. pc = "reviews" /\ pc' \in {"reviews", "flush"}
          /\ UNCHANGED <<manifest, meta, written, known>>
      BY <1>10 DEF KeepReview
    <2> QED BY <1>2, <2>1
  <1>11. ASSUME SkipReview \/ EndReviews \/ StoreBatch PROVE Truth'
    BY <1>2, <1>11 DEF SkipReview, EndReviews, StoreBatch
  <1>12. CASE EndFlush
    <2>1. pc = "flush" /\ pc' \in {"reviews", "save"}
          /\ UNCHANGED <<manifest, meta, written, known>>
      BY <1>12 DEF EndFlush
    <2> QED BY <1>2, <2>1
  <1>13. CASE Save
    <2>1. /\ pc = "save" /\ pc' = "idle" /\ known = manifest.entries /\ ~written'
          /\ UNCHANGED <<meta, products, vectors, known>>
      BY <1>13 DEF Save, Entries, Truth
    <2>2. ASSUME NEW p \in Products
          PROVE  /\ p \in changed => /\ manifest'.entries[p].hash = meta[p].hash
                                     /\ manifest'.entries[p].chunks = counts[p]
                 /\ p \notin changed => manifest'.entries[p] = manifest.entries[p]
      <3>1. manifest'.entries[p] = IF p \in changed
                                   THEN [hash |-> meta[p].hash, chunks |-> counts[p]]
                                   ELSE manifest.entries[p]
        BY <1>13, <2>1 DEF Save, Entries
      <3>2. CASE p \in changed
        BY <3>1, <3>2
      <3>3. CASE p \notin changed
        BY <3>1, <3>3
      <3> QED BY <3>2, <3>3
    <2>3. \A p \in Products : manifest'.entries[p].hash <= meta'[p].hash
      <3>1. \A p \in Products : meta[p].hash \in Nat
        BY DEF JobInv, TypeOK
      <3>2. \A p \in Products : meta[p].hash <= meta[p].hash
        BY <3>1
      <3> QED BY <2>1, <2>2, <3>2 DEF Truth
    <2>4. ManifestTruthful'
      <3> SUFFICES ASSUME NEW p \in Products, UpToDate(p)', meta'[p].usable
                   PROVE  /\ products'[p] = meta'[p].hash /\ Stored(p)' = Expected(p)
                          /\ manifest'.entries[p].chunks = Cardinality(Expected(p))
        BY DEF ManifestTruthful
      <3>1. CASE p \in changed
        <4>1. manifest'.entries[p].chunks = counts[p]
          BY <2>2, <3>1
        <4> QED BY <1>1, <2>1, <3>1, <4>1, ChangedAreComplete
      <3>2. CASE p \notin changed
        <4>1. UpToDate(p) /\ meta[p].usable /\ manifest'.entries[p] = manifest.entries[p]
          BY <2>1, <2>2, <3>2 DEF UpToDate
        <4>2. /\ products[p] = meta[p].hash /\ Stored(p) = Expected(p)
              /\ manifest.entries[p].chunks = Cardinality(Expected(p))
          BY <4>1 DEF Truth, ManifestTruthful
        <4> QED BY <1>1, <2>1, <4>1, <4>2
      <3> QED BY <3>1, <3>2
    <2> QED BY <2>1, <2>3, <2>4 DEF Truth
  <1>14. CASE Crash
    <2>1. /\ pc' = "idle" /\ UNCHANGED <<meta, products, vectors, manifest, known>>
          /\ written' => pc = "save" /\ \A p \in Products : products[p] # 0 => p \in changed
      BY <1>14 DEF Crash
    <2>2. written' => \A p \in Products :
            products'[p] # 0 => products'[p] = meta'[p].hash /\ Stored(p)' = Expected(p)
      BY <1>1, <2>1, ChangedAreComplete
    <2>3. ManifestTruthful'
      BY <1>1, <2>1, SameTruth DEF Truth
    <2> QED BY <2>1, <2>2, <2>3 DEF Truth
  <1>15. CASE Recover
    <2>1. /\ written /\ pc = "idle" /\ pc' = "idle"
          /\ UNCHANGED <<meta, products, vectors, written, known>>
      BY <1>15 DEF Recover
    <2>2. ASSUME NEW p \in Products
          PROVE  /\ products[p] # 0 =>
                      /\ manifest'.entries[p].hash = meta[p].hash
                      /\ manifest'.entries[p].chunks = Cardinality(Stored(p))
                 /\ products[p] = 0 => manifest'.entries[p].hash = 0
      <3>1. manifest'.entries[p] = IF products[p] # 0
              THEN [hash |-> meta[p].hash, chunks |-> Cardinality(Stored(p))]
              ELSE [hash |-> 0, chunks |-> 0]
        BY <1>15 DEF Recover
      <3>2. CASE products[p] # 0
        BY <3>1, <3>2
      <3>3. CASE products[p] = 0
        BY <3>1, <3>3
      <3> QED BY <3>2, <3>3
    <2>3. \A p \in Products : products[p] # 0 =>
            products[p] = meta[p].hash /\ Stored(p) = Expected(p)
      BY <2>1 DEF Truth
    <2>4. \A p \in Products : manifest'.entries[p].hash <= meta'[p].hash
      <3>1. \A p \in Products : meta[p].hash \in Nat
        BY DEF JobInv, TypeOK
      <3>2. \A p \in Products : meta[p].hash <= meta[p].hash /\ 0 <= meta[p].hash
        BY <3>1
      <3> QED BY <2>1, <2>2, <3>2
    <2>5. ManifestTruthful'
      <3> SUFFICES ASSUME NEW p \in Products, UpToDate(p)'
                   PROVE  /\ products'[p] = meta'[p].hash /\ Stored(p)' = Expected(p)
                          /\ manifest'.entries[p].chunks = Cardinality(Expected(p))
        BY DEF ManifestTruthful
      <3>1. products[p] # 0
        BY <2>2 DEF UpToDate
      <3>2. manifest'.entries[p].chunks = Cardinality(Stored(p))
        BY <2>2, <3>1
      <3> QED BY <1>1, <2>1, <2>3, <3>1, <3>2
    <2> QED BY <1>1, <2>1, <2>3, <2>4, <2>5 DEF Truth
  <1>16. CASE UNCHANGED vars
    <2>1. UNCHANGED <<meta, products, vectors, manifest, known, written, pc>>
      BY <1>16 DEF vars
    <2>2. ManifestTruthful'
      BY <1>1, <2>1, SameTruth DEF Truth
    <2> QED BY <1>1, <2>1, <2>2 DEF Truth
  <1> QED BY <1>3, <1>4, <1>5, <1>6, <1>7, <1>8, <1>9, <1>10, <1>11, <1>12, <1>13, <1>14,
             <1>15, <1>16 DEF Next

\* An operator who never uses --force: what the manifest has up to date is up to
\* date, its document and its chunks, wherever runs died, however the dataset
\* changed between them and whenever the recovery script was used.
THEOREM CarefulRunsTellTheTruth == OperatorSpec => []CarefulManifestTruthful
  <1> DEFINE Inv == JobInv /\ (careful => Truth)
  <1>1. OperatorInit => Inv
    BY JobInit, TruthInit DEF OperatorInit
  <1>2. Inv /\ [OperatorNext]_<<vars, careful>> => Inv'
    <2> SUFFICES ASSUME JobInv, careful => Truth, [OperatorNext]_<<vars, careful>>
                 PROVE  JobInv' /\ (careful' => Truth')
      OBVIOUS
    <2>1. [Next]_vars /\ careful' = careful
      BY DEF OperatorNext
    <2>2. JobInv'
      BY <2>1, JobNext
    <2>3. ASSUME careful PROVE Truth'
      <3>1. Truth
        BY <2>3
      <3>2. NoForce
        BY <2>3, <3>1 DEF OperatorNext, NoForce, Truth, vars
      <3> QED BY <2>1, <3>1, <3>2, TruthNext
    <2> QED BY <2>1, <2>2, <2>3
  <1>3. Inv => CarefulManifestTruthful
    BY DEF Truth, CarefulManifestTruthful
  <1> QED BY <1>1, <1>2, <1>3, PTL DEF OperatorSpec

=============================================================================
