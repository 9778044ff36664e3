----------------------------- MODULE IngestProofs -----------------------------
(***************************************************************************)
(* Theorems about Ingest, for any dataset, limits and sizes that satisfy   *)
(* the module's assumptions.                                               *)
(***************************************************************************)
EXTENDS Ingest, SequenceTheorems, FiniteSetTheorems, TLAPS

LEMMA TypeInit == Init => TypeOK
  <1> SUFFICES ASSUME Init PROVE TypeOK
    OBVIOUS
  <1>1. NoEntries \in [Products -> Entry]
    BY DEF NoEntries, Entry
  <1>2. buffer \in Seq(Chunk)
    BY EmptySeq DEF Init
  <1>3. meta \in [Products -> [hash : Nat, usable : BOOLEAN]]
    <2>1. meta \in [Products -> [hash : {0, 1}, usable : {TRUE}]]
      BY DEF Init
    <2>2. {0, 1} \subseteq Nat /\ {TRUE} \subseteq BOOLEAN
      OBVIOUS
    <2>3. [hash : {0, 1}, usable : {TRUE}] \subseteq [hash : Nat, usable : BOOLEAN]
      BY <2>2, Zenon
    <2> QED BY <2>1, <2>3
  <1>4. manifest \in [exists : BOOLEAN, entries : [Products -> Entry]]
    BY <1>1 DEF Init
  <1>5. vectors \subseteq Chunk /\ IsFiniteSet(vectors)
    BY FS_EmptySet DEF Init
  <1>6. /\ pc = "idle" /\ known = NoEntries /\ at = 1 /\ crashes = 0
        /\ written = FALSE /\ chosen = {} /\ todo = {} /\ changed = {}
    BY DEF Init
  <1>7. /\ products \in [Products -> Nat] /\ seen \in [Products -> SUBSET Texts]
        /\ nextReview \in [Products -> Nat] /\ counts \in [Products -> Nat]
    BY DEF Init
  <1>8. /\ known \in [Products -> Entry] /\ at \in Nat \ {0} /\ crashes \in Nat
        /\ chosen \subseteq Products /\ todo \subseteq chosen /\ changed \subseteq chosen
    BY <1>1, <1>6
  <1>9. /\ written \in BOOLEAN
        /\ pc \in {"idle", "wipe products", "wipe vectors", "products", "delete", "reviews",
                   "flush", "save"}
    BY <1>6, Zenon
  <1> QED BY <1>2, <1>3, <1>4, <1>5, <1>7, <1>8, <1>9, Zenon DEF TypeOK

\* The chunks of a kept review are chunks.
LEMMA ChunksAtType ==
  ASSUME TypeOK, at <= Len(Reviews)
  PROVE  /\ Reviews[at] \in [product : Products, text : Texts]
         /\ ChunksOf[Reviews[at].text] \in Nat
         /\ ChunksAt(at) \in Seq(Chunk)
         /\ Len(ChunksAt(at)) = ChunksOf[Reviews[at].text]
         /\ \A i \in 1..Len(ChunksAt(at)) : ChunksAt(at)[i].product = Reviews[at].product
  <1>1. at \in 1..Len(Reviews)
    <2>1. Len(Reviews) \in Nat
      BY LenProperties, DatasetAssumption
    <2>2. at \in Nat \ {0}
      BY DEF TypeOK
    <2> QED BY <2>1, <2>2
  <1>2. Reviews[at] \in [product : Products, text : Texts]
    BY <1>1, ElementOfSeq, DatasetAssumption
  <1> DEFINE n == ChunksOf[Reviews[at].text]
             p == Reviews[at].product
  <1>3. n \in Nat /\ p \in Products /\ nextReview[p] \in Nat
    BY <1>2, DatasetAssumption DEF TypeOK
  <1>4. \A c \in 1..n :
          [product |-> p, review |-> nextReview[p], chunk |-> c - 1, text |-> Reviews[at].text]
            \in Chunk
    <2>1. \A c \in 1..n : c - 1 \in Nat
      BY <1>3
    <2> QED BY <1>2, <1>3, <2>1 DEF Chunk
  <1>5. ChunksAt(at) \in [1..n -> Chunk]
    BY <1>4 DEF ChunksAt
  <1>6. ChunksAt(at) \in Seq(Chunk)
    BY <1>3, <1>5
  <1>7. DOMAIN ChunksAt(at) = 1..n
    BY DEF ChunksAt
  <1>8. Len(ChunksAt(at)) = n
    BY <1>3, <1>6, <1>7, LenProperties
  <1>9. \A i \in 1..n : ChunksAt(at)[i].product = p
    BY DEF ChunksAt
  <1> QED BY <1>2, <1>3, <1>6, <1>8, <1>9

\* The first chunks of the buffer, and what is left of it.
LEMMA BatchType ==
  ASSUME TypeOK, buffer # <<>>
  PROVE  LET n == IF Len(buffer) < AddBatch THEN Len(buffer) ELSE AddBatch IN
         /\ n \in 1..Len(buffer)
         /\ {buffer[i] : i \in 1..n} \subseteq Chunk
         /\ IsFiniteSet({buffer[i] : i \in 1..n})
         /\ SubSeq(buffer, n + 1, Len(buffer)) \in Seq(Chunk)
         /\ \A i \in 1..Len(SubSeq(buffer, n + 1, Len(buffer))) :
              \E j \in 1..Len(buffer) : SubSeq(buffer, n + 1, Len(buffer))[i] = buffer[j]
  <1> DEFINE l == Len(buffer)
             n == IF l < AddBatch THEN l ELSE AddBatch
             w == SubSeq(buffer, n + 1, l)
  <1>1. l \in Nat /\ l >= 1 /\ AddBatch \in Nat \ {0}
    <2>1. buffer \in Seq(Chunk)
      BY DEF TypeOK
    <2>2. l \in Nat
      BY <2>1, LenProperties
    <2>3. l # 0
      BY <2>1, EmptySeq
    <2>4. AddBatch \in Nat \ {0}
      BY SizesAssumption
    <2> HIDE DEF l
    <2> QED BY <2>2, <2>3, <2>4
  <1>2. \A i \in 1..l : buffer[i] \in Chunk
    BY ElementOfSeq DEF TypeOK
  <1>3. n \in 1..l /\ n + 1 \in Int
    <2> HIDE DEF l
    <2> QED BY <1>1
  <1>4. \A i \in n + 1..l : buffer[i] \in Chunk
    <2> HIDE DEF l
    <2> QED BY <1>1, <1>2, <1>3
  <1>5. /\ w \in Seq(Chunk)
        /\ Len(w) = IF n + 1 <= l THEN l - (n + 1) + 1 ELSE 0
        /\ \A i \in 1..l - (n + 1) + 1 : w[i] = buffer[(n + 1) + i - 1]
    <2> HIDE DEF n
    <2> QED BY <1>1, <1>3, <1>4, SubSeqProperties
  <1>6. ASSUME NEW i \in 1..Len(w) PROVE \E j \in 1..l : w[i] = buffer[j]
    <2> HIDE DEF n, w, l
    <2>1. i \in 1..l - (n + 1) + 1 /\ (n + 1) + i - 1 \in 1..l
      BY <1>1, <1>3, <1>5
    <2> QED BY <1>5, <2>1
  <1>7. {buffer[i] : i \in 1..n} \subseteq Chunk
    <2> HIDE DEF n
    <2> QED BY <1>1, <1>2, <1>3
  <1>8. IsFiniteSet({buffer[i] : i \in 1..n})
    <2> HIDE DEF n
    <2> DEFINE T == {buffer[i] : i \in 1..n}
               f == [i \in 1..n |-> buffer[i]]
    <2>1. f \in Surjection(1..n, T)
      BY DEF Surjection
    <2>2. IsFiniteSet(1..n)
      BY <1>3, FS_Interval
    <2> QED BY <2>1, <2>2, FS_Surjection
  <1> QED BY <1>3, <1>5, <1>6, <1>7, <1>8

LEMMA SelectedProducts == \A limit : Selected(limit) \subseteq Products
  BY DEF Selected

LEMMA TypeNext == TypeOK /\ [Next]_vars => TypeOK'
  <1> SUFFICES ASSUME TypeOK, [Next]_vars PROVE TypeOK'
    OBVIOUS
  <1> USE DEF outside, stores, passThree
  <1>1. ASSUME NEW mode \in Modes, NEW limit \in Limits, Start(mode, limit) PROVE TypeOK'
    <2>1. NoEntries \in [Products -> Entry] /\ manifest.entries \in [Products -> Entry]
      BY DEF NoEntries, Entry, TypeOK
    <2>2. known' \in [Products -> Entry]
      BY <1>1, <2>1 DEF Start
    <2> QED BY <1>1, <2>2, SelectedProducts DEF Start, TypeOK
  <1>2. CASE WipeProducts
    BY <1>2 DEF WipeProducts, TypeOK
  <1>3. CASE WipeVectors
    BY <1>3, FS_EmptySet DEF WipeVectors, TypeOK
  <1>4. ASSUME NEW p \in Products, VisitProduct(p) PROVE TypeOK'
    BY <1>4 DEF VisitProduct, TypeOK
  <1>5. ASSUME NEW p \in Products, DeleteChunks(p) PROVE TypeOK'
    <2>1. vectors' \subseteq Chunk /\ IsFiniteSet(vectors')
      BY <1>5, FS_Difference DEF DeleteChunks, TypeOK
    <2> QED BY <1>5, <2>1 DEF DeleteChunks, TypeOK
  <1>6. ASSUME NEW p \in Products, Edit(p) PROVE TypeOK'
    <2>1. PICK usable \in BOOLEAN : meta' = [meta EXCEPT ![p] = [hash |-> @.hash + 1, usable |-> usable]]
      BY <1>6 DEF Edit
    <2>2. meta' \in [Products -> [hash : Nat, usable : BOOLEAN]]
      <3> DEFINE R == [hash : Nat, usable : BOOLEAN]
                 new == [hash |-> meta[p].hash + 1, usable |-> usable]
      <3>1. meta \in [Products -> R]
        BY DEF TypeOK
      <3>2. meta[p].hash \in Nat
        BY <3>1
      <3>3. meta[p].hash + 1 \in Nat
        BY <3>2
      <3>4. new \in R
        BY <3>3, Zenon
      <3>5. meta' = [meta EXCEPT ![p] = new]
        BY <2>1, Zenon
      <3> HIDE DEF R, new
      <3> QED BY <3>1, <3>4, <3>5 DEF R
    <2> QED BY <1>6, <2>2 DEF Edit, TypeOK
  <1>7. CASE EndProducts
    BY <1>7 DEF EndProducts, TypeOK
  <1>8. CASE EndDelete
    BY <1>8, EmptySeq DEF EndDelete, TypeOK
  <1>9. CASE KeepReview
    <2> DEFINE p == Reviews[at].product
    <2>1. at <= Len(Reviews)
      BY <1>9 DEF KeepReview
    <2>2. /\ p \in Products /\ Reviews[at].text \in Texts /\ ChunksOf[Reviews[at].text] \in Nat
          /\ ChunksAt(at) \in Seq(Chunk)
      BY <2>1, ChunksAtType
    <2>3. buffer' \in Seq(Chunk)
      <3>1. buffer' = buffer \o ChunksAt(at)
        BY <1>9 DEF KeepReview
      <3> QED BY <2>2, <3>1, ConcatProperties DEF TypeOK
    <2>4. /\ seen' \in [Products -> SUBSET Texts]
          /\ nextReview' \in [Products -> Nat]
          /\ counts' \in [Products -> Nat]
      <3> DEFINE t == Reviews[at].text
      <3>1. /\ seen' = [seen EXCEPT ![p] = @ \cup {t}]
            /\ nextReview' = [nextReview EXCEPT ![p] = @ + 1]
            /\ counts' = [counts EXCEPT ![p] = @ + ChunksOf[t]]
        BY <1>9 DEF KeepReview
      <3>2. /\ seen \in [Products -> SUBSET Texts] /\ nextReview \in [Products -> Nat]
            /\ counts \in [Products -> Nat] /\ p \in Products /\ t \in Texts
            /\ ChunksOf[t] \in Nat
        BY <2>2 DEF TypeOK
      <3> HIDE DEF p, t
      <3>3. /\ nextReview[p] + 1 \in Nat /\ counts[p] + ChunksOf[t] \in Nat
            /\ seen[p] \cup {t} \in SUBSET Texts
        BY <3>2
      <3> QED BY <3>1, <3>2, <3>3
    <2>5. at' \in Nat \ {0} /\ pc' \in {"reviews", "flush"}
      BY <1>9 DEF KeepReview, TypeOK
    <2> QED BY <1>9, <2>3, <2>4, <2>5 DEF KeepReview, TypeOK
  <1>10. CASE SkipReview
    BY <1>10 DEF SkipReview, TypeOK
  <1>11. CASE EndReviews
    BY <1>11 DEF EndReviews, TypeOK
  <1>12. CASE StoreBatch
    <2>1. buffer # <<>>
      BY <1>12 DEF StoreBatch
    <2> DEFINE n == IF Len(buffer) < AddBatch THEN Len(buffer) ELSE AddBatch
               B == {buffer[i] : i \in 1..n}
    <2>2. B \subseteq Chunk /\ IsFiniteSet(B) /\ SubSeq(buffer, n + 1, Len(buffer)) \in Seq(Chunk)
      BY <2>1, BatchType
    <2>3. vectors' = AddBatchOf(n) /\ buffer' = SubSeq(buffer, n + 1, Len(buffer))
      BY <1>12 DEF StoreBatch
    <2>4. buffer' \in Seq(Chunk)
      BY <2>2, <2>3
    <2> HIDE DEF n
    <2>5. vectors' \subseteq Chunk /\ IsFiniteSet(vectors')
      <3> DEFINE D == {c \in B : IdOf(c) \notin Ids(vectors)}
      <3>1. vectors' = vectors \cup D
        BY <2>3 DEF AddBatchOf
      <3>2. D \subseteq B /\ D \in SUBSET B
        OBVIOUS
      <3>3. IsFiniteSet(D) /\ D \subseteq Chunk
        BY <2>2, <3>2, FS_Subset
      <3> HIDE DEF D
      <3> QED BY <3>1, <3>3, FS_Union DEF TypeOK
    <2> QED BY <1>12, <2>4, <2>5 DEF StoreBatch, TypeOK
  <1>13. CASE EndFlush
    BY <1>13 DEF EndFlush, TypeOK
  <1>14. CASE Save
    <2>1. manifest' \in [exists : BOOLEAN, entries : [Products -> Entry]]
      BY <1>14 DEF Save, Entries, TypeOK, Entry
    <2> QED BY <1>14, <2>1 DEF Save, Entries, TypeOK
  <1>15. CASE Crash
    <2>1. crashes' \in Nat
      <3>1. crashes \in Nat
        BY Zenon DEF TypeOK
      <3>2. crashes' = crashes + 1
        BY <1>15, Zenon DEF Crash
      <3> QED BY <3>1, <3>2
    <2>2. written' \in BOOLEAN /\ pc' = "idle"
      BY <1>15, Zenon DEF Crash
    <2> QED BY <1>15, <2>1, <2>2 DEF Crash, TypeOK
  <1>16. CASE Recover
    <2>1. \A p \in Products : Cardinality(Stored(p)) \in Nat
      <3> SUFFICES ASSUME NEW p \in Products PROVE Cardinality(Stored(p)) \in Nat
        OBVIOUS
      <3>1. Stored(p) \in SUBSET vectors
        BY DEF Stored
      <3> QED BY <3>1, FS_Subset, FS_CardinalityType DEF TypeOK
    <2> QED BY <1>16, <2>1 DEF Recover, TypeOK, Entry
  <1>17. CASE UNCHANGED vars
    BY <1>17 DEF vars, TypeOK
  <1> QED BY <1>1, <1>2, <1>3, <1>4, <1>5, <1>6, <1>7, <1>8, <1>9, <1>10, <1>11, <1>12,
             <1>13, <1>14, <1>15, <1>16, <1>17 DEF Next

\* Every variable keeps values of its kind.
THEOREM TypeCorrect == Spec => []TypeOK
  BY TypeInit, TypeNext, PTL DEF Spec

-----------------------------------------------------------------------------
(* Only what changed is touched.  A run that wipes knows nothing.  One that *)
(* started from the manifest file writes the stores for the members of      *)
(* changed only: pass 2 upserts them as it adds them, the delete loop visits*)
(* them, and pass 3 buffers chunks of them.  None of them is up to date:    *)
(* neither the file nor the dataset changes until the run saves.            *)

TouchInv ==
  /\ pc \in {"wipe products", "wipe vectors"} => known = NoEntries
  /\ pc # "idle" /\ known = manifest.entries =>
       \A p \in changed : manifest.entries[p].hash # meta[p].hash
  /\ pc = "delete" => todo \subseteq changed
  /\ pc \in {"reviews", "flush"} => \A c \in Buffered : c.product \in changed

LEMMA TouchInit == Init => TouchInv
  BY DEF Init, TouchInv

\* What the buffer holds after a review is kept, and after a batch is stored.
LEMMA BufferedKept ==
  ASSUME TypeOK, KeepReview, NEW c \in Buffered'
  PROVE  c \in Buffered \/ c.product \in changed
  <1>1. at <= Len(Reviews) /\ Reviews[at].product \in changed /\ buffer' = buffer \o ChunksAt(at)
    BY DEF KeepReview, Keeps
  <1>2. buffer \in Seq(Chunk)
    BY DEF TypeOK
  <1> DEFINE w == ChunksAt(at)
             l == Len(buffer)
             p == Reviews[at].product
  <1>3. w \in Seq(Chunk) /\ \A i \in 1..Len(w) : w[i].product = p
    BY <1>1, ChunksAtType
  <1> HIDE DEF w, p
  <1>4. /\ Len(buffer') = l + Len(w)
        /\ \A i \in 1..l + Len(w) : buffer'[i] = IF i <= l THEN buffer[i] ELSE w[i - l]
        /\ buffer' \in Seq(Chunk)
    BY <1>1, <1>2, <1>3, ConcatProperties DEF w
  <1>5. l \in Nat /\ Len(w) \in Nat /\ DOMAIN buffer = 1..l
    BY <1>2, <1>3, LenProperties
  <1>6. DOMAIN buffer' = 1..l + Len(w)
    BY <1>4, LenProperties
  <1>7. PICK i \in 1..l + Len(w) : c = buffer'[i]
    BY <1>6 DEF Buffered
  <1> HIDE DEF l
  <1>8. CASE i <= l
    <2>1. c = buffer[i] /\ i \in 1..l
      BY <1>4, <1>5, <1>7, <1>8
    <2> QED BY <1>5, <2>1 DEF Buffered
  <1>9. CASE ~(i <= l)
    <2>1. c = w[i - l] /\ i - l \in 1..Len(w)
      BY <1>4, <1>5, <1>7, <1>9
    <2>2. p \in changed
      BY <1>1 DEF p
    <2> QED BY <1>3, <2>1, <2>2
  <1> QED BY <1>8, <1>9

LEMMA BufferedStored ==
  ASSUME TypeOK, StoreBatch
  PROVE  /\ Buffered' \subseteq Buffered
         /\ \E B \in SUBSET Buffered : vectors' = vectors \cup B
  <1>1. buffer # <<>> /\ buffer \in Seq(Chunk)
    BY DEF StoreBatch, TypeOK
  <1> DEFINE n == IF Len(buffer) < AddBatch THEN Len(buffer) ELSE AddBatch
             w == SubSeq(buffer, n + 1, Len(buffer))
  <1>2. buffer' = w /\ vectors' = AddBatchOf(n)
    BY DEF StoreBatch
  <1>3. /\ n \in 1..Len(buffer) /\ w \in Seq(Chunk)
        /\ \A i \in 1..Len(w) : \E j \in 1..Len(buffer) : w[i] = buffer[j]
    BY <1>1, BatchType
  <1> HIDE DEF n, w
  <1>4. DOMAIN buffer = 1..Len(buffer) /\ DOMAIN w = 1..Len(w) /\ Len(buffer) \in Nat
    BY <1>1, <1>3, LenProperties
  <1>5. Buffered' \subseteq Buffered
    BY <1>2, <1>3, <1>4 DEF Buffered
  <1>6. {buffer[i] : i \in 1..n} \subseteq Buffered
    <2>1. 1..n \subseteq DOMAIN buffer
      BY <1>3, <1>4
    <2> QED BY <2>1 DEF Buffered
  <1> DEFINE B == {c \in {buffer[i] : i \in 1..n} : IdOf(c) \notin Ids(vectors)}
  <1>7. B \in SUBSET Buffered
    BY <1>6
  <1>8. vectors' = vectors \cup B
    BY <1>2 DEF AddBatchOf
  <1> QED BY <1>5, <1>7, <1>8

LEMMA TouchNext ==
  ASSUME TypeOK, TouchInv, [Next]_vars
  PROVE  TouchInv'
  <1> USE DEF outside, stores, passThree
  <1>1. ASSUME NEW mode \in Modes, NEW limit \in Limits, Start(mode, limit) PROVE TouchInv'
    BY <1>1 DEF Start, TouchInv
  <1>2. CASE WipeProducts
    BY <1>2 DEF WipeProducts, TouchInv
  <1>3. CASE WipeVectors
    BY <1>3 DEF WipeVectors, TouchInv
  <1>4. ASSUME NEW p \in Products, VisitProduct(p) PROVE TouchInv'
    BY <1>4 DEF VisitProduct, Upserts, TouchInv
  <1>5. ASSUME NEW p \in Products, DeleteChunks(p) PROVE TouchInv'
    BY <1>5 DEF DeleteChunks, TouchInv
  <1>6. ASSUME NEW p \in Products, Edit(p) PROVE TouchInv'
    BY <1>6 DEF Edit, TouchInv
  <1>7. CASE EndProducts
    BY <1>7 DEF EndProducts, TouchInv
  <1>8. CASE EndDelete
    BY <1>8 DEF EndDelete, TouchInv, Buffered
  <1>9. CASE KeepReview
    <2>1. \A c \in Buffered' : c.product \in changed
      BY <1>9, BufferedKept DEF KeepReview, TouchInv
    <2>2. pc = "reviews" /\ pc' \in {"reviews", "flush"}
      BY <1>9 DEF KeepReview
    <2> QED BY <1>9, <2>1, <2>2 DEF KeepReview, TouchInv
  <1>10. CASE SkipReview
    BY <1>10 DEF SkipReview, TouchInv, Buffered
  <1>11. CASE EndReviews
    BY <1>11 DEF EndReviews, TouchInv, Buffered
  <1>12. CASE StoreBatch
    <2>1. Buffered' \subseteq Buffered
      BY <1>12, BufferedStored
    <2> QED BY <1>12, <2>1 DEF StoreBatch, TouchInv
  <1>13. CASE EndFlush
    BY <1>13 DEF EndFlush, TouchInv, Buffered
  <1>14. CASE Save
    BY <1>14 DEF Save, Entries, TouchInv
  <1>15. CASE Crash
    BY <1>15 DEF Crash, TouchInv
  <1>16. CASE Recover
    BY <1>16 DEF Recover, TouchInv
  <1>17. CASE UNCHANGED vars
    BY <1>17 DEF vars, TouchInv, Buffered
  <1> QED BY <1>1, <1>2, <1>3, <1>4, <1>5, <1>6, <1>7, <1>8, <1>9, <1>10, <1>11, <1>12,
             <1>13, <1>14, <1>15, <1>16, <1>17 DEF Next

\* A step of Next leaves what is up to date as it is.
LEMMA Untouched ==
  ASSUME TypeOK, TouchInv, [Next]_vars, known = manifest.entries, NEW p \in Products, UpToDate(p)
  PROVE  products'[p] = products[p] /\ Stored(p)' = Stored(p)
  <1> USE DEF outside, stores, passThree
  <1>1. pc # "idle" => p \notin changed /\ ~(known[p].hash # meta[p].hash)
    BY DEF UpToDate, TouchInv
  <1>2. ASSUME NEW mode \in Modes, NEW limit \in Limits, Start(mode, limit)
        PROVE  UNCHANGED stores
    BY <1>2 DEF Start
  <1>3. CASE WipeProducts \/ WipeVectors
    <2>1. known = NoEntries
      BY <1>3 DEF WipeProducts, WipeVectors, TouchInv
    <2> QED BY <2>1 DEF UpToDate, NoEntries
  <1>4. ASSUME NEW q \in Products, VisitProduct(q)
        PROVE  products'[p] = products[p] /\ vectors' = vectors
    <2>1. pc = "products" /\ vectors' = vectors
      BY <1>4 DEF VisitProduct
    <2>2. CASE Upserts(q)
      <3>1. q # p
        BY <1>1, <2>1, <2>2 DEF Upserts
      <3>2. products' = [products EXCEPT ![q] = meta[q].hash]
        BY <1>4, <2>2 DEF VisitProduct
      <3> QED BY <2>1, <3>1, <3>2 DEF TypeOK
    <2>3. CASE ~Upserts(q)
      BY <1>4, <2>1, <2>3 DEF VisitProduct
    <2> QED BY <2>2, <2>3
  <1>5. ASSUME NEW q \in Products, DeleteChunks(q)
        PROVE  products'[p] = products[p] /\ Stored(p)' = Stored(p)
    <2>1. q # p
      BY <1>1, <1>5 DEF DeleteChunks, TouchInv
    <2> QED BY <1>5, <2>1 DEF DeleteChunks, Stored
  <1>6. CASE StoreBatch
    <2>1. PICK B \in SUBSET Buffered : vectors' = vectors \cup B
      BY <1>6, BufferedStored
    <2>2. \A c \in B : c.product # p
      BY <1>1, <1>6, <2>1 DEF StoreBatch, TouchInv
    <2>3. Stored(p)' = Stored(p)
      BY <2>1, <2>2 DEF Stored
    <2> QED BY <1>6, <2>3 DEF StoreBatch
  <1>7. ASSUME NEW q \in Products, Edit(q) PROVE UNCHANGED stores
    BY <1>7 DEF Edit
  <1>8. ASSUME EndProducts \/ EndDelete \/ KeepReview \/ SkipReview \/ EndReviews \/ EndFlush
        PROVE  UNCHANGED stores
    BY <1>8 DEF EndProducts, EndDelete, KeepReview, SkipReview, EndReviews, EndFlush
  <1>9. ASSUME Save \/ Crash \/ Recover PROVE UNCHANGED stores
    BY <1>9 DEF Save, Entries, Crash, Recover
  <1>10. ASSUME UNCHANGED vars PROVE UNCHANGED stores
    BY <1>10 DEF vars
  <1> QED
    <2>1. ASSUME vectors' = vectors PROVE Stored(p)' = Stored(p)
      BY <2>1 DEF Stored
    <2> QED BY <1>2, <1>3, <1>4, <1>5, <1>6, <1>7, <1>8, <1>9, <1>10, <2>1 DEF Next, Stored

\* A run that started from the manifest file "only touches what actually
\* changed", whatever forced runs and deaths came before it: no step rewrites a
\* product that the file has up to date or a chunk of it.
THEOREM OnlyChanged == Spec => OnlyChangedTouched
  <1>1. TypeOK /\ TouchInv /\ [Next]_vars => TouchInv'
    BY TouchNext
  <1>2. TypeOK /\ TouchInv /\ [Next]_vars =>
          [known = manifest.entries =>
             \A p \in Products : UpToDate(p) =>
               products'[p] = products[p] /\ Stored(p)' = Stored(p)]_vars
    BY Untouched
  <1> QED BY TypeCorrect, TouchInit, <1>1, <1>2, PTL DEF Spec, OnlyChangedTouched

=============================================================================
