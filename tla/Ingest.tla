------------------------------- MODULE Ingest -------------------------------
(***************************************************************************)
(* The ingestion job of services/ecommerce_ingest.py: three passes over    *)
(* the dataset fill the products collection (MongoDB) and the review       *)
(* chunks (Chroma), and a manifest beside the index, saved at the very     *)
(* end, says which products are up to date.  Next to it: the repair script *)
(* that rebuilds a missing manifest.                                       *)
(*                                                                         *)
(* The job is sequential; what makes it hard is that it may die between    *)
(* any two writes and is then simply run again.                            *)
(***************************************************************************)
EXTENDS Integers, Sequences, FiniteSets

CONSTANTS
  Products,   \* parent_asins
  Reviews,    \* AMAZON_REVIEWS_PATH: a sequence of [product, text]
  ChunksOf,   \* chunks of a review text; 0 for one the filters drop
  Limits,     \* the values of --limit the operator uses
  Modes,      \* "plain", "force"
  Recovery,   \* whether the operator uses recover_ecommerce_manifest.py
  FlushEvery, \* _FLUSH_EVERY
  AddBatch,   \* CHROMA_ADD_BATCH
  MaxHash,    \* bound on the versions of a metadata line
  MaxCrashes  \* bound on the deaths of the job

Texts == DOMAIN ChunksOf

ASSUME DatasetAssumption ==
  /\ IsFiniteSet(Products)
  /\ ChunksOf \in [Texts -> Nat]
  /\ Reviews \in Seq([product : Products, text : Texts])

ASSUME OptionsAssumption ==
  /\ Limits \subseteq Nat \ {0}
  /\ Modes \subseteq {"plain", "force"}
  /\ Recovery \in BOOLEAN

ASSUME SizesAssumption ==
  /\ FlushEvery \in Nat \ {0} /\ AddBatch \in Nat \ {0}
  /\ MaxHash \in Nat \ {0} /\ MaxCrashes \in Nat

VARIABLES
  meta,       \* AMAZON_META_PATH: each product's line, hash 0 if it has none
  products,   \* the products collection: the hash each document was made from
  vectors,    \* the review chunks in Chroma
  manifest,   \* ecommerce_manifest.json
  written,    \* the last job died when only the manifest was left to save, and
              \* it had written every product the stores hold
  pc,         \* where the job is
  known,      \* run(): manifest
  chosen,     \* run(): selected
  todo,       \* what the current loop has still to visit
  changed,    \* run(): changed_hashes (the hashes are those of meta)
  at,         \* pass 3: the next line of the reviews
  seen,       \* _seen_review_texts
  nextReview, \* review_index_by_product
  counts,     \* chunks per product, as pass 3 counts them
  buffer,     \* buffer_ids, buffer_texts, buffer_meta
  crashes

stores == <<products, vectors>>
passThree == <<at, seen, nextReview, counts, buffer>>
outside == <<meta, written, crashes>>
vars == <<outside, stores, manifest, pc, known, chosen, todo, changed, passThree>>

Entry == [hash : Nat, chunks : Nat]   \* hash 0: no entry
NoEntries == [p \in Products |-> [hash |-> 0, chunks |-> 0]]
Chunk == [product : Products, review : Nat, chunk : Nat, text : Texts]

\* The id the chunk is stored under: <parent_asin>::r<review>::c<chunk>.
IdOf(c) == <<c.product, c.review, c.chunk>>
Ids(chunks) == {IdOf(c) : c \in chunks}
Buffered == {buffer[i] : i \in DOMAIN buffer}
Stored(p) == {c \in vectors : c.product = p}

-----------------------------------------------------------------------------
(* Pass 1: the products with the most reviews, the earlier seen one first  *)
(* among equals (Counter.most_common).                                     *)

LinesOf(p) == {i \in DOMAIN Reviews : Reviews[i].product = p}

Outranks(p, q) ==
  \/ Cardinality(LinesOf(p)) > Cardinality(LinesOf(q))
  \/ /\ Cardinality(LinesOf(p)) = Cardinality(LinesOf(q))
     /\ \E i \in LinesOf(p) : \A j \in LinesOf(q) : i < j

Selected(limit) ==
  {p \in Products : LinesOf(p) # {} /\ Cardinality({q \in Products : Outranks(q, p)}) < limit}

-----------------------------------------------------------------------------
Init ==
  /\ meta \in [Products -> [hash : {0, 1}, usable : {TRUE}]]
  /\ products = [p \in Products |-> 0]
  /\ vectors = {}
  /\ manifest = [exists |-> FALSE, entries |-> NoEntries]
  /\ written = FALSE
  /\ pc = "idle"
  /\ known = NoEntries
  /\ chosen = {} /\ todo = {} /\ changed = {}
  /\ at = 1
  /\ seen = [p \in Products |-> {}]
  /\ nextReview = [p \in Products |-> 0]
  /\ counts = [p \in Products |-> 0]
  /\ buffer = <<>>
  /\ crashes = 0

\* run() up to its first write: an unreadable or forced manifest is empty.
Start(mode, limit) ==
  /\ pc = "idle"
  /\ pc' = IF mode = "force" THEN "wipe products" ELSE "products"
  /\ known' = IF mode = "force" THEN NoEntries ELSE manifest.entries
  /\ chosen' = Selected(limit) /\ todo' = Selected(limit) /\ changed' = {}
  /\ written' = FALSE
  /\ UNCHANGED <<meta, crashes, stores, manifest, passThree>>

WipeProducts ==
  /\ pc = "wipe products"
  /\ products' = [p \in Products |-> 0]
  /\ pc' = "wipe vectors"
  /\ UNCHANGED <<outside, vectors, manifest, known, chosen, todo, changed, passThree>>

WipeVectors ==
  /\ pc = "wipe vectors"
  /\ vectors' = {}
  /\ pc' = "products"
  /\ UNCHANGED <<outside, products, manifest, known, chosen, todo, changed, passThree>>

-----------------------------------------------------------------------------
(* Pass 2: upsert what is new or changed, one line of the metadata file at *)
(* a time (one line per product, in an order of the file's own).           *)

\* Mutant: the content hash is not compared.
UpsertsAlways(p) == meta[p].hash # 0 /\ meta[p].usable

Upserts(p) == meta[p].hash # 0 /\ known[p].hash # meta[p].hash /\ meta[p].usable

\* Mutant: lines of products that were not selected are ingested too.
VisitUnselected(p) ==
  /\ pc = "products" /\ Upserts(p)
  /\ todo' = todo \ {p}
  /\ products' = [products EXCEPT ![p] = meta[p].hash]
  /\ changed' = changed \cup {p}
  /\ UNCHANGED <<outside, vectors, manifest, pc, known, chosen, passThree>>

VisitProduct(p) ==
  /\ pc = "products" /\ p \in todo
  /\ todo' = todo \ {p}
  /\ IF Upserts(p)
     THEN products' = [products EXCEPT ![p] = meta[p].hash] /\ changed' = changed \cup {p}
     ELSE UNCHANGED <<products, changed>>
  /\ UNCHANGED <<outside, vectors, manifest, pc, known, chosen, passThree>>

\* Mutant: a product the manifest does not know has no chunks to delete.
EndProductsKnownOnly ==
  /\ pc = "products" /\ todo = {}
  /\ todo' = {p \in changed : known[p].hash # 0}
  /\ pc' = "delete"
  /\ UNCHANGED <<outside, stores, manifest, known, chosen, changed, passThree>>

\* The end of pass 2; what was changed is what is deleted and read next.
EndProducts ==
  /\ pc = "products" /\ todo = {}
  /\ todo' = changed
  /\ pc' = "delete"
  /\ UNCHANGED <<outside, stores, manifest, known, chosen, changed, passThree>>

DeleteChunks(p) ==
  /\ pc = "delete" /\ p \in todo
  /\ todo' = todo \ {p}
  /\ vectors' = vectors \ Stored(p)
  /\ UNCHANGED <<outside, products, manifest, pc, known, chosen, changed, passThree>>

EndDelete ==
  /\ pc = "delete" /\ todo = {}
  /\ pc' = "reviews"
  /\ at' = 1
  /\ seen' = [p \in Products |-> {}]
  /\ nextReview' = [p \in Products |-> 0]
  /\ counts' = [p \in Products |-> 0]
  /\ buffer' = <<>>
  /\ UNCHANGED <<outside, stores, manifest, known, chosen, todo, changed>>

-----------------------------------------------------------------------------
(* Pass 3: the reviews of the changed products, buffered and flushed.      *)

\* The review of line i is kept: of a changed product, not filtered, not a
\* repetition of a text of the same product.
Keeps(i) ==
  LET p == Reviews[i].product IN
  /\ p \in changed
  /\ ChunksOf[Reviews[i].text] > 0
  /\ Reviews[i].text \notin seen[p]

ChunksAt(i) ==
  LET p == Reviews[i].product IN
  [c \in 1..ChunksOf[Reviews[i].text] |->
    [product |-> p, review |-> nextReview[p], chunk |-> c - 1, text |-> Reviews[i].text]]

KeepReview ==
  /\ pc = "reviews" /\ at <= Len(Reviews) /\ Keeps(at)
  /\ LET p == Reviews[at].product IN
     /\ seen' = [seen EXCEPT ![p] = @ \cup {Reviews[at].text}]
     /\ nextReview' = [nextReview EXCEPT ![p] = @ + 1]
     /\ counts' = [counts EXCEPT ![p] = @ + ChunksOf[Reviews[at].text]]
  /\ buffer' = buffer \o ChunksAt(at)
  /\ at' = at + 1
  /\ pc' = IF Len(buffer') >= FlushEvery THEN "flush" ELSE "reviews"
  /\ UNCHANGED <<outside, stores, manifest, known, chosen, todo, changed>>

SkipReview ==
  /\ pc = "reviews" /\ at <= Len(Reviews) /\ ~Keeps(at)
  /\ at' = at + 1
  /\ UNCHANGED <<outside, stores, manifest, pc, known, chosen, todo, changed,
                 seen, nextReview, counts, buffer>>

EndReviews ==
  /\ pc = "reviews" /\ at > Len(Reviews)
  /\ pc' = "flush"
  /\ UNCHANGED <<outside, stores, manifest, known, chosen, todo, changed, passThree>>

\* add_review_chunks, one batch; Chroma's add passes over an id it has.
AddBatchOf(n) ==
  vectors \cup {c \in {buffer[i] : i \in 1..n} : IdOf(c) \notin Ids(vectors)}

StoreBatch ==
  /\ pc = "flush" /\ buffer # <<>>
  /\ LET n == IF Len(buffer) < AddBatch THEN Len(buffer) ELSE AddBatch IN
     /\ vectors' = AddBatchOf(n)
     /\ buffer' = SubSeq(buffer, n + 1, Len(buffer))
  /\ UNCHANGED <<outside, products, manifest, pc, known, chosen, todo, changed,
                 at, seen, nextReview, counts>>

EndFlush ==
  /\ pc = "flush" /\ buffer = <<>>
  /\ pc' = IF at > Len(Reviews) THEN "save" ELSE "reviews"
  /\ UNCHANGED <<outside, stores, manifest, known, chosen, todo, changed, passThree>>

-----------------------------------------------------------------------------
\* Mutant: the manifest is built anew from what this run changed.
EntriesChangedOnly ==
  [p \in Products |->
    IF p \in changed THEN [hash |-> meta[p].hash, chunks |-> counts[p]]
    ELSE [hash |-> 0, chunks |-> 0]]

\* Mutant: the entries of the file are kept, not those the run started from.
EntriesMerged ==
  [p \in Products |->
    IF p \in changed THEN [hash |-> meta[p].hash, chunks |-> counts[p]]
    ELSE manifest.entries[p]]

\* The entries run() started from, with those of the products it changed.
Entries ==
  [p \in Products |->
    IF p \in changed THEN [hash |-> meta[p].hash, chunks |-> counts[p]] ELSE known[p]]

\* _save_manifest replaces the file as a whole.
Save ==
  /\ pc = "save"
  /\ manifest' = [exists |-> TRUE, entries |-> Entries]
  /\ pc' = "idle"
  /\ UNCHANGED <<outside, stores, known, chosen, todo, changed, passThree>>

\* The job is killed, or a store, the disk or the model raises.
Crash ==
  /\ pc # "idle" /\ crashes < MaxCrashes
  /\ crashes' = crashes + 1
  /\ written' = (pc = "save" /\ \A p \in Products : products[p] # 0 => p \in changed)
  /\ pc' = "idle"
  /\ UNCHANGED <<meta, stores, manifest, known, chosen, todo, changed, passThree>>

-----------------------------------------------------------------------------
\* A newer dump of the metadata: a line appears or changes.
Edit(p) ==
  /\ pc = "idle" /\ meta[p].hash < MaxHash
  /\ \E usable \in BOOLEAN : meta' = [meta EXCEPT ![p] = [hash |-> @.hash + 1, usable |-> usable]]
  /\ written' = FALSE
  /\ UNCHANGED <<crashes, stores, manifest, pc, known, chosen, todo, changed, passThree>>

\* Mutant: the script counts reviews where it should count chunks.
RecoverReviewCount ==
  /\ Recovery /\ written /\ pc = "idle"
  /\ ~manifest.exists
  /\ \E p \in Products : products[p] # 0
  /\ \A p \in Products : products[p] # 0 => meta[p].hash # 0
  /\ manifest' = [exists |-> TRUE,
                  entries |-> [p \in Products |->
                    IF products[p] # 0
                    THEN [hash |-> meta[p].hash,
                          chunks |-> Cardinality({c.review : c \in Stored(p)})]
                    ELSE [hash |-> 0, chunks |-> 0]]]
  /\ UNCHANGED <<outside, stores, pc, known, chosen, todo, changed, passThree>>

\* recover_ecommerce_manifest.py, used when it says: "only when products and
\* Chroma review chunks were written but the final manifest was not saved".
Recover ==
  /\ Recovery /\ written /\ pc = "idle"
  /\ ~manifest.exists
  /\ \E p \in Products : products[p] # 0
  /\ \A p \in Products : products[p] # 0 => meta[p].hash # 0
  /\ manifest' = [exists |-> TRUE,
                  entries |-> [p \in Products |->
                    IF products[p] # 0
                    THEN [hash |-> meta[p].hash, chunks |-> Cardinality(Stored(p))]
                    ELSE [hash |-> 0, chunks |-> 0]]]
  /\ UNCHANGED <<outside, stores, pc, known, chosen, todo, changed, passThree>>

Next ==
  \/ \E mode \in Modes, limit \in Limits : Start(mode, limit)
  \/ WipeProducts \/ WipeVectors
  \/ \E p \in Products : VisitProduct(p) \/ DeleteChunks(p) \/ Edit(p)
  \/ EndProducts \/ EndDelete
  \/ KeepReview \/ SkipReview \/ EndReviews \/ StoreBatch \/ EndFlush
  \/ Save \/ Crash \/ Recover

Spec == Init /\ [][Next]_vars

-----------------------------------------------------------------------------
(* Properties.                                                             *)

\* Every variable has values of its kind.
TypeOK ==
  /\ meta \in [Products -> [hash : Nat, usable : BOOLEAN]]
  /\ products \in [Products -> Nat]
  /\ vectors \subseteq Chunk /\ IsFiniteSet(vectors)
  /\ manifest \in [exists : BOOLEAN, entries : [Products -> Entry]]
  /\ written \in BOOLEAN
  /\ pc \in {"idle", "wipe products", "wipe vectors", "products", "delete", "reviews",
             "flush", "save"}
  /\ known \in [Products -> Entry]
  /\ chosen \subseteq Products /\ todo \subseteq chosen /\ changed \subseteq chosen
  /\ at \in Nat \ {0}
  /\ seen \in [Products -> SUBSET Texts]
  /\ nextReview \in [Products -> Nat]
  /\ counts \in [Products -> Nat]
  /\ buffer \in Seq(Chunk)
  /\ crashes \in Nat

\* What a complete ingestion stores for p: the chunks of its distinct kept
\* texts, the reviews numbered in the order of the file.
KeptTexts(p, n) ==
  {Reviews[i].text : i \in {j \in LinesOf(p) : j <= n /\ ChunksOf[Reviews[j].text] > 0}}

Expected(p) ==
  UNION {{[product |-> p, review |-> Cardinality(KeptTexts(p, i - 1)), chunk |-> c - 1,
           text |-> Reviews[i].text] : c \in 1..ChunksOf[Reviews[i].text]} :
         i \in {j \in LinesOf(p) : Reviews[j].text \notin KeptTexts(p, j - 1)}}

UpToDate(p) == manifest.entries[p].hash # 0 /\ manifest.entries[p].hash = meta[p].hash

\* What the next run will skip because the manifest has it is up to date: its
\* document is of that line, its chunks are all there and counted, and no
\* others.  A crash may leave anything but a lie in the manifest.
ManifestTruthful ==
  \A p \in Products : UpToDate(p) /\ meta[p].usable =>
    /\ products[p] = meta[p].hash
    /\ Stored(p) = Expected(p)
    /\ manifest.entries[p].chunks = Cardinality(Expected(p))

\* The caller "owns id uniqueness": no add meets an id that is stored, where
\* Chroma would silently drop the new chunk, nor an id twice in the buffer.
IdsAreFresh ==
  pc \in {"reviews", "flush"} =>
    /\ Ids(Buffered) \cap Ids(vectors) = {}
    /\ Cardinality(Ids(Buffered)) = Len(buffer)

\* "re-running without --force only touches what actually changed": a run that
\* started from the manifest file, as every run without --force does, neither
\* rewrites a product the file has up to date nor touches a chunk of it.
OnlyChangedTouched ==
  [][known = manifest.entries =>
       \A p \in Products : UpToDate(p) =>
         products'[p] = products[p] /\ Stored(p)' = Stored(p)]_vars

\* A run that reaches its end leaves every product it selected up to date,
\* unless the product has no usable line.
CompleteRunCovers ==
  [][pc = "save" /\ pc' = "idle" /\ crashes' = crashes =>
       \A p \in chosen : meta[p].hash # 0 /\ meta[p].usable => UpToDate(p)']_vars

\* "--force wipes both stores and the manifest and starts clean": a run that
\* started without entries, forced or the first, and reaches its end leaves a
\* manifest that is true of the stores, whatever a dead forced run had left.
FreshRunIsTruthful ==
  [][pc = "save" /\ pc' = "idle" /\ crashes' = crashes /\ known = NoEntries =>
       ManifestTruthful']_vars

=============================================================================
