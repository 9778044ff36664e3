------------------------------ MODULE Catalog ------------------------------
(* The products collection as the ingestion cleans it                      *)
(* (services/ecommerce_ingest.py) and as the shopping tools read it         *)
(* (services/catalog.py). Of a record this keeps what a search tells apart: *)
(* its words, its price and how often it was rated.                         *)
EXTENDS Integers, Sequences, FiniteSets

CONSTANTS
  Products,          \* parent_asins, numbered as the database orders them
  Raw,               \* the dataset's records: [title, words, price, ratings]
  Limit,             \* CatalogQuery.limit
  None

\* What the settings must be. A price is a number, a text in which numbers
\* may stand ("None", "$10.00 - $12.00"), or missing.
CatalogSettings ==
  /\ Products \subseteq Nat /\ DOMAIN Raw = Products
  /\ Limit \in 1..12
  /\ \A p \in Products : Raw[p].price.kind \in {"number", "text", "missing"}

\* _parse_price: None, never 0, when there is no number to read.
ParsePrice(price) ==
  IF price.kind = "number" THEN price.value
  ELSE IF price.kind = "text" /\ price.numbers # <<>> THEN Head(price.numbers)
  ELSE None

\* _clean_product: a record without a title is no product.
CleanProduct(raw) ==
  IF raw.title = None THEN None
  ELSE [words |-> raw.words, price |-> ParsePrice(raw.price),
        ratings |-> IF raw.ratings = None THEN 0 ELSE raw.ratings]

\* The collection, by _id.
Documents ==
  [p \in {q \in Products : CleanProduct(Raw[q]) # None} |-> CleanProduct(Raw[p])]

\* Mutant: a product without a price passes for a free one.
MissingPriceIsFree(f) ==
  {p \in DOMAIN Documents :
     /\ f.subject = None \/ f.subject \in Documents[p].words
     /\ f.price # None =>
          Documents[p].price = None \/ Documents[p].price <= f.price}

\* build_filter: every filter that is given must hold, and a bound on the
\* price leaves out the products that have none.
BuildFilter(f) ==
  {p \in DOMAIN Documents :
     /\ f.subject = None \/ f.subject \in Documents[p].words
     /\ f.price # None =>
          Documents[p].price # None /\ Documents[p].price <= f.price}

\* Most rated first, by _id among equals.
Precedes(p, q) ==
  \/ Documents[p].ratings > Documents[q].ratings
  \/ Documents[p].ratings = Documents[q].ratings /\ p < q

\* search: the first Limit of them.
Search(f) ==
  {p \in BuildFilter(f) : Cardinality({q \in BuildFilter(f) : Precedes(q, p)}) < Limit}

\* The shortcut's own query: five of the products with five ratings or more,
\* by an average that is left out here.
BestRated ==
  LET rated == {p \in DOMAIN Documents : Documents[p].ratings >= 5}
  IN  {best \in SUBSET rated : IF Cardinality(rated) <= 5 THEN best = rated
                               ELSE Cardinality(best) = 5}

\* by_ids: those that are there.
ByIds(ids) == ids \cap DOMAIN Documents

=============================================================================
