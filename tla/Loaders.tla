------------------------------- MODULE Loaders -------------------------------
(* The lazy singletons that request threads, the warm-up thread and the     *)
(* ingestion share: the embedding model (ml/embeddings.py) and the vector    *)
(* collection (services/vectorstore.py), loaded behind a double-checked      *)
(* lock; the re-ranker (ml/reranker.py), which adds a retry window after a   *)
(* failed load; the review store (services/review_store.py), opened under    *)
(* its lock once the ingestion manifest exists, over a client that another   *)
(* caller may build at the same time.                                        *)
EXTENDS Integers, Sequences, FiniteSets

CONSTANTS
  Threads,
  RetryAfter,        \* _RETRY_AFTER_SECONDS, in ticks
  MaxTime,           \* bound of the clock
  None

ASSUME LoaderSettings ==
  RetryAfter \in Nat /\ RetryAfter > 0 /\ MaxTime \in Nat /\ None \notin Threads

Resources == {"embedder", "ranker", "store"}

VARIABLES
  now,               \* time.monotonic()
  at,                \* at[t]: idle, or waiting for a lock, or loading, and what for
  lock,              \* lock[r]: the thread in the critical section
  loads,             \* loads[r]: how often r was loaded
  nextRetry,         \* _next_retry_at of the re-ranker
  attempts,          \* when each load of the re-ranker began
  manifest,          \* ecommerce_manifest.json exists
  client             \* the lru_cache of get_client() holds a client

vars == <<now, at, lock, loads, nextRetry, attempts, manifest, client>>

Idle == [step |-> "idle", for |-> None]

Init == /\ now = 0 /\ nextRetry = 0 /\ attempts = <<>>
        /\ at = [t \in Threads |-> Idle]
        /\ lock = [r \in Resources |-> None]
        /\ loads = [r \in Resources |-> 0]
        /\ manifest \in BOOLEAN /\ client = FALSE

\* Nothing to load: the singleton is there, or the re-ranker may not be
\* tried again yet and its caller goes without.
NotNow(r) == loads[r] > 0 \/ (r = "ranker" /\ now < nextRetry)

\* The check before the lock; get_store() has none.
Call(t, r) ==
  /\ at[t] = Idle
  /\ r = "store" \/ ~NotNow(r)
  /\ at' = [at EXCEPT ![t] = [step |-> "waiting", for |-> r]]
  /\ UNCHANGED <<now, lock, loads, nextRetry, attempts, manifest, client>>

\* Mutant: the second check forgets the retry window.
EnterUnrationed(t, r) ==
  /\ at[t] = [step |-> "waiting", for |-> r]
  /\ lock[r] = None
  /\ IF loads[r] > 0
       THEN at' = [at EXCEPT ![t] = Idle] /\ UNCHANGED <<lock, attempts>>
       ELSE /\ at' = [at EXCEPT ![t].step = "loading"]
            /\ lock' = [lock EXCEPT ![r] = t]
            /\ attempts' = IF r = "ranker" THEN Append(attempts, now) ELSE attempts
  /\ UNCHANGED <<now, loads, nextRetry, manifest, client>>

\* The lock, and the check under it.
Enter(t, r) ==
  /\ at[t] = [step |-> "waiting", for |-> r]
  /\ lock[r] = None
  /\ IF NotNow(r)
       THEN at' = [at EXCEPT ![t] = Idle] /\ UNCHANGED <<lock, attempts>>
       ELSE /\ at' = [at EXCEPT ![t].step = "loading"]
            /\ lock' = [lock EXCEPT ![r] = t]
            /\ attempts' = IF r = "ranker" THEN Append(attempts, now) ELSE attempts
  /\ UNCHANGED <<now, loads, nextRetry, manifest, client>>

Leave(t, r) == /\ at' = [at EXCEPT ![t] = Idle]
               /\ lock' = [lock EXCEPT ![r] = None]

\* A load that succeeds. The store needs its client, and so the manifest.
Loaded(t, r) ==
  /\ at[t] = [step |-> "loading", for |-> r]
  /\ r = "store" => client \/ manifest
  /\ client' = (client \/ r = "store")
  /\ loads' = [loads EXCEPT ![r] = @ + 1]
  /\ Leave(t, r)
  /\ UNCHANGED <<now, nextRetry, attempts, manifest>>

\* A load that fails: the re-ranker waits before the next, the others are
\* tried again by the next caller. The store may keep the client it opened.
Failed(t, r) ==
  /\ at[t] = [step |-> "loading", for |-> r]
  /\ nextRetry' = IF r = "ranker" THEN now + RetryAfter ELSE nextRetry
  /\ client' \in {client, client \/ (r = "store" /\ manifest)}
  /\ Leave(t, r)
  /\ UNCHANGED <<now, loads, attempts, manifest>>

\* count() builds the client without the lock; without a manifest it raises
\* and nothing is cached.
Count ==
  /\ manifest /\ ~client
  /\ client' = TRUE
  /\ UNCHANGED <<now, at, lock, loads, nextRetry, attempts, manifest>>

\* The ingestion completes.
Ingested ==
  /\ ~manifest /\ manifest' = TRUE
  /\ UNCHANGED <<now, at, lock, loads, nextRetry, attempts, client>>

Tick == /\ now < MaxTime /\ now' = now + 1
        /\ UNCHANGED <<at, lock, loads, nextRetry, attempts, manifest, client>>

Next == \/ \E t \in Threads, r \in Resources :
             Call(t, r) \/ Enter(t, r) \/ Loaded(t, r) \/ Failed(t, r)
        \/ Count \/ Ingested \/ Tick

Spec == Init /\ [][Next]_vars

-----------------------------------------------------------------------------
\* The variables hold what their comments say.
TypeOK ==
  /\ now \in 0..MaxTime /\ nextRetry \in 0..(MaxTime + RetryAfter)
  /\ at \in [Threads -> [step : {"idle", "waiting", "loading"}, for : Resources \cup {None}]]
  /\ lock \in [Resources -> Threads \cup {None}]
  /\ loads \in [Resources -> Nat]
  /\ \A i \in DOMAIN attempts : attempts[i] \in 0..MaxTime
  /\ manifest \in BOOLEAN /\ client \in BOOLEAN

\* However the threads meet, each singleton is loaded once, a failed load of
\* the re-ranker is not repeated inside the retry window (not even by a thread
\* that was already waiting for the lock), and the store is open only over a
\* completed ingestion.
LoadsAreRationed ==
  /\ \A r \in Resources : loads[r] <= 1
  /\ \A i \in 1..(Len(attempts) - 1) : attempts[i + 1] - attempts[i] >= RetryAfter
  /\ loads["store"] > 0 => manifest

=============================================================================
