# Verification of FitFinder, the shopping assistant

TLA+ models of the server in `src/` of this repository, the TLC runs that check
them on small instances, and proofs of their main properties for every instance.

FitFinder is one FastAPI process (one uvicorn worker) that answers shopping
questions over a product catalogue in MongoDB and review chunks in Chroma. Each
question is a *turn*: a conversation document is opened, a LangChain agent
answers under a deadline, and the question and the answer are saved together.
A separate job fills the catalogue and the review index from a dataset.

Running: `tlc -config ChatSafety.cfg MCChatTurns.tla`, and so on for the table in
"Runs"; `tlapm ChatTurnsProofs.tla` for the proofs.

## 1. The system

| component | state it keeps | operations | interacts with |
|---|---|---|---|
| Chat turns (`src/api/shopping.py`) | `_busy`, one task and queue per stream | `prepare`, `execute`, `chat`, `stream`, the preference routes | conversations, accounts, limiter, agent |
| Conversation store (`src/services/sessions.py`, `src/api/sessions.py`) | one document per conversation: messages (capped), count, title | create, get, list with a cursor, rename, delete, delete all, append | chat turns, account deletion |
| Accounts and tokens (`src/api/auth.py`, `src/api/deps.py`, `src/services/security.py`, `src/services/database.py`) | the users collection, token versions, the audit trail | sign-up, sign-in, change, sign-out everywhere, deletion, the check on every request | every route |
| Rate limiter (`src/core/ratelimit.py`) | stamps per (limit, key), the last sweep | `check` | accounts, chat turns |
| Ingestion (`src/services/ecommerce_ingest.py`, `scripts/recover_ecommerce_manifest.py`) | the manifest file; products and chunks as it writes them | `run`, `--force`, recovery | vector store, catalogue |
| Vector store (`src/services/vectorstore.py`, `src/services/review_store.py`) | Chroma collections, cached clients | add, delete, reset, query, first opening | ingestion, review search |
| Preferences (`src/services/preferences.py`) | lists and values in the user document | set, add, remove, clear, lookup | chat turns, agent, direct answers |
| Agent (`src/agent/*`, `src/services/catalog.py`) | the evidence and the draft of a turn | answer, stream, tools, filters carried over | preferences, catalogue, review search, conversations |
| Direct answers (`src/services/direct_answers.py`) | none | a routine in front of the agent | chat turns, preferences, catalogue |
| Answer cache and keyword indices (`src/services/answer_cache.py`, `bm25.py`, `retrieval.py`) | LRU maps, generations | get, put, bump, invalidate | vector store |
| Review search (`src/services/review_search.py`, `src/ml/*`, `src/services/review_store.py`) | model and store singletons, a retry window | retrieve, fuse, rank, expand, excerpt; lazy loading | vector store |
| Chunking (`src/services/chunking.py`, `text.py`) | none | split, pack, merge | ingestion |
| Browser (`src/static/app.js`) | current conversation, stream, cursor | the event stream, listing | every route |
| Glue and I/O (configuration, logging, prompts, status pages, scripts) | none worth a model | - | - |

What is hard about it:

- **Interleaving.** One event loop, so nothing interleaves between two awaits and
  everything does across them: two requests of one account, a request and a
  deletion of the account, two sign-ups, two password changes.
- **Cancellation.** A stream's client may leave at any time. The handler's
  `finally` cancels the task and awaits it, inside a cancel scope that cancels
  that await as well; MongoDB updates run in driver threads and take effect
  whether or not the coroutine that sent them still exists.
- **Crash and restart.** `_busy` is process memory; the ingestion job writes two
  stores and a file and may die between any two writes.
- **Limits and boundaries.** The cap of a conversation, the edges of the sliding
  window, its rounding and its sweep.

What makes each component correct:

- *Chat turns*: one running turn per account; a refused, failed or dropped
  request leaves the gate open; `done` means saved; a turn sees every finished one
  before it.
- *Conversation store*: whole turns only, of the owner only, counted exactly, the
  newest kept; what was deleted does not come back.
- *Accounts*: one account per name; a revoked token stays revoked; nobody stays
  signed in with a password that was changed; nothing outlives an account.
- *Rate limiter*: no window holds more than the allowance, however buckets are
  swept; no gratuitous refusal; Retry-After is kept.
- *Ingestion*: the manifest never claims what is not stored; ids do not collide;
  only what changed is touched; a run that ends covers what it selected.
- *Preferences*: limits hold under concurrent additions up to a known overshoot;
  what a caller was told is remembered stays.
- *Agent, catalogue, direct answers*: nothing shown is invented, no card breaks
  the budget it was searched under, a follow-up never gets the whole catalogue.
- *Review search*: what the model reads is the right product's and customer's,
  each chunk once, within the budget; each shared model is loaded once.
- *Chunking*: no word lost or repeated, sizes hold, no stray line left alone.
- *Browser*: the page shows the server's answer, and the next question continues
  the conversation the page has; the sidebar neither repeats nor skips.

## 2. Modules

| module | models | run |
|---|---|---|
| `ChatTurns` | one turn from the request to the saved pair, the session routes and the account deletion | `chat_*` |
| `TurnLedger` | what the turns promise, without handlers, tasks or a database | `chat_live` |
| `Accounts` | the routes of `auth.py` over the users collection, the token check | `accounts*` |
| `Ingest` | the job's three passes, the manifest, `--force`, death, recovery | `ingest*` |
| `Chunking` | one review becoming chunks | `retrieval` |
| `ReviewSearch` | one hybrid search | `retrieval` |
| `Loaders` | the lazy singletons and their locks | `retrieval` |
| `RateLimit` | `_check_memory` and `_sweep` | `front` |
| `Preferences` | the shopping memory under concurrent writers | `front` |
| `Catalog` | records cleaned into products, and the queries over them (operators only) | `front` |
| `Shopper` | what turns of one conversation answer with: direct answers, agent, tools, drafts; extends `Catalog` | `front` |
| `Browser` | the page around a streamed reply | `front` |
| `SessionList` | `list_page`, its cursor and the sidebar | `front` |
| `MC*` | the instances of the modules for TLC | |
| `ChatTurnsProofs`, `ChatSavedProofs` | theorems about `ChatTurns`: the gate and the shape of what is stored; what becomes of a turn, and the refinement of `TurnLedger` | |
| `AccountsProofs`, `RateLimitProofs` | theorems about the modules they are named for | |
| `IngestProofs`, `IngestTruthProofs` | theorems about `Ingest` and, for the operator who never forces, `MCIngest` | |
| `RetrievalProofs` | theorems about `Chunking`, `ReviewSearch` and `Loaders` | |
| `FrontProofs` | theorems about `Preferences`, `Shopper`, `Browser` and `SessionList` | |

The parts that share no state need no product of their states: `MCRetrieval` and
`MCFront` instantiate several modules side by side, a variable `part` picks one
of them at the start of a behaviour, and the others keep the values they start
with. Checking the suite is checking each part on its own; no interleaving of two
parts is claimed. Where parts do meet, the meeting is in one module: the gate and
the conversations in `ChatTurns`, the gate and the memory in `Preferences`, the
conversation and the agent in `Shopper`, the manifest and the store in `Loaders`,
the server's events and the page in `Browser`.

`FrontProofs` and `RetrievalProofs` state their theorems about the suite
(`SuiteSpec`), as the runs do, and prove them of each part's own specification,
which the suite implies (`ShopperPart`, `BrowserPart`, `PreferencesPart`,
`ListPart`; `ChunkingPart`, `SearchPart`, `LoadersPart`). `MCFront` and
`MCRetrieval` leave the constants of the parts open for that (`PartSettings` and
`RetrievalSettings` say what they are); `Front.cfg` and `Retrieval.cfg` give them
the values of the runs.

A definition preceded by "Mutant" is a plausible bug of the definition below it.
It belongs to no behaviour; replacing the definition by it makes the property it
was written for fail, which shows that the run would notice.

### ChatTurns

A step is what the code does between two awaits.

| variable | code |
|---|---|
| `accounts` | the user documents, and how far DELETE /api/me has come |
| `store` | the sessions collection; "deleted" ids are never handed out again |
| `busy` | `_busy` |
| `phase` | the handler: `idle`, `authed` (after `get_current_user`), `opening` (gate taken, awaiting the conversation), `ready` (response built), `serving`, `closing` (the generator's `finally`), `ended` |
| `conv`, `seen` | `sid`, and which turns were in the history handed to the agent |
| `task` | the `execute` coroutine |
| `names`, `wire` | whether the update carries a title, and where the update is: sent, landed, unmatched, lost |
| `outcome` | what the client was told |

`Admit` is `prepare` from the test of `_busy` to its first await; `OpenNew`,
`OpenExisting`, `OpenMissing`, `OpenFails` are its ways on. `FindSession` is the
end of the answer with the first database call of `append_exchange`; `Land` is
MongoDB applying the update, `Acknowledge` the coroutine learning of it: a
cancellation, a failure, a deletion or a restart may come between any two.
`Disconnect`, `Interrupt`, `LeaveEarly` are the three ways a client that leaves
is noticed: by the generator or the cancel scope while it serves, by the cancel
scope while it is in its `finally`, and before its body was first iterated. A
generator that dies before its `finally` has a phase `ended` and leaves a task
that is still to be cancelled: `Cancelling`.

Abstractions: the text of messages, the agent (one step that answers or fails),
the stream's token and status events, timestamps. The rate limit is a refusal
that may come at any time. A session route is one step; the step between its
token check and its write is the same as that of `Admit` and `OpenNew`, which is
where the race with a deletion is visible. The cap is assumed even, as
`min(MAX_SESSION_MESSAGES, 80)` is as shipped; an odd one would cut a pair.

### TurnLedger

Turns of an account run one at a time; a turn is committed to a live conversation
of its own account, whole, at most once, possibly after it was given up; a
conversation keeps its newest turns; what is removed does not come back.
`ChatTurns` implements it (`ImplementsLedger`) under the mapping at its end: a
conversation's turns are its pairs (`chatsBar`), a turn runs while its task does
(`stageBar`), it is saved when its update landed (`savedBar`).

### Accounts

`accounts` is the collection, `routes` the running requests with what they have
read, `tokens` the tokens in use. A token carries two things the code does not
store, for the properties: how it was obtained and the password given then.
`Enter` is the arrival of a sign-up or sign-in, `Authenticated` that of a
signed-in caller whose token and password (against the document read by the
check) are right: a wrong one is answered 401 or 403 and changes nothing. After
that each step is one database call. `Indexed` says whether
`ensure_indexes()` was accepted at startup. `Fail` ends a route before any step.
The audit records are awaits between these steps and need none of their own.

### RateLimit

`events` are the buckets (an absent one is an empty one), `now` is
`time.monotonic()` in ticks, `granted` and `answer` are histories for the
properties. `Check` is `_check_memory` with `_sweep` in front of it; it is called
from coroutines only and does not await, so it is one step.

### Ingest

`meta` is the metadata file (one line per product, by content hash), `products`
and `vectors` the two stores, `manifest` the file, `known` the copy of it in
memory, the others the locals of the three passes. Every write is a step:
one product's upsert, one product's deletion of chunks, one batch of chunks,
the manifest. `Crash` is possible before each. `Edit` changes the dataset between
runs. `Recover` is the script, used when its docstring says: when a run has died
with only the manifest left to save and it had written every product there is.
`StoreBatch` passes over ids that are there,
as Chroma's `add` does.

Abstractions: records and texts are hashes and model values; the reviews file is
constant (the project's README says that review-only changes are not detected);
a metadata line appears once per product; embeddings are not computed.

### Chunking

A review is its words `1..n`, the words after which the sentence pattern matches,
and those after which a paragraph ends. `SentencesOf` is `sentences_with_pages`
with `_split_long_paragraph`; `Embed` takes any distances, `EmbedMismatch` is the
fallback for the wrong number of vectors; `SplitOversized` and `MergeUndersized`
are one turn each of the loops of those names, so the order in which they pick
groups is the code's. The model's reference is the review itself: the chunks
must put it together again.

### ReviewSearch

`DenseHits` and `KeywordHits` are any rankings the two lookups may return, with any
similarity; `Fuse` is Reciprocal Rank Fusion with reciprocals scaled to integers;
`Rerank` gives any score, `SimilarityFloor` is the path without a cross-encoder;
`Expand` looks up the neighbours of every hit, each lookup of which may fail on
its own; `Excerpts` spends the character budget. The ratings filter and the
metadata of a result are left out. Loops that build a list are folds (`Kept`,
`Joined`, `Expand`, `Excerpts`); a sort is the list put in *the* order its keys
call for, ties as they stood (`SortDescending`), which is what Python's stable
`sorted` returns.

### Loaders

Threads call for the embedder, the re-ranker or the store; each goes through the
check before the lock (`Call`; `get_store` has none), the lock and the check under
it (`Enter`), and a load that succeeds or fails. The re-ranker's failed load opens
a retry window. The store needs a client, which `count()` may build without the
lock, and the client needs the manifest of a finished ingestion. The embedder has
the two checks of the vector collection's `_col`, and stands for both.

### Preferences

`saved` is the document's preferences with one field of each kind; `task` is what
each concurrent caller of `update` is about to do, a direct answer's changes being
a sequence. `Read` is the lookup before an add, `Write` the database's update of
the document as it is by then. PATCH looks at the gate only when it begins. A turn
that ends takes its callers with it (`TurnEnds`), except for an update that was on
its way to the database already. A typed list may overshoot its limit by the
other writers: this is what the code promises at best, and `OvershootIsBounded`
says by how much.

### Catalog and Shopper

`Catalog` cleans raw records (`ParsePrice`, `CleanProduct`) and answers the three
queries over the result; a filter has a subject and an upper price, the other
constraints of `build_filter` being conjuncts of the same shape. The catalogue
does not change while a conversation lasts. `Shopper` runs one turn after another
over one conversation: `Ask` reads it in the shape `sessions.get` returns
(`PublicMessage`), `AnswerDirectly` is `answer_if_simple`, `CatalogSearch` and
`ReviewSearch` are the tools with the evidence they leave, `StartDraft` and
`AcceptPiece` are the structured output arriving piece by piece. What becomes of a
draft depends on `AGENT_RESPONSE_STRATEGY` (`merged`): merged, the agent may drop it
and go on (`DiscardDraft`); in two phases a streamed call that ignored the forced
tool is followed by a plain one (`FinalDraft`), whose draft replaces the other
although its tokens were sent. `sent` keeps, beside the tokens, the ids of every
draft they were written for. `Hydrate` is the check of the ids
and the fixed answers, `Save` the pair's assistant message. The model may call
anything, name any id and write any prose. Prose is two pieces, a wrong price
standing in the second; `Fail` is the timeout, a provider's failure or an
invented id.

### Browser and SessionList

`Browser` keeps what decides what the user sees: the conversation the next question
continues (`active`), those `state.messages` has turns of (`messages`), those the
rendered messages are of (`screen`), whether the live reply is among the messages
and what its text is. `messages` and `screen` are two variables because signing in
and out changes the state and renders nothing (`SignOut`, `SignIn`), while the
events of a reply that is no longer among the messages render all of them
(`RenderLiveReply`). Clicks on conversations and deletions are answered later,
whatever has happened meanwhile. A `session` event for a conversation that the user
has left selects it all the same, which `strayed` remembers until the page turns to
some conversation again. `SessionList` is the sidebar: rows are numbers as ObjectIds are
ordered, `updated` their `updated_at`; a writer stamps the time at which it began,
which may be older than the one there (`backdated`). `Shift` is the offset of the
server's zone from UTC, by which the cursor of `encode_cursor` is off. Responses
arrive later or are lost; `mixed` says that the list is not one walk any more.
`NewestFirst` is the sorted sequence of the rows, chosen by what sorted means: the
library's `SortSeq` is evaluated by TLC alone and has no definition to reason about.

## 3. Runs

| run | instance | shows | distinct states |
|---|---|---|---|
| `chat_safety` | 2 accounts, 2 turns of one of them (one stream, one plain), 2 conversations, cap 4 (never reached), one client that may leave | one running turn per account; own turns; `done` is saved; 404 only when deleted; finished turns are seen | 890 thousand |
| `chat_live` | 1 account, 2 turns, 1 conversation that keeps one turn, 1 restart, nobody leaves a stream | every request ends, the gate reopens, 409 only while something is answered; whole turns and an exact count, also once `$slice` has cut; `ChatTurns` implements `TurnLedger`, across the restart and the cap | 29 thousand |
| `chat_leak`, `chat_orphan` | 1 turn | divergences, section 6 | |
| `accounts` | 2 ids that take turns at 1 name, 2 passwords, 2 routes at once, 2 tokens | unique names, revoked stays revoked, sign-ins end with their password | 250 thousand |
| `accounts_change` | 1 account, 2 routes | a divergence | |
| `ingest` | 2 products, 5 reviews, 2 limits, 2 versions of each line, the recovery script; a careful operator (no `--force`, 2 deaths) or another (`--force`, 1 death) | without `--force` the manifest is true; with it, a run that ends makes it true again; ids are fresh, only what changed is touched, a run that ends covers its selection | 210 thousand |
| `ingest_force` | one limit, `--force`, 1 death | a divergence | |
| `retrieval` | reviews of up to 7 words with every punctuation, chunks of 2 to 4 words; 4 chunks of 2 customers over 2 products, 2 hits, 3 results; 3 threads, 3 singletons, 4 ticks | chunks are the review and fit, no stray line; evidence is sound, fusion respects agreement; each singleton is loaded once and retried late enough | 190 thousand |
| `front` | 2 limits (2 in 1.5 s, 1 in 2 s), 9 half-second ticks; 2 writers, lists of 2; 2 turns of 2 tool calls over 3 records; 2 conversations on the page; 3 conversations in pages of 1 | the window and Retry-After; the memory; what is shown or streamed is retrieved, in both strategies; the page is honest, through sign-outs; the sidebar neither repeats nor skips | 1.7 million |
| `follow_up`, `list_offset` | the parts `shopper` and `list` of the same, the second with a clock off UTC | divergences | |

Why the bounds are enough. Two requests of one account are what it takes to
break the gate, and a second account to break isolation; in `chat_live` the
conversation keeps one turn of two, so the cap cuts. A restart ends every handler
and task at once; the theorems of section 5 hold for any number of them. One
client that leaves reaches every interleaving of its cancellation with the other
turn. Two routes at once break any check-then-act of two database calls; two ids
and one name let a name be freed and taken again. Two products of different rank
let a limit exclude one; a repeated review, a filtered one and one of two chunks
meet buffers that flush in the middle of a product; two deaths let a re-run of a
re-run die.

Seven words and chunks of two to four give reviews that are cut hard, packed, split
twice and merged both ways. Three threads are one that loads and two that wait
for the lock. Two buckets and nine ticks cover two full windows, the sweeps and an
idle bucket that comes back. Two writers of a list of two are what the read before
an add can miss, with a third value to overshoot by; two turns are a follow-up and
what it follows; of the three records one has no price although it is rated most,
and one has no title. Three rows in pages of one make two page boundaries, one of
which can move while the other is read.

Bounds that are in guards: `MaxRestarts`, the finite `Requests` and `Sessions`
(each used once), `MaxVersion` (no route that bumps begins at it), `MaxTokens`
(no token is made beyond it), `MaxTime`, `MaxHash`, `MaxCrashes`, `MaxTurns`,
`MaxClock`, `MaxInFlight` (one list request at a time in `front`). The chat runs do
not check for deadlock, because their requests and conversations run out, and
`retrieval` and `front` do not, because a review is chunked and a clock stops; the
others do. Symmetry is used for conversations in `chat_safety` and for all sets of
accounts, none of which the liveness run uses.

## 4. Fairness

Only `chat_live` assumes any: weak fairness of each request's own steps
(`Progress`). The event loop runs every ready coroutine, the agent runs under
`asyncio.timeout` (`AGENT_TIMEOUT_SECONDS`) and a database call ends or raises
(`serverSelectionTimeoutMS`), so a request that can go on does. Nothing is assumed
of clients: sending, leaving and the session routes are unconstrained, and a
deletion, a failure and a restart may come or not.

## 5. What is proved

Every theorem holds for every value of the constants that meets the named
assumptions, and each listed below states the very definition a run checks (or is
the invariant behind one). The assumptions:

| assumption | says | why the code justifies it |
|---|---|---|
| `CapAssumption` | the cap of a conversation is even and positive | `min(MAX_SESSION_MESSAGES, 80)` as shipped |
| `AskerAssumption`, `StreamsAssumption` | a request has one account; only streams can be left | `get_current_user`; a plain answer is not cancelled by the client |
| `SweepAssumption` | no limit looks back further than the hour after which a bucket is idle | the longest period of a limit is that hour |
| `DatasetAssumption`, `OptionsAssumption`, `SizesAssumption` | reviews name products and texts; batch and flush sizes are positive | `run`'s options |
| `LoaderSettings` | the retry window is positive | `_RETRY_AFTER_SECONDS` |
| `ChunkSettings` | the smaller word limit is below the larger; a review has some number of words | `config.py` does not start otherwise |
| `SearchSettings` | limits are natural numbers and one candidate at least is asked for; scores are numbers; the index is finite, and a chunk in it is identified by review, product and number | the shipped values (`config.py` lets any number in; a negative one is not considered); Chroma refuses a `k` of 0; the id of a chunk is made of the three |
| `PreferenceSettings`, `PlanShapes` | finitely many writers, each with at least one change to make | a routine without changes does not call `update` |
| `ShopperSettings`, `CatalogSettings`, `ListSettings` | a turn may call a tool; a review has a product; finitely many conversations; a page has a row | |
| the others | what kind of value a constant is, and that `None` is no other value | |

The chat turns:

| theorem | says | argument |
|---|---|---|
| `ChatTurnsProofs!TypeCorrect` | types | inductive as it stands |
| `OneAgent` | one running turn per account | `GateInv`: `_busy` covers every *engaged* request - one that holds the gate, or whose task still runs although its handler is gone - and no two engaged requests share an account. Running tasks alone are not inductive: after an interrupted handler only the account left in `_busy` keeps the next turn out |
| `OnlyLeaversLeak` | an account in `_busy` has a request that holds the gate, or one that ended and whose client may leave a stream: nothing else leaks the gate | `BusyInv`, inductive over `GateInv` |
| `GateIsHonest` | a refused account is being answered (`BusyMeansAnswering`), if no client leaves | `BusyInv` with `Leavers = {}`, the case of `chat_live`; that it needs this is what `chat_leak` shows |
| `NoHalfTurn` | whole turns | pushing a pair and cutting an even number of messages keeps a sequence of pairs; lemmas about `$slice` |
| `Isolation` | own turns only | the update carries the owner in its filter; a fresh or deleted document is empty |
| `ChatSavedProofs!GoneIsGone` | 404 only when deleted | `TurnInv` ties a turn's phase, task, update and outcome together; `ConvInv` says that a turn past its opening has a conversation of its account, live or deleted. From there an update that matched nothing found it deleted |
| `ExactCount` | the count is exact | `CountInv`: it is twice the number of turns whose update landed there, and the messages are the newest of those. Each turn lands once, because an update in flight is spent by landing, and a cancelled or restarted one is never sent again |
| `DoneIsKept` | `done` is saved | `KeptInv`: what landed is in the conversation until it is deleted or full. A full one stays full, so its newest turns push only older ones out |
| `SeenInOrder` | of two turns told `done`, the later was given the earlier | `SeenInv`: while a turn may still be told `done`, its history holds every turn of its conversation that already was. It needs `GateInv`: two turns of an account may read the same history only if they run at the same time |
| `LedgerImplemented` | `ChatTurns` implements `TurnLedger` (`ImplementsLedger`) | under the mapping, each of the code's steps is one step of the ledger or none; that a ledger step is *allowed* - nobody else of the account runs, the turn is not saved yet, the conversation is live and of the account - is `GateInv`, `TurnInv` and `ConvInv` |

Accounts, limits and ingestion:

| theorem | says | argument |
|---|---|---|
| `AccountsProofs!TypeCorrect` | types, and what a step needs | |
| `OneNameOneAccount` | unique names | inductive with the index |
| `SignInsEnd` | sign-ins end with their password | `TokenInv`: a token, and a route about to make one, has a version no newer than its account's, and with the same version the password in force; accounts only age (`StepAges`) |
| `Revoked` | revoked stays revoked | from `TokenInv` and `StepAges`: versions grow, deleted ids stay deleted |
| `RateLimitProofs!TypeCorrect` | types | `RetryAfter` of a stamp in the window is positive |
| `Window` | the sliding window | `WindowInv`: a bucket is the rest of the granted stamps from some index, and whatever it has lost, by the loop or by the sweep, is older than the period already. The sweep needs `SweepAssumption` |
| `Promise` | Retry-After | `PromiseInv`: after a refusal the bucket is full and its oldest stamp has expired when the wait ends |
| `FullWhenRefused` | no gratuitous refusal | from `WindowInv` |
| `IngestProofs!TypeCorrect` | types | |
| `OnlyChanged` | a run that started from the manifest file touches nothing the file has up to date, forced runs and deaths before it or not | `TouchInv`: while the copy of the manifest in memory is the file's, what a running job changes, deletes or holds in its buffers belongs to products whose entry does not match |
| `IngestTruthProofs!RunsCover` | a run that ends covers what it selected | `VisitInv`: a selected product with a usable line that changed is still to be visited or among the changed, and what is among the changed has its document written from the line of now |
| `FreshIds` | ids are fresh | `ReadInv`: after the deletions, what the store and the buffer hold of a changed product is exactly the chunks its lines make up to the line pass 3 has reached, their numbers are below the next review's, and no buffered id is stored or buffered twice |
| `FreshRunsTellTheTruth` | a run from an empty copy that ends leaves a true manifest, whatever dead runs left | `JobInv`: at the last line `ReadInv` says that the store holds what the entries claim; what the run did not change has no entry |
| `CarefulRunsTellTheTruth` | without `--force` an entry that is up to date is true, wherever runs die, and through the recovery script | `Truth`: the copy a job started from is the file, entries are no newer than the lines, matching ones are true of the stores. A running job does not touch those products (`TouchInv`) until it replaces the file. After a job that wrote everything (`written`) every stored product is complete, which is what makes the script's manifest true |

Chunks, review search and loading, all in `RetrievalProofs`:

| theorem | says | argument |
|---|---|---|
| `ReviewKept` | the chunks are the review, word for word, none too long | `ChunkInv`: the sentences, the groups and the chunks are *chains* (`Chain`), sequences of runs of numbers that meet end to end from the first word (or sentence) to the last, each within its limit. Each loop is shown to take a chain to a chain: the splits, the packing of long paragraphs and of the fallback, the cut of a group at its weakest seam, the joining of two groups |
| `StraysJoined` | no stray left that could be joined | carried in `ChunkInv` from the step that ends the merging, whose guard it is; that no group exceeds the limit once splitting is over is shown there too |
| `EvidenceSound` | what the model reads is evidence | `SearchInv`: every list holds different chunks that pass the filter (`Distinct(list, Matching(query))`), and what is expanded is near what was selected. A neighbour passes the filter because it shares the hit's product; neighbours are a finite set of different numbers and so have an order; an excerpt is within the rest of the budget, so the excerpts and the rest always make up the whole (`ReadOf`) |
| `FusionRespectsRanks` | fusion respects agreement | a chunk that no list ranks below another comes first in the joined list (`JoinedOrder`), and its score is no smaller, for the reciprocal is monotone also after scaling and rounding (`ScoreOrder`); the sort is stable, and a cut keeps who stands before whom (`FirstNPlace`) |
| `LoadsRationed` | each singleton is loaded once, retried late enough and opened after there is a store | `LoadInv`: who loads holds the lock, nobody loads what is loaded, and `nextRetry` is a window past the last attempt unless that one is going on |
| `TypesKept` | types of the three parts | from the invariants above and the bounds of the clock (`Bounds`) |

These modules are folds over lists of any length, and an induction theorem with an
operator for its parameter is of no use to the provers. What takes its place:
`FoldSteps` shows that a fold of the community modules has a sequence of partial
results, one for each prefix (it *is* a function chosen to satisfy its defining
equation, and one that does exists, `FoldExists`); a fact about the last result
is then shown of every prefix by taking the least length at which it fails
(`Least`, `UpTo`), a set rather than a predicate. Each loop of the model has one
lemma named `...Steps` that gives its partial results, and one that says what they
are. That a sort or an ordering by `CHOOSE` chooses something is `Enumerated`: a
finite set with a strict total order is listed by it.

The page, the answers, the memory and the list, all in `FrontProofs`:

| theorem | says | argument |
|---|---|---|
| `HonestScreen` | a finished reply says the server's answer or nothing; the next question continues the conversation the page has, but for `strayed`; what is rendered is what the page has, but for sign-outs | `PageInv`: the page is busy while a stream is open, one that is done has shown its answer, and one that has yet to name its conversation was asked in the active one, unless its reply is not among the messages any more |
| `NothingInvented`, `GroundedFollowUps` | what is shown or streamed was retrieved in this turn; a follow-up shows searched products only | `ShopInv`: each card of the evidence came out of a search or a review of this turn, each search shows what its filters let through, prose is streamed only for drafts whose ids are evidence, and evidence only grows, so it does not matter which of them the answer is made of; an answer waiting to be saved is of this evidence, or the shortcut's in a conversation that has shown nothing |
| `NothingForgotten` | what a caller was told stays | `NothingKnownIsLost` is inductive with the types: an update writes what it names and no field beside it |
| `BoundedMemory` | lists are sets and overshoot by at most the other writers | `PrefInv` with `Room`: the length of the list *plus the callers between their read and their write* is at most the limit plus the writers less one. The overshoot alone is not inductive: it says nothing of adds already decided |
| `NoRepeatedRow`, `NoSkippedRow` | the sidebar neither repeats nor skips, on a server whose clock is on UTC, for any number of list requests under way | `ListInv`: while walks are not mixed, the list and the cursor are a *walk*: no row is in the list twice or behind the cursor still, backdated ones excepted, and every row that did not move is in the list or behind the cursor; what is on its way makes a walk of it when it arrives. A page is the newest part of what is behind the cursor and the new cursor has the rest behind it (`PageProperties`). `Shift = 0` is the hypothesis, and `list_offset` shows what happens otherwise |
| `PartTypes` | types of the four parts | from the invariants above; the list's for any `Shift` |

So every safety property that the passing runs check is proved for every instance,
the type invariants, the action properties and the refinement among them.

Model-checked only: liveness under fairness, `EveryRequestEnds` and `GateReopens`.
Fairness is about ENABLED, which is out of the prover's reach. The counterexamples
of section 6 are TLC's as well.

## 6. Where the code departs from what it says

| run | what happens |
|---|---|
| `chat_leak` | A client leaves a stream. The cancel scope of the response ends the `await` in the generator's `finally`, the `_busy.discard` after it does not run, and the account is answered 409 until the process restarts. A response dropped before its body is iterated never reaches the `finally` at all. |
| `chat_orphan` | Until `delete_user` the account still authenticates. A conversation created between `delete_all` and `delete_user` survives it; in the trace, POST /api/sessions creates it (`CreateSession`). The first question of a chat opens its conversation by the same call. |
| `accounts_change` | Of two password changes at a time, the first reads the token version again after the second was applied: its caller stays signed in, with a password that is not in force. |
| `ingest_force` | `--force` empties the stores at once and the manifest file only at the end. A death in between leaves a manifest of products that are gone, and the next plain run skips them (a forced run that ends mends it: `FreshRunIsTruthful` in `ingest`). |
| `follow_up` | The filters of a search are stored with the message so that the next turn can continue it, but `sessions.get` hands the conversation on in a shape without them: a follow-up never inherits any. |
| `list_offset` | The cursor turns a naive UTC time into a number as if it were in the server's zone. On a server that is not on UTC every page boundary is off by the offset: the next page repeats rows, or skips some. |

Further observations that no run reports.

- The first question overwrites the title a conversation was created with or
  renamed to (`Land` shows it; no document promises otherwise, and no property
  speaks of titles).
- Concurrent writers of the memory may overshoot a typed list's limit
  (`OvershootIsBounded` allows for it), and a preference update whose turn timed
  out may still land.
- The page that was left between a question and its `session` event selects the
  conversation again when the event comes, also after signing out (`strayed` in
  `Browser`; `ScreenIsHonest` excuses this event and nothing else).
- Signing out clears the page's state and renders nothing, and neither does signing
  in: the next account sees the messages of the one before until something is
  rendered, by a question, a click or an event of a reply still on its way
  (app.js:534-539, 408-427; the third clause of `ScreenIsHonest` allows for it).
- The list of conversations is read again inside the `try` of a question: when
  that fails, the answer that was given is erased from the screen (the outcome
  "list unread").
- Two list requests at a time mix two walks (`mixed`), and a row stamped with an
  older time than it had may come again on the next page (`backdated`).
- Without the re-ranker a chunk found only by its words never passes the
  similarity floor (`SimilarityFloor`).
- The recovery script, after a dead run with a large `--limit` and a run with a
  smaller one that died at its end, records products whose reviews were never
  read; its docstring's condition does not hold of them, so the model does not use
  it then.
- The API takes the manifest of an earlier run for a finished ingestion and opens
  the index while a later run rewrites it.
- A password change that races a deletion raises on `refreshed` being None.
- Were filters carried over, a follow-up's upper price under an inherited lower one
  would make `CatalogQuery` raise inside the tool: `merge_filters` does not look.

## 7. Not modelled, and the plan

Not modelled because nothing calls it at this commit: the answer cache's `get` and
`put`, the keyword index of `bm25.py`, `services/retrieval.py`, `ml/gemini.py`,
the query functions and the PDF-era writers of `vectorstore.py`, `chunk_pages` and
its cache, `split_to_token_limit`, `append_message`.

Not modelled because it is somebody else's state: LangGraph's checkpoints (off as
shipped), its middleware and summaries; the event queue of a stream, which one
event loop fills and drains with no await between the tests; embedding and
re-ranking models, whose numbers nothing here constrains.

Not modelled because there is no state in it: configuration, logging, prompts,
provider clients, status pages, start-up, rendering and the operator's scripts
other than the recovery.

What could come next:

1. A part of `front` in which the sidebar, the page and the session routes meet:
   two list requests at a time, and the list read again inside the `try` of a
   question, are observed above and covered by no property.
2. The recovery script after a larger run than the last, once its docstring says
   which runs it is for.
3. `Expand` with one step per hit, were the lookups ever made concurrently.
