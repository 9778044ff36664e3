------------------------------ MODULE Shopper ------------------------------
(* What one account's turns answer with, in one conversation: the direct    *)
(* answers (services/direct_answers.py), the agent and its tools            *)
(* (agent/shopper.py, agent/tools.py), and what the conversation keeps for   *)
(* the next turn (services/sessions.py). The gate and the interleaving of    *)
(* turns are ChatTurns' subject; here one turn follows another. The model    *)
(* and the review index are external: the model may call any tool, name any *)
(* id and write any prose, a review search may find anything. The catalog   *)
(* does not change while the conversation lasts.                            *)
EXTENDS Catalog, SequencesExt

CONSTANTS
  Reviews,           \* ids of review chunks
  ProductOf,         \* the product of a review
  Questions,         \* what the patterns find: [memory, saves, best, refersBack, constrained]
  Asked,             \* the searches the model may ask for: [subject, price]
  Calls,             \* AGENT_MAX_TOOL_ROUNDTRIPS
  MaxTurns           \* bound of the conversation

\* What the settings must be.
ShopperSettings ==
  CatalogSettings /\ Calls \in Nat \ {0} /\ ProductOf \in [Reviews -> Products]

VARIABLES
  merged,            \* AGENT_RESPONSE_STRATEGY is "merged"; it never changes
  talk,              \* the stored messages of the conversation
  step,              \* where the current turn stands
  question,
  history,           \* what sessions.get() gave the turn
  calls,             \* tool round trips made
  evidence,          \* [products, citations, searches] of this turn
  draft,             \* the model's answer so far: [products, citations, text, wrong]
  sent,              \* [text, products, citations]: what was streamed as tokens, and
                     \* the ids of every draft some of it was written for
  reply              \* the response of the turn: [text, products, citations, filters]

shopVars == <<merged, talk, step, question, history, calls, evidence, draft, sent, reply>>

NoEvidence == [products |-> {}, citations |-> {}, searches |-> <<>>]
NoDraft == [products |-> {}, citations |-> {}, pieces |-> 0, wrong |-> FALSE]
NothingSent == [text |-> <<>>, products |-> {}, citations |-> {}]
NoReply == [text |-> <<>>, products |-> {}, citations |-> {}, filters |-> None]

\* Prose comes in two pieces; a wrong price stands in the second.
Drafts == [products : SUBSET Products, citations : SUBSET Reviews,
           pieces : {0}, wrong : BOOLEAN]
LastPiece == 2
Prose(pieces) == SubSeq(<<"first", "second">>, 1, pieces)

Init == /\ merged \in BOOLEAN
        /\ talk = <<>> /\ step = "idle" /\ question = None /\ history = <<>> /\ calls = 0
        /\ evidence = NoEvidence /\ draft = NoDraft
        /\ sent = NothingSent /\ reply = NoReply

-----------------------------------------------------------------------------
(* The pieces of a turn.                                                   *)

\* _public: a stored message as a turn sees it, without its filters.
PublicMessage(m) == [products |-> m.products, filters |-> None]

\* previous_filters: those of the most recent message that has some.
PreviousFilters(messages) ==
  LET with == {i \in DOMAIN messages : messages[i].filters # None}
  IN  IF with = {} THEN None
      ELSE messages[CHOOSE i \in with : \A j \in with : j <= i].filters

\* merge_filters: a search without a subject inherits what it leaves blank.
MergeFilters(new, previous) ==
  IF previous = None \/ new.subject # None THEN new
  ELSE [subject |-> previous.subject,
        price |-> IF new.price = None THEN previous.price ELSE new.price]

\* Mutant: the shortcut forgets what is on screen.
ShortcutForgetful(q, shown) == q.best /\ ~q.constrained /\ ~q.refersBack

\* The whole-catalog answer to "what is rated best", for a question that
\* names no constraint and points at nothing, in a conversation that has
\* shown no products.
Shortcut(q, shown) ==
  q.best /\ ~q.constrained /\ ~q.refersBack
    /\ \A i \in DOMAIN shown : shown[i].products = {}

\* Mutant: citations are taken on the model's word.
AuthorizedLoosely(d) == d.products \subseteq evidence.products

\* hydrate raises for an id that this turn has not retrieved.
Authorized(d) ==
  d.products \subseteq evidence.products /\ d.citations \subseteq evidence.citations

\* hydrate's answer: a fixed one when every search came back empty, a summary
\* of the cards when the prose names a price that none of them has, and
\* otherwise the prose.
Grounded(d) ==
  IF /\ evidence.searches # <<>> /\ d.products = {}
     /\ \A i \in DOMAIN evidence.searches : evidence.searches[i].found = {}
    THEN <<"nothing matched">>
  ELSE IF d.products # {} /\ d.wrong /\ d.pieces = LastPiece THEN <<"summary of the cards">>
  ELSE Prose(d.pieces)

ActiveFilters ==
  IF evidence.searches = <<>> THEN None ELSE Last(evidence.searches).filters

Hydrated(d) ==
  [text |-> Grounded(d), products |-> d.products,
   citations |-> IF Grounded(d) = <<"nothing matched">> THEN {} ELSE d.citations,
   filters |-> ActiveFilters]

Plain(text) == [NoReply EXCEPT !.text = <<text>>]

\* The locals of a turn that has ended.
EndTurn ==
  /\ step' = "idle" /\ question' = None /\ history' = <<>> /\ calls' = 0
  /\ evidence' = NoEvidence /\ draft' = NoDraft /\ sent' = NothingSent /\ reply' = NoReply
  /\ UNCHANGED merged

-----------------------------------------------------------------------------
\* The turn reads the conversation and the router looks for a local answer.
Ask(q) ==
  /\ step = "idle" /\ Len(talk) < MaxTurns
  /\ question' = q
  /\ history' = [i \in DOMAIN talk |-> PublicMessage(talk[i])]
  /\ step' = "route"
  /\ UNCHANGED <<merged, talk, calls, evidence, draft, sent, reply>>

\* answer_if_simple: a question about the memory, a wish to save something,
\* or the best-rated shortcut.
AnswerDirectly ==
  /\ step = "route"
  /\ IF question.memory \/ question.saves THEN reply' = Plain("memory")
     ELSE /\ Shortcut(question, history)
          /\ \E best \in BestRated : reply' = [Plain("best rated") EXCEPT !.products = best]
  /\ sent' = [NothingSent EXCEPT !.text = reply'.text]
  /\ step' = "save"
  /\ UNCHANGED <<merged, talk, question, history, calls, evidence, draft>>

\* Everything else is the agent's.
CallAgent ==
  /\ step = "route"
  /\ ~question.memory /\ ~question.saves /\ ~Shortcut(question, history)
  /\ step' = "agent"
  /\ UNCHANGED <<merged, talk, question, history, calls, evidence, draft, sent, reply>>

\* catalog_search
CatalogSearch(asked) ==
  /\ step = "agent" /\ calls < Calls
  /\ calls' = calls + 1
  /\ LET filters == MergeFilters(asked, PreviousFilters(history))
     IN  evidence' = [evidence EXCEPT
           !.products = @ \cup Search(filters),
           !.searches = Append(@, [found |-> Search(filters), filters |-> filters])]
  /\ UNCHANGED <<merged, talk, step, question, history, draft, sent, reply>>

\* semantic_review_search: the chunks, and the cards of their products as far
\* as the catalog has them.
ReviewSearch ==
  /\ step = "agent" /\ calls < Calls
  /\ calls' = calls + 1
  /\ \E found \in SUBSET Reviews :
       evidence' = [evidence EXCEPT !.products = @ \cup ByIds({ProductOf[r] : r \in found}),
                                    !.citations = @ \cup found]
  /\ UNCHANGED <<merged, talk, step, question, history, draft, sent, reply>>

\* A streamed answer begins: the ids come before the prose. Merged, it is a
\* call of the agent's; in two phases the agent is done and the evidence final.
StartDraft(d) ==
  /\ step = "agent"
  /\ draft' = d
  /\ step' = "draft"
  /\ UNCHANGED <<merged, talk, question, history, calls, evidence, sent, reply>>

\* DraftStream.accept: a partial answer is hydrated like the final one, and
\* only what extends the text already sent is sent.
AcceptPiece ==
  /\ step = "draft" /\ draft.pieces < LastPiece
  /\ draft' = [draft EXCEPT !.pieces = @ + 1]
  /\ sent' = IF Authorized(draft') /\ IsPrefix(sent.text, Grounded(draft'))
               THEN [text |-> Grounded(draft'), products |-> sent.products \cup draft'.products,
                     citations |-> sent.citations \cup draft'.citations]
               ELSE sent
  /\ UNCHANGED <<merged, talk, step, question, history, calls, evidence, reply>>

\* Merged, a draft that is not accepted goes back to the agent, which may call
\* tools again; what was streamed of it stays.
DiscardDraft ==
  /\ merged /\ step = "draft"
  /\ step' = "agent"
  /\ draft' = NoDraft
  /\ UNCHANGED <<merged, talk, question, history, calls, evidence, sent, reply>>

\* In two phases, a streamed call that ignored the forced tool or cannot be
\* parsed is followed by a plain one, whose draft comes whole, is not streamed
\* and replaces what was streamed; a request without a stream makes only that.
FinalDraft(d) ==
  /\ ~merged /\ step \in {"agent", "draft"}
  /\ draft' = [d EXCEPT !.pieces = LastPiece]
  /\ step' = "final"
  /\ UNCHANGED <<merged, talk, question, history, calls, evidence, sent, reply>>

\* The draft is complete and its ids are this turn's.
Hydrate ==
  /\ step \in {"draft", "final"} /\ draft.pieces = LastPiece
  /\ Authorized(draft)
  /\ reply' = Hydrated(draft)
  /\ step' = "save"
  /\ UNCHANGED <<merged, talk, question, history, calls, evidence, draft, sent>>

\* The graph's recursion limit, or merged and no draft at the end: a fixed
\* answer without cards.
LimitReached ==
  /\ step = "agent"
  /\ reply' = Plain("limit")
  /\ step' = "save"
  /\ UNCHANGED <<merged, talk, question, history, calls, evidence, draft, sent>>

\* The timeout, a provider failure, or invented ids: nothing is saved.
Fail ==
  /\ step \in {"route", "agent", "draft", "final"}
  /\ EndTurn
  /\ UNCHANGED talk

\* append_exchange, the answer's part of the pair.
Save ==
  /\ step = "save"
  /\ talk' = Append(talk, [products |-> reply.products, filters |-> reply.filters])
  /\ EndTurn

Next == \/ \E q \in Questions : Ask(q)
        \/ \E asked \in Asked : CatalogSearch(asked)
        \/ \E d \in Drafts : StartDraft(d) \/ FinalDraft(d)
        \/ AnswerDirectly \/ CallAgent \/ ReviewSearch \/ AcceptPiece \/ DiscardDraft
        \/ Hydrate \/ LimitReached \/ Fail \/ Save

Spec == Init /\ [][Next]_shopVars

-----------------------------------------------------------------------------
\* The variables hold what their comments say.
TypeOK ==
  /\ step \in {"idle", "route", "agent", "draft", "final", "save"}
  /\ question \in Questions \cup {None}
  /\ calls \in 0..Calls /\ draft.pieces \in 0..LastPiece
  /\ evidence.products \subseteq Products /\ evidence.citations \subseteq Reviews
  /\ \A i \in DOMAIN talk : talk[i].products \subseteq Products

\* Nothing the agent shows is invented. Cards and citations were retrieved in
\* this very turn, and under a budget no card that only a search brought is
\* without a price or above it. Whatever prose was streamed, for a draft that is
\* kept, discarded or replaced at the end, was written for drafts all of whose
\* ids were retrieved (shopper.py:148, "invented IDs never authorize a
\* provisional answer").
ShownIsRetrieved ==
  /\ step = "save" /\ reply.text # <<"best rated">> =>
       /\ reply.products \subseteq evidence.products
       /\ reply.citations \subseteq evidence.citations
       /\ \A p \in reply.products :
            \/ p \in {ProductOf[r] : r \in evidence.citations}
            \/ \E i \in DOMAIN evidence.searches :
                 LET budget == evidence.searches[i].filters.price
                 IN  budget # None => LET price == Documents[p].price
                                      IN  price # None /\ price <= budget
  /\ sent.products \subseteq evidence.products /\ sent.citations \subseteq evidence.citations

\* A follow-up never gets the whole catalog: once products were shown in the
\* conversation, cards come only out of the turn's own searches.
FollowUpsStayGrounded ==
  step = "save" /\ (\E i \in DOMAIN talk : talk[i].products # {}) =>
    reply.products \subseteq evidence.products

\* What the comment at sessions.py:316 says active_filters are for: a search
\* that names no subject continues the search of the turn before.
FollowUpContinues ==
  step \in {"agent", "draft", "final"} /\ PreviousFilters(talk) # None =>
    \A i \in DOMAIN evidence.searches :
      PreviousFilters(talk).subject # None => evidence.searches[i].filters.subject # None

=============================================================================
