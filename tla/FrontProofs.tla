----------------------------- MODULE FrontProofs -----------------------------
(***************************************************************************)
(* Theorems about Browser (B), Shopper (H), Preferences (P) and            *)
(* SessionList (L), for any conversations, catalog, writers, plans, limits *)
(* and pages, stated where the runs check them: each part of the suite     *)
(* behaves, seen alone, as its own specification.                          *)
(***************************************************************************)
EXTENDS MCFront, SequenceTheorems, FiniteSetTheorems, TLAPS

LEMMA ShopperPart == SuiteSpec => H!Spec
  <1>1. SuiteInit => H!Init
    BY DEF SuiteInit
  <1>2. [SuiteNext]_<<part, limitVars, prefVars, shopVars, pageVars, listVars>>
          => [H!Next]_H!shopVars
    BY DEF SuiteNext, shopVars, H!shopVars
  <1> QED BY <1>1, <1>2, PTL DEF SuiteSpec, H!Spec

LEMMA BrowserPart == SuiteSpec => B!Spec
  <1>1. SuiteInit => B!Init
    BY DEF SuiteInit
  <1>2. [SuiteNext]_<<part, limitVars, prefVars, shopVars, pageVars, listVars>>
          => [B!Next]_B!pageVars
    BY DEF SuiteNext, pageVars, B!pageVars
  <1> QED BY <1>1, <1>2, PTL DEF SuiteSpec, B!Spec

LEMMA PreferencesPart == SuiteSpec => P!Spec
  <1>1. SuiteInit => P!Init
    BY DEF SuiteInit
  <1>2. [SuiteNext]_<<part, limitVars, prefVars, shopVars, pageVars, listVars>>
          => [P!Next]_P!prefVars
    BY DEF SuiteNext, prefVars, P!prefVars
  <1> QED BY <1>1, <1>2, PTL DEF SuiteSpec, P!Spec

LEMMA ListPart == SuiteSpec => L!Spec
  <1>1. SuiteInit => L!Init
    BY DEF SuiteInit
  <1>2. [SuiteNext]_<<part, limitVars, prefVars, shopVars, pageVars, listVars>>
          => [L!Next]_L!listVars
    BY DEF SuiteNext, listVars, L!listVars
  <1> QED BY <1>1, <1>2, PTL DEF SuiteSpec, L!Spec

-----------------------------------------------------------------------------
(* The page.  It is busy as long as a stream is open, a stream that is done *)
(* has shown its answer, and a stream that has yet to name its conversation *)
(* was asked in the active one, unless its reply is not among the messages. *)

PageInv ==
  /\ strayed \in BOOLEAN /\ busy \in BOOLEAN /\ live \in BOOLEAN
  /\ busy <=> stream.phase # "none"
  /\ stream.phase = "done" => text = "answer"
  /\ stream.phase = "asked" /\ live => stream.conversation = active
  /\ B!ScreenIsHonest

LEMMA PageInit == B!Init => PageInv
  <1> SUFFICES ASSUME B!Init PROVE PageInv
    OBVIOUS
  <1>1. /\ busy = FALSE /\ active = None /\ messages = {} /\ screen = {}
        /\ live = FALSE /\ strayed = FALSE
        /\ text = "none" /\ outcome = "none" /\ stream = B!NoStream
    BY DEF B!Init
  <1>2. stream.phase = "none"
    BY <1>1 DEF B!NoStream
  <1>3. B!ScreenIsHonest
    BY <1>1 DEF B!ScreenIsHonest, B!Of
  <1> QED BY <1>1, <1>2, <1>3 DEF PageInv

LEMMA PageNext == PageInv /\ [B!Next]_B!pageVars => PageInv'
  <1> SUFFICES ASSUME PageInv, [B!Next]_B!pageVars PROVE PageInv'
    OBVIOUS
  <1> USE DEF PageInv, B!ScreenIsHonest, B!NoStream
  <1>1. CASE B!SignIn
    BY <1>1 DEF B!SignIn
  <1>2. CASE B!SignOut
    BY <1>2 DEF B!SignOut, B!TurnTo, B!Of
  <1>3. CASE B!NewChat
    BY <1>3 DEF B!NewChat, B!Show, B!TurnTo
  <1>4. CASE B!Send
    <2>1. ~strayed => messages' = B!Of(active)
      BY <1>4 DEF B!Send
    <2> QED BY <1>4, <2>1 DEF B!Send
  <1>5. CASE B!StatusEvent \/ B!TokenEvent
    BY <1>5 DEF B!StatusEvent, B!TokenEvent, B!RenderLiveReply
  <1>6. CASE B!DoneEvent
    <2>1. stream.phase = "open" /\ stream' = [stream EXCEPT !.phase = "done"]
          /\ text' = "answer" /\ UNCHANGED <<busy, active, messages, screen, live, outcome, strayed>>
      BY <1>6 DEF B!DoneEvent
    <2>2. stream'.phase \in {"open", "done"} 
      BY <2>1
    <2> QED BY <2>1, <2>2
  <1>7. CASE B!Refreshed
    BY <1>7 DEF B!Refreshed
  <1>8. CASE B!Failed
    BY <1>8 DEF B!Failed
  <1>9. ASSUME NEW c \in Conversations, B!ClickOpen(c) \/ B!ClickDelete(c) PROVE PageInv'
    BY <1>9 DEF B!ClickOpen, B!ClickDelete
  <1>10. ASSUME NEW c \in Conversations, B!Opened(c) \/ B!Deleted(c) PROVE PageInv'
    <2>1. UNCHANGED <<busy, text, stream, outcome>>
      BY <1>10 DEF B!Opened, B!Deleted
    <2>2. \/ \E x : B!Show(x)
          \/ UNCHANGED <<active, messages, screen, live, strayed>>
      BY <1>10 DEF B!Opened, B!Deleted
    <2>3. ASSUME NEW x, B!Show(x) PROVE PageInv'
      BY <2>1, <2>3 DEF B!Show, B!TurnTo
    <2>4. ASSUME UNCHANGED <<active, messages, screen, live, strayed>> PROVE PageInv'
      BY <2>1, <2>4
    <2> QED BY <2>2, <2>3, <2>4
  <1>11. ASSUME NEW c \in Conversations, B!SessionEvent(c) PROVE PageInv'
    <2>1. /\ stream.phase = "asked" /\ stream.conversation \in {None, c}
          /\ active' = c /\ stream' = [phase |-> "open", conversation |-> c]
          /\ UNCHANGED <<busy, live, text, outcome>>
      BY <1>11 DEF B!SessionEvent
    <2>2. CASE live
      <3>1. /\ messages' = messages \cup B!Of(c) /\ screen' = screen \cup B!Of(c)
            /\ strayed' = strayed
        BY <1>11, <2>2 DEF B!SessionEvent
      <3>2. active = None \/ active = c
        BY <2>1, <2>2
      <3>3. ~strayed => messages' = B!Of(c)
        BY <3>1, <3>2 DEF B!Of
      <3>4. screen' = messages'
        BY <2>2, <3>1
      <3> QED BY <2>1, <3>1, <3>3, <3>4
    <2>3. CASE ~live
      <3>1. /\ strayed' = (strayed \/ messages # B!Of(c))
            /\ messages' = messages /\ screen' = screen
        BY <1>11, <2>3 DEF B!SessionEvent
      <3>2. ~strayed' => messages' = B!Of(c)
        BY <3>1
      <3>3. strayed' \in BOOLEAN
        BY <3>1
      <3>4. stream'.phase = "open"
        BY <2>1
      <3>5. screen' # messages' => messages' = {} /\ ~live'
        BY <2>1, <2>3, <3>1 DEF PageInv
      <3> QED BY <2>1, <3>2, <3>3, <3>4, <3>5 DEF PageInv
    <2> QED BY <2>2, <2>3
  <1>12. CASE UNCHANGED B!pageVars
    BY <1>12 DEF B!pageVars
  <1> QED BY <1>1, <1>2, <1>3, <1>4, <1>5, <1>6, <1>7, <1>8, <1>9, <1>10, <1>11, <1>12
          DEF B!Next

\* A reply that ended says the server's answer or nothing. The next question
\* continues the one conversation whose messages the page has, unless the stream
\* of an earlier question selected its own after the user had left it. What is
\* rendered is what the page has, except between a sign-out, after which the page
\* has nothing, and the next rendering.
THEOREM HonestScreen == SuiteSpec => []ScreenIsHonest
  <1>1. PageInv => ScreenIsHonest
    BY DEF PageInv, ScreenIsHonest
  <1> QED BY BrowserPart, PageInit, PageNext, <1>1, PTL DEF B!Spec

-----------------------------------------------------------------------------
(* A turn's answer.  Every card the turn may show came out of a search or a *)
(* review of its own, every search is one the model asked for (the history  *)
(* a turn reads has no filters to merge), text is streamed only for drafts  *)
(* whose ids are evidence, of which nothing is ever taken back, and the     *)
(* answer that waits to be saved is either made of this turn's evidence or  *)
(* the shortcut's, which needs a conversation that has shown nothing.       *)

Searched == {[found |-> H!Search(f), filters |-> f] : f \in Asked}

ShopTypes ==
  /\ evidence \in [products : SUBSET Products, citations : SUBSET Reviews,
                   searches : Seq(Searched)]
  /\ draft \in [products : SUBSET Products, citations : SUBSET Reviews,
                pieces : Nat, wrong : BOOLEAN]

Sourced ==
  \A p \in evidence.products :
    \/ p \in {ProductOf[r] : r \in evidence.citations}
    \/ \E i \in DOMAIN evidence.searches : p \in evidence.searches[i].found

Unfiltered == step # "idle" => history = [i \in DOMAIN talk |-> H!PublicMessage(talk[i])]

Streamed ==
  sent.products \subseteq evidence.products /\ sent.citations \subseteq evidence.citations

AnswerSourced ==
  step = "save" =>
    /\ reply.citations \subseteq evidence.citations
    /\ \/ reply.products \subseteq evidence.products
       \/ reply.text = <<"best rated">> /\ \A i \in DOMAIN talk : talk[i].products = {}

ShopInv ==
  /\ step \in {"idle", "route", "agent", "draft", "final", "save"}
  /\ ShopTypes /\ Sourced /\ Unfiltered /\ Streamed /\ AnswerSourced

LEMMA NoEvidenceType ==
  /\ H!NoEvidence \in [products : SUBSET Products, citations : SUBSET Reviews,
                       searches : Seq(Searched)]
  /\ H!NoDraft \in [products : SUBSET Products, citations : SUBSET Reviews,
                    pieces : Nat, wrong : BOOLEAN]
  /\ H!NoEvidence.products = {}
  BY EmptySeq DEF H!NoEvidence, H!NoDraft

LEMMA ShopInit == H!Init => ShopInv
  <1> SUFFICES ASSUME H!Init PROVE ShopInv
    OBVIOUS
  <1>1. step = "idle" /\ evidence = H!NoEvidence /\ draft = H!NoDraft /\ sent = H!NothingSent
    BY DEF H!Init
  <1> QED BY <1>1, NoEvidenceType DEF H!NothingSent,
          ShopInv, ShopTypes, Sourced, Unfiltered, Streamed, AnswerSourced

\* A search shows products of the catalog that pass its filters.
LEMMA SearchType ==
  ASSUME NEW f
  PROVE  /\ H!Search(f) \subseteq H!BuildFilter(f) /\ H!Search(f) \subseteq Products
         /\ \A ids : H!ByIds(ids) \subseteq ids /\ H!ByIds(ids) \subseteq Products
  <1>1. DOMAIN H!Documents \subseteq Products
    BY DEF H!Documents
  <1> QED BY <1>1 DEF H!Search, H!BuildFilter, H!ByIds

\* The end of a turn, with nothing or something said.
LEMMA TurnOver ==
  ASSUME ShopInv, H!EndTurn
  PROVE  ShopInv'
  <1>1. step' = "idle" /\ evidence' = H!NoEvidence /\ draft' = H!NoDraft /\ sent' = H!NothingSent
    BY DEF H!EndTurn
  <1> QED BY <1>1, NoEvidenceType DEF H!NothingSent,
          ShopInv, ShopTypes, Sourced, Unfiltered, Streamed, AnswerSourced

\* A tool call adds to the evidence.
LEMMA EvidenceAdded ==
  ASSUME ShopInv, step = "agent", UNCHANGED <<merged, talk, step, question, history, draft, sent, reply>>,
         evidence.products \subseteq evidence'.products,
         evidence.citations \subseteq evidence'.citations,
         ShopTypes', Sourced'
  PROVE  ShopInv'
  BY DEF ShopInv, Unfiltered, Streamed, AnswerSourced

LEMMA ShopNext == ShopInv /\ [H!Next]_H!shopVars => ShopInv'
  <1> SUFFICES ASSUME ShopInv, [H!Next]_H!shopVars PROVE ShopInv'
    OBVIOUS
  <1>0. /\ ShopTypes /\ Sourced /\ Unfiltered /\ Streamed /\ AnswerSourced
        /\ step \in {"idle", "route", "agent", "draft", "final", "save"}
    BY DEF ShopInv
  <1>1. ASSUME NEW q \in Questions, H!Ask(q) PROVE ShopInv'
    <2>1. /\ step = "idle" /\ step' = "route"
          /\ history' = [i \in DOMAIN talk |-> H!PublicMessage(talk[i])]
          /\ UNCHANGED <<merged, talk, calls, evidence, draft, sent, reply>>
      BY <1>1 DEF H!Ask
    <2> QED BY <1>0, <2>1
        DEF ShopInv, ShopTypes, Sourced, Unfiltered, Streamed, AnswerSourced
  <1>2. CASE H!AnswerDirectly
    <2>1. /\ step = "route" /\ step' = "save"
          /\ sent' = [H!NothingSent EXCEPT !.text = reply'.text]
          /\ UNCHANGED <<merged, talk, question, history, calls, evidence, draft>>
      BY <1>2 DEF H!AnswerDirectly
    <2>2. AnswerSourced'
      <3>1. CASE question.memory \/ question.saves
        <4>1. reply'.products = {} /\ reply'.citations = {}
          BY <1>2, <3>1 DEF H!AnswerDirectly, H!Plain, H!NoReply
        <4> QED BY <4>1 DEF AnswerSourced
      <3>2. CASE ~(question.memory \/ question.saves)
        <4>1. PICK best \in H!BestRated : reply' = [H!Plain("best rated") EXCEPT !.products = best]
          BY <1>2, <3>2 DEF H!AnswerDirectly
        <4>2. reply'.citations = {} /\ reply'.text = <<"best rated">>
          BY <4>1 DEF H!Plain, H!NoReply
        <4>3. \A i \in DOMAIN history : history[i].products = {}
          BY <1>2, <3>2 DEF H!AnswerDirectly, H!Shortcut
        <4>4. history = [i \in DOMAIN talk |-> H!PublicMessage(talk[i])]
          BY <1>0, <2>1 DEF Unfiltered
        <4>5. \A i \in DOMAIN talk : talk[i].products = {}
          BY <4>3, <4>4 DEF H!PublicMessage
        <4> QED BY <2>1, <4>2, <4>5 DEF AnswerSourced
      <3> QED BY <3>1, <3>2
    <2>3. Streamed'
      BY <2>1 DEF Streamed, H!NothingSent
    <2> QED BY <1>0, <2>1, <2>2, <2>3
        DEF ShopInv, ShopTypes, Sourced, Unfiltered
  <1>3. CASE H!CallAgent
    <2>1. /\ step = "route" /\ step' = "agent"
          /\ UNCHANGED <<merged, talk, question, history, calls, evidence, draft, sent, reply>>
      BY <1>3 DEF H!CallAgent
    <2> QED BY <1>0, <2>1
        DEF ShopInv, ShopTypes, Sourced, Unfiltered, Streamed, AnswerSourced
  <1>4. ASSUME NEW asked \in Asked, H!CatalogSearch(asked) PROVE ShopInv'
    <2> DEFINE f == H!MergeFilters(asked, H!PreviousFilters(history))
    <2>1. /\ step = "agent"
          /\ evidence' = [evidence EXCEPT
               !.products = @ \cup H!Search(f),
               !.searches = Append(@, [found |-> H!Search(f), filters |-> f])]
          /\ UNCHANGED <<merged, talk, step, question, history, draft, sent, reply>>
      BY <1>4 DEF H!CatalogSearch
    <2>2. f = asked
      <3>1. history = [i \in DOMAIN talk |-> H!PublicMessage(talk[i])]
        BY <1>0, <2>1 DEF Unfiltered
      <3>2. \A i \in DOMAIN history : history[i].filters = None
        BY <3>1 DEF H!PublicMessage
      <3>3. H!PreviousFilters(history) = None
        BY <3>2 DEF H!PreviousFilters
      <3> QED BY <3>3 DEF H!MergeFilters
    <2> HIDE DEF f
    <2>3. evidence.searches \in Seq(Searched) /\ [found |-> H!Search(f), filters |-> f] \in Searched
      BY <1>0, <2>2 DEF ShopTypes, Searched
    <2> DEFINE new == [found |-> H!Search(f), filters |-> f]
               l == Len(evidence.searches)
    <2> HIDE DEF new
    <2>4. /\ Append(evidence.searches, new) \in Seq(Searched)
          /\ l \in Nat /\ DOMAIN evidence.searches = 1..l
          /\ DOMAIN Append(evidence.searches, new) = 1..l + 1
          /\ Append(evidence.searches, new)[l + 1] = new
          /\ \A i \in 1..l : Append(evidence.searches, new)[i] = evidence.searches[i]
      BY <2>3, AppendProperties, LenProperties DEF new
    <2>5. /\ evidence'.products = evidence.products \cup H!Search(f)
          /\ evidence'.citations = evidence.citations
          /\ evidence'.searches = Append(evidence.searches, new)
      BY <1>0, <2>1 DEF ShopTypes, new
    <2>6. ShopTypes'
      BY <1>0, <2>1, <2>4, <2>5, SearchType DEF ShopTypes, new
    <2>7. Sourced'
      <3> SUFFICES ASSUME NEW p \in evidence'.products
                   PROVE  \/ p \in {ProductOf[r] : r \in evidence'.citations}
                          \/ \E i \in DOMAIN evidence'.searches : p \in evidence'.searches[i].found
        BY DEF Sourced
      <3>1. CASE p \in evidence.products
        <4>1. \A i \in 1..l : i \in 1..l + 1
          BY <2>4
        <4> QED BY <1>0, <2>4, <2>5, <3>1, <4>1 DEF Sourced
      <3>2. CASE p \in H!Search(f)
        <4>1. new.found = H!Search(f) /\ l + 1 \in 1..l + 1
          BY <2>4 DEF new
        <4> QED BY <2>4, <2>5, <3>2, <4>1
      <3> QED BY <2>5, <3>1, <3>2
    <2>8. /\ evidence.products \subseteq evidence'.products
          /\ evidence.citations \subseteq evidence'.citations
      BY <2>5
    <2> QED BY <2>1, <2>6, <2>7, <2>8, EvidenceAdded
  <1>5. CASE H!ReviewSearch
    <2>1. PICK found \in SUBSET Reviews :
            evidence' = [evidence EXCEPT
              !.products = @ \cup H!ByIds({ProductOf[r] : r \in found}),
              !.citations = @ \cup found]
      BY <1>5 DEF H!ReviewSearch
    <2> DEFINE cards == H!ByIds({ProductOf[r] : r \in found})
    <2>2. /\ step = "agent"
          /\ UNCHANGED <<merged, talk, step, question, history, draft, sent, reply>>
      BY <1>5 DEF H!ReviewSearch
    <2>3. cards \subseteq {ProductOf[r] : r \in found} /\ cards \subseteq Products
      BY SearchType
    <2>4. /\ evidence'.products = evidence.products \cup cards
          /\ evidence'.citations = evidence.citations \cup found
          /\ evidence'.searches = evidence.searches
      BY <1>0, <2>1 DEF ShopTypes
    <2>5. ShopTypes'
      BY <1>0, <2>1, <2>2, <2>3 DEF ShopTypes
    <2> HIDE DEF cards
    <2>6. Sourced'
      BY <1>0, <2>3, <2>4 DEF Sourced
    <2>7. /\ evidence.products \subseteq evidence'.products
          /\ evidence.citations \subseteq evidence'.citations
      BY <2>4
    <2> QED BY <2>2, <2>5, <2>6, <2>7, EvidenceAdded
  <1>6. ASSUME NEW d \in H!Drafts, H!StartDraft(d) PROVE ShopInv'
    <2>1. /\ step = "agent" /\ step' = "draft" /\ draft' = d
          /\ UNCHANGED <<merged, talk, question, history, calls, evidence, sent, reply>>
      BY <1>6 DEF H!StartDraft
    <2>2. draft' \in [products : SUBSET Products, citations : SUBSET Reviews,
                      pieces : Nat, wrong : BOOLEAN]
      BY <2>1 DEF H!Drafts
    <2> QED BY <1>0, <2>1, <2>2
        DEF ShopInv, ShopTypes, Sourced, Unfiltered, Streamed, AnswerSourced
  <1>7. CASE H!AcceptPiece
    <2>1. /\ step = "draft" /\ draft' = [draft EXCEPT !.pieces = @ + 1]
          /\ \/ /\ H!Authorized(draft')
                /\ sent'.products = sent.products \cup draft'.products
                /\ sent'.citations = sent.citations \cup draft'.citations
             \/ sent' = sent
          /\ UNCHANGED <<merged, talk, step, question, history, calls, evidence, reply>>
      BY <1>7 DEF H!AcceptPiece
    <2>2. ShopTypes'
      BY <1>0, <2>1 DEF ShopTypes
    <2>3. Streamed'
      BY <1>0, <2>1 DEF Streamed, H!Authorized
    <2> QED BY <1>0, <2>1, <2>2, <2>3 DEF ShopInv, Sourced, Unfiltered, AnswerSourced
  <1>8. CASE H!DiscardDraft
    <2>1. /\ merged /\ step = "draft" /\ step' = "agent" /\ draft' = H!NoDraft
          /\ UNCHANGED <<merged, talk, question, history, calls, evidence, sent, reply>>
      BY <1>8 DEF H!DiscardDraft
    <2> QED BY <1>0, <2>1, NoEvidenceType
        DEF ShopInv, ShopTypes, Sourced, Unfiltered, Streamed, AnswerSourced
  <1>9. CASE H!Hydrate
    <2>1. /\ step \in {"draft", "final"} /\ step' = "save" /\ H!Authorized(draft)
          /\ reply' = H!Hydrated(draft)
          /\ UNCHANGED <<merged, talk, question, history, calls, evidence, draft, sent>>
      BY <1>9 DEF H!Hydrate
    <2>2. reply'.products = draft.products /\ reply'.citations \subseteq draft.citations
      BY <2>1 DEF H!Hydrated
    <2>3. AnswerSourced'
      BY <2>1, <2>2 DEF AnswerSourced, H!Authorized
    <2> QED BY <1>0, <2>1, <2>3
        DEF ShopInv, ShopTypes, Sourced, Unfiltered, Streamed
  <1>10. CASE H!LimitReached
    <2>1. /\ step = "agent" /\ step' = "save" /\ reply' = H!Plain("limit")
          /\ UNCHANGED <<merged, talk, question, history, calls, evidence, draft, sent>>
      BY <1>10 DEF H!LimitReached
    <2>2. reply'.products = {} /\ reply'.citations = {}
      BY <2>1 DEF H!Plain, H!NoReply
    <2> QED BY <1>0, <2>1, <2>2
        DEF ShopInv, ShopTypes, Sourced, Unfiltered, Streamed, AnswerSourced
  <1>11. CASE H!Fail
    BY <1>11, TurnOver DEF H!Fail
  <1>12. CASE H!Save
    BY <1>12, TurnOver DEF H!Save
  <1>13. CASE UNCHANGED H!shopVars
    <2>1. UNCHANGED <<merged, talk, step, history, evidence, draft, sent, reply>>
      BY <1>13 DEF H!shopVars
    <2> QED BY <1>0, <2>1
        DEF ShopInv, ShopTypes, Sourced, Unfiltered, Streamed, AnswerSourced,
            H!Authorized
  <1>14. ASSUME NEW d \in H!Drafts, H!FinalDraft(d) PROVE ShopInv'
    <2>1. /\ step' = "final" /\ draft' = [d EXCEPT !.pieces = 2]
          /\ UNCHANGED <<merged, talk, question, history, calls, evidence, sent, reply>>
          /\ step \in {"agent", "draft"}
      BY <1>14 DEF H!FinalDraft, H!LastPiece
    <2>2. draft' \in [products : SUBSET Products, citations : SUBSET Reviews,
                      pieces : Nat, wrong : BOOLEAN]
      BY <2>1 DEF H!Drafts
    <2> QED BY <1>0, <2>1, <2>2
        DEF ShopInv, ShopTypes, Sourced, Unfiltered, Streamed, AnswerSourced
  <1> QED BY <1>1, <1>2, <1>3, <1>4, <1>5, <1>6, <1>7, <1>8, <1>9, <1>10, <1>11, <1>12, <1>13,
             <1>14 DEF H!Next

\* Nothing the agent shows is invented: cards and citations were retrieved in
\* this very turn, under a budget no card that only a search brought is without a
\* price or above it, and prose that was streamed, for a draft that is kept,
\* discarded or replaced, was written for drafts all of whose ids were retrieved.
THEOREM NothingInvented == SuiteSpec => []ShownIsRetrieved
  <1>1. ShopInv => ShownIsRetrieved
    <2> SUFFICES ASSUME ShopInv PROVE ShownIsRetrieved
      OBVIOUS
    <2>1. step = "save" /\ reply.text # <<"best rated">> =>
            reply.products \subseteq evidence.products /\ reply.citations \subseteq evidence.citations
      BY DEF ShopInv, AnswerSourced
    <2>2. ASSUME NEW p \in evidence.products
          PROVE  \/ p \in {ProductOf[r] : r \in evidence.citations}
                 \/ \E i \in DOMAIN evidence.searches :
                      p \in H!BuildFilter(evidence.searches[i].filters)
      <3>1. CASE p \in {ProductOf[r] : r \in evidence.citations}
        BY <3>1
      <3>2. CASE \E i \in DOMAIN evidence.searches : p \in evidence.searches[i].found
        <4>1. PICK i \in DOMAIN evidence.searches : p \in evidence.searches[i].found
          BY <3>2
        <4>2. evidence.searches[i] \in Searched
          BY ElementOfSeq, LenProperties DEF ShopInv, ShopTypes
        <4>3. evidence.searches[i].found = H!Search(evidence.searches[i].filters)
          BY <4>2 DEF Searched
        <4> QED BY <4>1, <4>3, SearchType
      <3> QED BY <3>1, <3>2 DEF ShopInv, Sourced
    <2>3. \A p, f : p \in H!BuildFilter(f) /\ f.price # None =>
            H!Documents[p].price # None /\ H!Documents[p].price <= f.price
      BY DEF H!BuildFilter
    <2>4. /\ sent.products \subseteq evidence.products
          /\ sent.citations \subseteq evidence.citations
      BY DEF ShopInv, Streamed
    <2> QED BY <2>1, <2>2, <2>3, <2>4 DEF ShownIsRetrieved, H!ShownIsRetrieved
  <1> QED BY ShopperPart, ShopInit, ShopNext, <1>1, PTL DEF H!Spec

\* A follow-up never gets the whole catalog: once products were shown in the
\* conversation, cards come only out of the turn's own searches.
THEOREM GroundedFollowUps == SuiteSpec => []FollowUpsStayGrounded
  <1>1. ShopInv => FollowUpsStayGrounded
    BY DEF ShopInv, AnswerSourced, FollowUpsStayGrounded, H!FollowUpsStayGrounded
  <1> QED BY ShopperPart, ShopInit, ShopNext, <1>1, PTL DEF H!Spec

-----------------------------------------------------------------------------
(* Lists.  What the updates of a list keep, drop and bound.                 *)

\* Counting means the same inside the instance.
LEMMA SameCount ==
  /\ \A S : P!Cardinality(S) = Cardinality(S)
  /\ \A S : P!IsFiniteSet(S) <=> IsFiniteSet(S)
  <1>1. \A S : P!IsFiniteSet(S) <=> IsFiniteSet(S)
    BY Zenon DEF P!IsFiniteSet, IsFiniteSet
  <1>2. \A S : P!Cardinality(S) = Cardinality(S)
    BY Zenon DEF P!Cardinality, Cardinality
  <1> QED BY <1>1, <1>2

Distinct(items) == \A i, j \in DOMAIN items : items[i] = items[j] => i = j

\* Every position up to the size of a set of numbers is that of one member.
LEMMA Ranked ==
  ASSUME NEW l \in Nat, NEW K \in SUBSET (1..l)
  PROVE  /\ IsFiniteSet(K) /\ Cardinality(K) \in Nat /\ Cardinality(K) <= l
         /\ \A n \in 1..Cardinality(K) : \E i \in K : Cardinality({j \in K : j < i}) = n - 1
         /\ \A i \in K : Cardinality({j \in K : j < i}) + 1 \in 1..Cardinality(K)
         /\ \A i, k \in K :
              Cardinality({j \in K : j < i}) = Cardinality({j \in K : j < k}) => i = k
  <1> DEFINE Below(i) == {j \in K : j < i}
             c == Cardinality(K)
             f == [i \in K |-> Cardinality(Below(i)) + 1]
  <1>1. IsFiniteSet(1..l) /\ Cardinality(1..l) = l
    BY FS_Interval
  <1>2. IsFiniteSet(K) /\ c \in Nat /\ c <= l
    BY <1>1, FS_Subset, FS_CardinalityType
  <1>3. \A i \in K : IsFiniteSet(Below(i)) /\ Cardinality(Below(i)) \in Nat
    <2> SUFFICES ASSUME NEW i \in K
                 PROVE  IsFiniteSet(Below(i)) /\ Cardinality(Below(i)) \in Nat
      OBVIOUS
    <2>1. Below(i) \in SUBSET K
      OBVIOUS
    <2> QED BY <1>2, <2>1, FS_Subset, FS_CardinalityType
  <1>4. ASSUME NEW i \in K, NEW k \in K, i < k
        PROVE  Cardinality(Below(i)) < Cardinality(Below(k))
    <2>1. i \notin Below(i)
      OBVIOUS
    <2>2. Below(i) \cup {i} \in SUBSET Below(k)
      <3>1. \A j \in K : j < i => j < k
        BY <1>4
      <3> QED BY <1>4, <3>1
    <2>3. Cardinality(Below(i) \cup {i}) = Cardinality(Below(i)) + 1
      BY <1>3, <2>1, FS_AddElement
    <2>4. Cardinality(Below(i) \cup {i}) <= Cardinality(Below(k))
      BY <1>3, <2>2, FS_Subset
    <2> HIDE DEF Below
    <2> QED BY <1>3, <2>3, <2>4
  <1>5. ASSUME NEW i \in K PROVE Cardinality(Below(i)) + 1 \in 1..c
    <2>1. i \notin Below(i) /\ Below(i) \cup {i} \in SUBSET K
      OBVIOUS
    <2>2. Cardinality(Below(i) \cup {i}) = Cardinality(Below(i)) + 1
      BY <1>3, <2>1, FS_AddElement
    <2>3. Cardinality(Below(i) \cup {i}) <= c
      BY <1>2, <2>1, FS_Subset
    <2> HIDE DEF Below, c
    <2> QED BY <1>2, <1>3, <2>2, <2>3
  <1>6. ASSUME NEW i \in K, NEW k \in K, Cardinality(Below(i)) = Cardinality(Below(k))
        PROVE  i = k
    <2>1. i \in Nat /\ k \in Nat
      OBVIOUS
    <2>2. ~(i < k) /\ ~(k < i)
      <3> HIDE DEF Below
      <3> QED BY <1>3, <1>4, <1>6
    <2> QED BY <2>1, <2>2
  <1> HIDE DEF Below, c
  <1>7. f \in [K -> 1..c]
    BY <1>5
  <1>8. \A i, k \in K : f[i] = f[k] => i = k
    BY <1>3, <1>6
  <1>9. f \in Injection(K, 1..c)
    <2> HIDE DEF f
    <2> QED BY <1>7, <1>8 DEF Injection, IsInjective
  <1>10. f \in Surjection(K, 1..c)
    <2>1. IsFiniteSet(1..c) /\ Cardinality(1..c) = c
      BY <1>2, FS_Interval
    <2> HIDE DEF f
    <2> QED BY <1>9, <2>1, FS_Injection DEF c
  <1>11. ASSUME NEW n \in 1..c PROVE \E i \in K : Cardinality(Below(i)) = n - 1
    <2>1. PICK i \in K : f[i] = n
      BY <1>10 DEF Surjection
    <2>2. Cardinality(Below(i)) = n - 1
      BY <1>2, <1>3, <2>1
    <2> QED BY <2>2
  <1> QED BY <1>2, <1>5, <1>6, <1>11 DEF Below, c

LEMMA WithoutProperties ==
  ASSUME NEW V, NEW v, NEW items \in Seq(V)
  PROVE  /\ P!Without(v, items) \in Seq(V)
         /\ Len(P!Without(v, items)) <= Len(items)
         /\ P!ToSet(P!Without(v, items)) = P!ToSet(items) \ {v}
         /\ Distinct(items) => Distinct(P!Without(v, items))
  <1> DEFINE l == Len(items)
             K == {i \in DOMAIN items : items[i] # v}
             Rank(i) == P!Cardinality({j \in K : j < i})
             c == P!Cardinality(K)
             At(n) == CHOOSE i \in K : Rank(i) = n - 1
             w == [n \in 1..c |-> items[At(n)]]
  <1>1. l \in Nat /\ DOMAIN items = 1..l /\ \A i \in 1..l : items[i] \in V
    BY LenProperties, ElementOfSeq
  <1>2. K \in SUBSET (1..l)
    BY <1>1
  <1>3. /\ c \in Nat /\ c <= l
        /\ \A n \in 1..c : \E i \in K : Rank(i) = n - 1
        /\ \A i \in K : Rank(i) + 1 \in 1..c
        /\ \A i, k \in K : Rank(i) = Rank(k) => i = k
    <2>1. c = Cardinality(K) /\ \A i : Rank(i) = Cardinality({j \in K : j < i})
      BY SameCount
    <2>2. /\ Cardinality(K) \in Nat /\ Cardinality(K) <= l
          /\ \A n \in 1..Cardinality(K) : \E i \in K : Cardinality({j \in K : j < i}) = n - 1
          /\ \A i \in K : Cardinality({j \in K : j < i}) + 1 \in 1..Cardinality(K)
          /\ \A i, k \in K :
               Cardinality({j \in K : j < i}) = Cardinality({j \in K : j < k}) => i = k
      BY <1>1, <1>2, Ranked
    <2> HIDE DEF l, K, Rank, c
    <2> QED BY <2>1, <2>2
  <1>4. P!Without(v, items) = w
    BY Zenon DEF P!Without
  <1>5. \A i \in K : i \in 1..l /\ items[i] # v
    BY <1>1
  <1>6. \A i \in 1..l : items[i] # v => i \in K
    BY <1>1
  <1> HIDE DEF l, K, Rank, c
  <1>7. \A n \in 1..c : At(n) \in K /\ Rank(At(n)) = n - 1
    BY <1>3
  <1>8. \A i \in K : At(Rank(i) + 1) = i
    <2> SUFFICES ASSUME NEW i \in K PROVE At(Rank(i) + 1) = i
      OBVIOUS
    <2>1. Rank(i) + 1 \in 1..c /\ Rank(i) \in Int
      <3>1. Rank(i) + 1 \in 1..c
        BY <1>3
      <3>2. Rank(i) \in Nat
        <4>1. IsFiniteSet({j \in K : j < i})
          <5>1. {j \in K : j < i} \in SUBSET (1..l)
            BY <1>2
          <5>2. IsFiniteSet(1..l)
            BY <1>1, FS_Interval
          <5> QED BY <5>1, <5>2, FS_Subset
        <4> QED BY <4>1, SameCount, FS_CardinalityType DEF Rank
      <3> QED BY <3>1, <3>2
    <2>2. At(Rank(i) + 1) \in K /\ Rank(At(Rank(i) + 1)) = Rank(i) + 1 - 1
      BY <1>7, <2>1
    <2>3. Rank(i) + 1 - 1 = Rank(i)
      BY <2>1
    <2> QED BY <1>3, <2>2, <2>3
  <1> HIDE DEF At
  <1>9. w \in Seq(V) /\ Len(w) = c /\ DOMAIN w = 1..c
    <2>1. w \in [1..c -> V]
      BY <1>1, <1>5, <1>7
    <2>2. w \in Seq(V)
      BY <1>3, <2>1
    <2> QED BY <1>3, <2>2, LenProperties
  <1>10. P!ToSet(w) = P!ToSet(items) \ {v}
    <2>1. ASSUME NEW x \in P!ToSet(w) PROVE x \in P!ToSet(items) \ {v}
      <3>1. PICK n \in 1..c : x = w[n]
        BY <1>9 DEF P!ToSet
      <3> QED BY <1>1, <1>5, <1>7, <3>1 DEF P!ToSet
    <2>2. ASSUME NEW x \in P!ToSet(items), x # v PROVE x \in P!ToSet(w)
      <3>1. PICK i \in 1..l : x = items[i]
        BY <1>1 DEF P!ToSet
      <3>2. i \in K
        BY <1>6, <2>2, <3>1
      <3>3. w[Rank(i) + 1] = x /\ Rank(i) + 1 \in 1..c
        BY <1>3, <1>8, <3>1, <3>2
      <3> QED BY <1>9, <3>3 DEF P!ToSet
    <2> QED BY <2>1, <2>2
  <1>11. ASSUME Distinct(items) PROVE Distinct(w)
    <2> SUFFICES ASSUME NEW m \in 1..c, NEW n \in 1..c, w[m] = w[n] PROVE m = n
      BY <1>9 DEF Distinct
    <2>1. At(m) = At(n)
      BY <1>1, <1>5, <1>7, <1>11 DEF Distinct
    <2>2. m - 1 = n - 1
      BY <1>7, <2>1
    <2> QED BY <1>3, <2>2
  <1> HIDE DEF w
  <1> QED BY <1>3, <1>4, <1>9, <1>10, <1>11 DEF l

LEMMA AppendedList ==
  ASSUME NEW V, NEW v \in V, NEW items \in Seq(V)
  PROVE  /\ Append(items, v) \in Seq(V) /\ Len(Append(items, v)) = Len(items) + 1
         /\ P!ToSet(Append(items, v)) = P!ToSet(items) \cup {v}
         /\ Distinct(items) /\ v \notin P!ToSet(items) => Distinct(Append(items, v))
  <1> DEFINE l == Len(items)
             w == Append(items, v)
  <1>1. /\ l \in Nat /\ DOMAIN items = 1..l /\ w \in Seq(V) /\ Len(w) = l + 1
        /\ DOMAIN w = 1..l + 1 /\ w[l + 1] = v /\ \A i \in 1..l : w[i] = items[i]
    BY LenProperties, AppendProperties
  <1> HIDE DEF l, w
  <1>2. \A i : i \in 1..l + 1 <=> i \in 1..l \/ i = l + 1
    BY <1>1
  <1>3. P!ToSet(w) = P!ToSet(items) \cup {v}
    BY <1>1, <1>2 DEF P!ToSet
  <1>4. ASSUME Distinct(items), v \notin P!ToSet(items) PROVE Distinct(w)
    <2>1. \A i \in 1..l : items[i] # v
      BY <1>1, <1>4 DEF P!ToSet
    <2> QED BY <1>1, <1>2, <1>4, <2>1 DEF Distinct
  <1> QED BY <1>1, <1>3, <1>4 DEF l, w

LEMMA NewestProperties ==
  ASSUME NEW V, NEW items \in Seq(V), NEW n \in Nat
  PROVE  P!Newest(items, n) \in Seq(V) /\ Len(P!Newest(items, n)) <= n
  <1> DEFINE l == Len(items)
             a == IF l > n THEN l - n + 1 ELSE 1
  <1>1. l \in Nat /\ \A i \in 1..l : items[i] \in V
    BY LenProperties, ElementOfSeq
  <1> HIDE DEF l
  <1>2. a \in Int /\ a >= 1 /\ l - a + 1 <= n /\ \A i \in a..l : i \in 1..l
    BY <1>1
  <1> HIDE DEF a
  <1>3. SubSeq(items, a, l) \in Seq(V) /\ Len(SubSeq(items, a, l)) = IF a <= l THEN l - a + 1 ELSE 0
    BY <1>1, <1>2, SubSeqProperties
  <1>4. Len(SubSeq(items, a, l)) <= n
    BY <1>1, <1>2, <1>3
  <1> QED BY <1>3, <1>4 DEF P!Newest, l, a

\* A list without repetitions is as long as the set of its values is large.
LEMMA DistinctSize ==
  ASSUME NEW V, NEW items \in Seq(V), Distinct(items)
  PROVE  Len(items) = Cardinality(P!ToSet(items))
  <1> DEFINE l == Len(items)
             S == P!ToSet(items)
  <1>1. l \in Nat /\ DOMAIN items = 1..l /\ items \in [1..l -> S]
    BY DEF P!ToSet
  <1>2. S = {items[i] : i \in 1..l}
    BY <1>1 DEF P!ToSet
  <1> HIDE DEF l, S
  <1>3. items \in Bijection(1..l, S)
    BY <1>1, <1>2 DEF Distinct, Bijection, Injection, IsInjective, Surjection
  <1>4. IsFiniteSet(1..l) /\ Cardinality(1..l) = l
    BY <1>1, FS_Interval
  <1>5. Cardinality(S) = l
    <2>1. IsFiniteSet(1..l) /\ items \in Bijection(1..l, S)
      BY <1>3, <1>4
    <2>2. ExistsBijection(1..l, S)
      BY <2>1 DEF ExistsBijection
    <2> QED BY <1>4, <2>1, <2>2, FS_Bijection
  <1> QED BY <1>5 DEF l, S

-----------------------------------------------------------------------------
(* The memory.  A caller between its read and its write has seen room in   *)
(* the list, so the list and the callers about to add to it are together   *)
(* below the limit by as much as one of them; and what a caller was told   *)
(* is among the colours.                                                    *)

Tasks == [step : {"idle", "read", "write"}, plan : Seq(P!Changes),
          source : {None, "patch", "turn", "gone"}]

\* A caller that is at work has a change at hand, and reads only to add.
AtHand(t) == /\ t.step # "idle" => t.plan # <<>>
             /\ t.step = "read" => Head(t.plan).action = "add"

PrefTypes == /\ saved \in [P!Fields -> Seq(Values)]
             /\ task \in [Writers -> Tasks]
             /\ \A w \in Writers : AtHand(task[w])

Adds(t) == /\ t.step = "write"
           /\ Head(t.plan).action = "add" /\ Head(t.plan).field = "colors"

Room == Len(saved["colors"]) + Cardinality({w \in Writers : Adds(task[w])})
          <= TypedLimit + Cardinality(Writers) - 1

PrefInv ==
  /\ PrefTypes
  /\ Len(saved["memories"]) <= MemoryLimit
  /\ Distinct(saved["colors"])
  /\ Room
  /\ P!NothingKnownIsLost

\* What a caller is about to do when it turns to a plan, and that this is never
\* the write of an add.
LEMMA TurnedTo ==
  ASSUME NEW plan \in Seq(P!Changes), NEW s \in {None, "patch", "turn", "gone"},
         NEW t, t = [step |-> P!FirstStep(plan), plan |-> plan, source |-> s]
  PROVE  t \in Tasks /\ AtHand(t) /\ ~Adds(t)
  BY DEF Tasks, AtHand, Adds, P!FirstStep

LEMMA AtRest == P!Resting \in Tasks /\ AtHand(P!Resting) /\ ~Adds(P!Resting)
  <1>1. <<>> \in Seq(P!Changes)
    OBVIOUS
  <1> QED BY <1>1 DEF P!Resting, Tasks, AtHand, Adds

\* The change at hand, and what it makes of its list.
LEMMA Applied ==
  ASSUME PartSettings, NEW c \in P!Changes, NEW items \in Seq(Values)
  PROVE  /\ c.field \in P!Fields
         /\ P!Apply(c, items) \in Seq(Values)
         /\ c.field = "memories" /\ Len(items) <= MemoryLimit => Len(P!Apply(c, items)) <= MemoryLimit
         /\ c.field = "colors" =>
              /\ Distinct(items) => Distinct(P!Apply(c, items))
              /\ Len(P!Apply(c, items)) <= Len(items) + (IF c.action = "add" THEN 1 ELSE 0)
              /\ c.action \in {"add", "remove", "clear"}
              /\ c.action = "add" => P!ToSet(P!Apply(c, items)) = P!ToSet(items) \cup {c.value}
              /\ c.action = "remove" => P!ToSet(P!Apply(c, items)) = P!ToSet(items) \ {c.value}
  <1>0. MemoryLimit \in Nat /\ Len(items) \in Nat
    BY DEF PartSettings, P!PreferenceSettings
  <1>1. CASE c.action = "clear"
    <2>1. P!Apply(c, items) = <<>> /\ <<>> \in Seq(Values) /\ Len(<<>>) = 0
      BY <1>1 DEF P!Apply
    <2>2. Distinct(<<>>)
      BY DEF Distinct
    <2>3. c.field \in P!Fields
      BY DEF P!Changes, P!Fields, P!ListFields
    <2> QED BY <1>0, <1>1, <2>1, <2>2, <2>3
  <1>2. CASE c.action = "set"
    <2>1. c.field = "size" /\ c.value \in Values
      BY <1>2 DEF P!Changes
    <2>2. P!Apply(c, items) = <<c.value>>
      BY <1>2 DEF P!Apply
    <2> QED BY <2>1, <2>2 DEF P!Fields
  <1>3. CASE c.action = "remove"
    <2>1. c.field \in P!ListFields /\ P!Apply(c, items) = P!Without(c.value, items)
      BY <1>3 DEF P!Changes, P!Apply
    <2>2. /\ P!Without(c.value, items) \in Seq(Values)
          /\ Len(P!Without(c.value, items)) <= Len(items)
          /\ P!ToSet(P!Without(c.value, items)) = P!ToSet(items) \ {c.value}
          /\ Distinct(items) => Distinct(P!Without(c.value, items))
      BY WithoutProperties
    <2>3. Len(P!Without(c.value, items)) \in Nat
      BY <2>2, LenProperties
    <2> QED BY <1>0, <1>3, <2>1, <2>2, <2>3 DEF P!ListFields, P!Fields
  <1>4. CASE c.action = "add" /\ c.field = "memories"
    <2>1. c.value \in Values
      BY <1>4 DEF P!Changes
    <2>2. Append(items, c.value) \in Seq(Values)
      BY <2>1, AppendedList
    <2>3. P!Apply(c, items) = P!Newest(Append(items, c.value), MemoryLimit)
      BY <1>4 DEF P!Apply
    <2>4. P!Apply(c, items) \in Seq(Values) /\ Len(P!Apply(c, items)) <= MemoryLimit
      BY <1>0, <2>2, <2>3, NewestProperties
    <2> QED BY <1>4, <2>4 DEF P!Fields
  <1>5. CASE c.action = "add" /\ c.field = "colors"
    <2>1. c.value \in Values
      BY <1>5 DEF P!Changes
    <2>2. P!Apply(c, items) = IF c.value \in P!ToSet(items) THEN items ELSE Append(items, c.value)
      BY <1>5 DEF P!Apply, P!AddToSet
    <2>3. CASE c.value \in P!ToSet(items)
      <3>1. P!Apply(c, items) = items
        BY <2>2, <2>3
      <3> QED BY <1>0, <1>5, <2>3, <3>1 DEF P!Fields
    <2>4. CASE c.value \notin P!ToSet(items)
      <3>1. P!Apply(c, items) = Append(items, c.value)
        BY <2>2, <2>4
      <3>2. /\ Append(items, c.value) \in Seq(Values) /\ Len(Append(items, c.value)) = Len(items) + 1
            /\ P!ToSet(Append(items, c.value)) = P!ToSet(items) \cup {c.value}
            /\ Distinct(items) => Distinct(Append(items, c.value))
        BY <2>1, <2>4, AppendedList
      <3> QED BY <1>0, <1>5, <3>1, <3>2 DEF P!Fields
    <2> QED BY <2>3, <2>4
  <1> QED BY <1>1, <1>2, <1>3, <1>4, <1>5 DEF P!Changes, P!ListFields

Adders == {w \in Writers : Adds(task[w])}

LEMMA PrefInit == P!Init => PrefInv
  <1> SUFFICES ASSUME P!Init PROVE PrefInv
    OBVIOUS
  <1>1. /\ saved = [f \in P!Fields |-> <<>>] /\ kept = {}
        /\ task = [w \in Writers |-> P!Resting]
    BY DEF P!Init, P!Nothing
  <1>2. saved["memories"] = <<>> /\ saved["colors"] = <<>>
    BY <1>1 DEF P!Fields
  <1>3. PrefTypes
    BY <1>1, AtRest DEF PrefTypes
  <1>4. Distinct(<<>>) /\ Len(<<>>) = 0
    BY DEF Distinct
  <1>5. Room
    <2>1. {w \in Writers : Adds(task[w])} = {}
      BY <1>1, AtRest
    <2>2. Cardinality(Writers) \in Nat /\ Cardinality(Writers) # 0
      BY PartSettings, SameCount, FS_CardinalityType, FS_EmptySet DEF PartSettings, P!PreferenceSettings
    <2>3. Cardinality({}) = 0 /\ TypedLimit \in Nat
      BY PartSettings, SameCount, FS_EmptySet DEF PartSettings, P!PreferenceSettings
    <2> DEFINE k == Cardinality(Writers)
    <2>4. 0 + 0 <= TypedLimit + k - 1
      <3>1. k \in Nat /\ k # 0
        BY <2>2
      <3> HIDE DEF k
      <3> QED BY <2>3, <3>1
    <2> QED BY <1>2, <1>4, <2>1, <2>3, <2>4 DEF Room
  <1>6. Len(saved["memories"]) <= MemoryLimit
    BY <1>2, <1>4, PartSettings DEF PartSettings, P!PreferenceSettings
  <1> QED BY <1>1, <1>2, <1>3, <1>4, <1>5, <1>6 DEF PrefInv, P!NothingKnownIsLost

\* One caller turns to something else.
LEMMA OneTask ==
  ASSUME PrefTypes, NEW w \in Writers, NEW t \in Tasks, AtHand(t),
         task' = [task EXCEPT ![w] = t]
  PROVE  /\ task' \in [Writers -> Tasks] /\ \A u \in Writers : AtHand(task'[u])
         /\ ~Adds(t) => Adders' = Adders \ {w}
  BY DEF PrefTypes, Adders

\* With fewer callers about to add and no longer a list there is room as before.
LEMMA RoomKept ==
  ASSUME PrefInv, Adders' \subseteq Adders, saved'["colors"] \in Seq(Values),
         Len(saved'["colors"]) <= Len(saved["colors"])
  PROVE  Room'
  <1>1. IsFiniteSet(Writers) /\ TypedLimit \in Nat
    BY PartSettings, SameCount DEF PartSettings, P!PreferenceSettings
  <1>2. IsFiniteSet(Adders) /\ Cardinality(Adders) \in Nat /\ Cardinality(Writers) \in Nat
    BY <1>1, FS_Subset, FS_CardinalityType DEF Adders
  <1>3. Cardinality(Adders') \in Nat /\ Cardinality(Adders') <= Cardinality(Adders)
    BY <1>2, FS_Subset, FS_CardinalityType
  <1>4. Len(saved["colors"]) \in Nat /\ Len(saved'["colors"]) \in Nat
    BY LenProperties DEF PrefInv, PrefTypes, P!Fields
  <1>5. Len(saved["colors"]) + Cardinality(Adders) <= TypedLimit + Cardinality(Writers) - 1
    BY DEF PrefInv, Room, Adders
  <1>6. Len(saved'["colors"]) + Cardinality(Adders') <= TypedLimit + Cardinality(Writers) - 1
    <2> DEFINE a == Len(saved["colors"])
               b == Len(saved'["colors"])
               m == Cardinality(Adders)
               n == Cardinality(Adders')
               k == Cardinality(Writers)
    <2>1. /\ a \in Nat /\ b \in Nat /\ m \in Nat /\ n \in Nat /\ k \in Nat /\ b <= a /\ n <= m
          /\ a + m <= TypedLimit + k - 1
      BY <1>2, <1>3, <1>4, <1>5
    <2> HIDE DEF a, b, m, n, k
    <2>2. b + n <= TypedLimit + k - 1
      BY <1>1, <2>1
    <2> QED BY <2>2 DEF b, n, k
  <1> QED BY <1>6 DEF Room, Adders

\* Done with a change, or refused it.
LEMMA Onwards ==
  ASSUME PrefTypes, NEW w \in Writers, task[w].step # "idle",
         P!Advance(w) \/ P!Refuse(w)
  PROVE  \E t \in Tasks : AtHand(t) /\ ~Adds(t) /\ task' = [task EXCEPT ![w] = t]
  <1>1. task[w] \in Tasks /\ task[w].plan # <<>>
    BY DEF PrefTypes, AtHand
  <1>2. Tail(task[w].plan) \in Seq(P!Changes)
    BY <1>1 DEF Tasks
  <1>3. CASE task' = [task EXCEPT ![w] = P!Resting]
    BY <1>3, AtRest
  <1>4. ASSUME NEW t, t = [step |-> P!FirstStep(Tail(task[w].plan)), plan |-> Tail(task[w].plan),
                           source |-> task[w].source],
               task' = [task EXCEPT ![w] = t]
        PROVE  \E u \in Tasks : AtHand(u) /\ ~Adds(u) /\ task' = [task EXCEPT ![w] = u]
    <2>1. task[w].source \in {None, "patch", "turn", "gone"}
      BY <1>1 DEF Tasks
    <2>2. t \in Tasks /\ AtHand(t) /\ ~Adds(t)
      BY <1>2, <1>4, <2>1, TurnedTo
    <2> QED BY <1>4, <2>2
  <1> QED BY <1>3, <1>4 DEF P!Advance, P!Refuse

\* What the caller is told of a change that was applied, or was so already.
LEMMA Told ==
  ASSUME PrefInv, NEW c \in P!Changes, P!Acknowledge(c),
         c.field # "colors" => saved'["colors"] = saved["colors"],
         c.field = "colors" =>
           \/ c.action = "add" /\ P!ToSet(saved'["colors"]) = P!ToSet(saved["colors"]) \cup {c.value}
           \/ c.action = "remove" /\ P!ToSet(saved'["colors"]) = P!ToSet(saved["colors"]) \ {c.value}
           \/ c.action = "clear"
  PROVE  P!NothingKnownIsLost'
  <1>1. kept \subseteq P!ToSet(saved["colors"])
    BY DEF PrefInv, P!NothingKnownIsLost
  <1>2. CASE c.field # "colors"
    <2>1. kept' = kept
      BY <1>2 DEF P!Acknowledge
    <2> QED BY <1>1, <1>2, <2>1 DEF P!NothingKnownIsLost
  <1>3. CASE c.field = "colors" /\ c.action = "add"
    <2>1. kept' = kept \cup {c.value}
      BY <1>3 DEF P!Acknowledge
    <2> QED BY <1>1, <1>3, <2>1 DEF P!NothingKnownIsLost
  <1>4. CASE c.field = "colors" /\ c.action = "remove"
    <2>1. kept' = kept \ {c.value}
      BY <1>4 DEF P!Acknowledge
    <2> QED BY <1>1, <1>4, <2>1 DEF P!NothingKnownIsLost
  <1>5. CASE c.field = "colors" /\ c.action = "clear"
    <2>1. kept' = {}
      BY <1>5 DEF P!Acknowledge
    <2> QED BY <2>1 DEF P!NothingKnownIsLost
  <1> QED BY <1>2, <1>3, <1>4, <1>5

LEMMA PrefNext == PrefInv /\ [P!Next]_P!prefVars => PrefInv'
  <1> SUFFICES ASSUME PrefInv, [P!Next]_P!prefVars PROVE PrefInv'
    OBVIOUS
  <1>1. /\ PrefTypes /\ Len(saved["memories"]) <= MemoryLimit /\ Distinct(saved["colors"])
        /\ Room /\ P!NothingKnownIsLost /\ "colors" \in P!Fields /\ "memories" \in P!Fields
    BY DEF PrefInv, P!Fields
  <1>2. \A f \in P!Fields : saved[f] \in Seq(Values) /\ Len(saved[f]) \in Nat
    BY <1>1, LenProperties DEF PrefTypes
  <1>3. ASSUME NEW w \in Writers, NEW t \in Tasks, AtHand(t), ~Adds(t),
               task' = [task EXCEPT ![w] = t], UNCHANGED <<saved, kept>>
        PROVE  PrefInv'
    <2>1. PrefTypes' /\ Adders' \subseteq Adders
      BY <1>1, <1>3, OneTask DEF PrefTypes
    <2>2. Room'
      BY <1>1, <1>2, <1>3, <2>1, RoomKept
    <2> QED BY <1>1, <1>3, <2>1, <2>2 DEF PrefInv, P!NothingKnownIsLost
  <1>4. ASSUME NEW w \in Writers, NEW plan \in Plans, P!Patch(w, plan) \/ P!Remember(w, plan)
        PROVE  PrefInv'
    <2>1. plan \in Seq(P!Changes)
      BY PartSettings DEF PartSettings, P!PlanShapes
    <2>2. PICK s \in {"patch", "turn"} :
            task' = [task EXCEPT ![w] = [step |-> P!FirstStep(plan), plan |-> plan, source |-> s]]
      BY <1>4 DEF P!Patch, P!Remember
    <2>3. PICK t : t = [step |-> P!FirstStep(plan), plan |-> plan, source |-> s]
      OBVIOUS
    <2>4. t \in Tasks /\ AtHand(t) /\ ~Adds(t)
      BY <2>1, <2>3, TurnedTo
    <2>5. UNCHANGED <<saved, kept>>
      BY <1>4 DEF P!Patch, P!Remember
    <2> QED BY <1>3, <2>2, <2>3, <2>4, <2>5
  <1>5. ASSUME NEW w \in Writers, P!Read(w) PROVE PrefInv'
    <2>1. PICK c : c = Head(task[w].plan)
      OBVIOUS
    <2>2. task[w].step = "read" /\ task[w] \in Tasks /\ task[w].plan # <<>> /\ c.action = "add"
      BY <1>1, <1>5, <2>1 DEF P!Read, PrefTypes, AtHand
    <2>3. c \in P!Changes
      BY <2>1, <2>2 DEF Tasks
    <2>4. saved' = saved
      BY <1>5 DEF P!Read
    <2>5. CASE P!Refuse(w) /\ UNCHANGED kept
      <3>1. PICK t \in Tasks : AtHand(t) /\ ~Adds(t) /\ task' = [task EXCEPT ![w] = t]
        BY <1>1, <2>2, <2>5, Onwards
      <3> QED BY <1>3, <2>4, <2>5, <3>1
    <2>6. CASE c.value \in P!ToSet(saved[c.field]) /\ P!Advance(w) /\ P!Acknowledge(c)
      <3>1. PICK t \in Tasks : AtHand(t) /\ ~Adds(t) /\ task' = [task EXCEPT ![w] = t]
        BY <1>1, <2>2, <2>6, Onwards
      <3>2. PrefTypes' /\ Adders' \subseteq Adders
        BY <1>1, <2>4, <3>1, OneTask DEF PrefTypes
      <3>3. Room'
        BY <1>1, <1>2, <2>4, <3>2, RoomKept
      <3>4. P!NothingKnownIsLost'
        BY <2>2, <2>3, <2>4, <2>6, Told
      <3> QED BY <1>1, <2>4, <3>2, <3>3, <3>4 DEF PrefInv
    <2>7. CASE /\ ~(c.field = "colors" /\ Len(saved[c.field]) >= TypedLimit)
               /\ task' = [task EXCEPT ![w].step = "write"] /\ UNCHANGED kept
      <3>1. PICK t : t = [task[w] EXCEPT !.step = "write"]
        OBVIOUS
      <3>2. t \in Tasks /\ t.step = "write" /\ t.plan = task[w].plan
        BY <2>2, <3>1 DEF Tasks
      <3>3. AtHand(t) /\ task' = [task EXCEPT ![w] = t]
        BY <2>2, <2>7, <3>1, <3>2 DEF AtHand
      <3>4. CASE ~Adds(t)
        BY <1>3, <2>4, <2>7, <3>2, <3>3, <3>4
      <3>5. CASE Adds(t)
        <4>1. Len(saved["colors"]) < TypedLimit /\ TypedLimit \in Nat
          <5>1. c.field = "colors"
            BY <2>1, <3>2, <3>5 DEF Adds
          <5> QED BY <1>1, <1>2, <2>7, <5>1, PartSettings DEF PartSettings, P!PreferenceSettings
        <4>2. Cardinality(Adders') <= Cardinality(Writers) /\ Cardinality(Adders') \in Nat
              /\ Cardinality(Writers) \in Nat
          BY PartSettings, SameCount, FS_Subset, FS_CardinalityType
          DEF Adders, PartSettings, P!PreferenceSettings
        <4>3. Len(saved["colors"]) + Cardinality(Adders') <= TypedLimit + Cardinality(Writers) - 1
          <5>1. Len(saved["colors"]) \in Nat
            BY <1>1, <1>2
          <5> DEFINE a == Len(saved["colors"])
                     n == Cardinality(Adders')
                     k == Cardinality(Writers)
          <5>2. a \in Nat /\ n \in Nat /\ k \in Nat /\ n <= k /\ a < TypedLimit
            BY <4>1, <4>2, <5>1
          <5> HIDE DEF a, n, k
          <5>3. a + n <= TypedLimit + k - 1
            BY <4>1, <5>2
          <5> QED BY <5>3 DEF a, n, k
        <4>4. Room'
          BY <2>4, <4>3 DEF Room, Adders
        <4>5. PrefTypes'
          BY <1>1, <2>4, <3>2, <3>3, OneTask DEF PrefTypes
        <4> QED BY <1>1, <2>4, <2>7, <4>4, <4>5 DEF PrefInv, P!NothingKnownIsLost
      <3> QED BY <3>4, <3>5
    <2> QED BY <1>5, <2>1, <2>5, <2>6, <2>7 DEF P!Read
  <1>6. ASSUME NEW w \in Writers, P!Write(w) PROVE PrefInv'
    <2>1. PICK c : c = Head(task[w].plan)
      OBVIOUS
    <2>2. task[w].step = "write" /\ task[w] \in Tasks /\ task[w].plan # <<>>
      BY <1>1, <1>6 DEF P!Write, PrefTypes, AtHand
    <2>3. c \in P!Changes
      BY <2>1, <2>2 DEF Tasks
    <2>4. PICK t \in Tasks : AtHand(t) /\ ~Adds(t) /\ task' = [task EXCEPT ![w] = t]
      BY <1>1, <1>6, <2>2, Onwards DEF P!Write
    <2>5. /\ task' \in [Writers -> Tasks] /\ \A u \in Writers : AtHand(task'[u])
          /\ Adders' = Adders \ {w}
      BY <1>1, <2>4, OneTask
    <2>6. CASE UNCHANGED <<saved, kept>>
      BY <1>3, <2>4, <2>6
    <2>7. CASE saved' = [saved EXCEPT ![c.field] = P!Apply(c, @)] /\ P!Acknowledge(c)
      <3>1. PICK new : new = P!Apply(c, saved[c.field])
        OBVIOUS
      <3>2. /\ c.field \in P!Fields /\ saved[c.field] \in Seq(Values)
            /\ saved' = [saved EXCEPT ![c.field] = new]
        <4>1. c.field \in P!Fields
          BY <2>3 DEF P!Changes, P!Fields, P!ListFields
        <4> QED BY <1>2, <2>7, <3>1, <4>1
      <3>3. new \in Seq(Values)
        BY <2>3, <3>1, <3>2, PartSettings, Applied
      <3>4. PrefTypes'
        BY <1>1, <2>5, <3>2, <3>3 DEF PrefTypes
      <3>5. Len(saved'["memories"]) <= MemoryLimit
        BY <1>1, <2>3, <3>1, <3>2, PartSettings, Applied DEF PrefTypes
      <3>6. CASE c.field # "colors"
        <4>1. saved'["colors"] = saved["colors"]
          BY <1>1, <3>2, <3>6 DEF PrefTypes
        <4>2. Room'
          BY <1>1, <1>2, <2>5, <4>1, RoomKept
        <4>3. P!NothingKnownIsLost'
          BY <2>3, <2>7, <3>6, <4>1, Told
        <4> QED BY <1>1, <3>4, <3>5, <4>1, <4>2, <4>3 DEF PrefInv
      <3>7. CASE c.field = "colors"
        <4>1. saved'["colors"] = new /\ new = P!Apply(c, saved["colors"])
          BY <1>1, <3>1, <3>2, <3>7 DEF PrefTypes
        <4>2. /\ Distinct(new)
              /\ Len(new) <= Len(saved["colors"]) + (IF c.action = "add" THEN 1 ELSE 0)
              /\ c.action \in {"add", "remove", "clear"}
              /\ c.action = "add" => P!ToSet(new) = P!ToSet(saved["colors"]) \cup {c.value}
              /\ c.action = "remove" => P!ToSet(new) = P!ToSet(saved["colors"]) \ {c.value}
          BY <1>1, <1>2, <2>3, <3>7, <4>1, PartSettings, Applied
        <4>3. P!NothingKnownIsLost'
          BY <2>3, <2>7, <3>7, <4>1, <4>2, Told
        <4>4. CASE c.action # "add"
          <5>1. Len(saved'["colors"]) <= Len(saved["colors"])
            BY <1>1, <1>2, <4>1, <4>2, <4>4
          <5>2. Room'
            BY <1>1, <2>5, <3>3, <4>1, <5>1, RoomKept
          <5> QED BY <3>4, <3>5, <4>1, <4>2, <4>3, <5>2 DEF PrefInv
        <4>5. CASE c.action = "add"
          <5>1. w \in Adders
            BY <2>1, <2>2, <3>7, <4>5 DEF Adders, Adds
          <5>2. IsFiniteSet(Adders) /\ Cardinality(Adders) \in Nat /\ Cardinality(Writers) \in Nat
            BY PartSettings, SameCount, FS_Subset, FS_CardinalityType
            DEF Adders, PartSettings, P!PreferenceSettings
          <5>3. Cardinality(Adders') = Cardinality(Adders) - 1
            BY <2>5, <5>1, <5>2, FS_RemoveElement
          <5>4. Len(new) \in Nat /\ Len(new) <= Len(saved["colors"]) + 1
                /\ Len(saved["colors"]) \in Nat
            BY <1>1, <1>2, <3>3, <4>2, <4>5, LenProperties
          <5>5. Len(saved["colors"]) + Cardinality(Adders) <= TypedLimit + Cardinality(Writers) - 1
            BY <1>1 DEF Room, Adders
          <5>6. Len(new) + Cardinality(Adders') <= TypedLimit + Cardinality(Writers) - 1
            <6> DEFINE a == Len(saved["colors"])
                       b == Len(new)
                       m == Cardinality(Adders)
                       n == Cardinality(Adders')
                       k == Cardinality(Writers)
            <6>1. /\ a \in Nat /\ b \in Nat /\ m \in Nat /\ n = m - 1 /\ k \in Nat /\ b <= a + 1
                  /\ a + m <= TypedLimit + k - 1 /\ TypedLimit \in Nat
              BY <5>2, <5>3, <5>4, <5>5, PartSettings DEF PartSettings, P!PreferenceSettings
            <6> HIDE DEF a, b, m, n, k
            <6>2. b + n <= TypedLimit + k - 1
              BY <6>1
            <6> QED BY <6>2 DEF b, n, k
          <5>7. Room'
            BY <4>1, <5>6 DEF Room, Adders
          <5> QED BY <3>4, <3>5, <4>1, <4>2, <4>3, <5>7 DEF PrefInv
        <4> QED BY <4>4, <4>5
      <3> QED BY <3>6, <3>7
    <2> QED BY <1>6, <2>1, <2>6, <2>7 DEF P!Write
  <1>7. CASE P!TurnEnds
    <2>1. PICK gone \in SUBSET {w \in Writers : task[w].step = "write"} :
            task' = [w \in Writers |->
                       IF task[w].source # "turn" THEN task[w]
                       ELSE IF w \notin gone THEN P!Resting
                       ELSE [step |-> "write", plan |-> <<Head(task[w].plan)>>, source |-> "gone"]]
      BY <1>7 DEF P!TurnEnds
    <2>2. UNCHANGED <<saved, kept>>
      BY <1>7 DEF P!TurnEnds
    <2>3. ASSUME NEW w \in Writers
          PROVE  task'[w] \in Tasks /\ AtHand(task'[w]) /\ (Adds(task'[w]) => Adds(task[w]))
      <3>1. task[w] \in Tasks /\ AtHand(task[w])
        BY <1>1 DEF PrefTypes
      <3>2. CASE task'[w] = task[w]
        BY <3>1, <3>2
      <3>3. CASE task'[w] = P!Resting
        BY <3>3, AtRest
      <3>4. ASSUME NEW t, t = [step |-> "write", plan |-> <<Head(task[w].plan)>>, source |-> "gone"],
                   task[w].step = "write", task'[w] = t
            PROVE  t \in Tasks /\ AtHand(t) /\ (Adds(t) => Adds(task[w]))
        <4>1. Head(task[w].plan) \in P!Changes
          BY <3>1, <3>4 DEF Tasks, AtHand
        <4>2. PICK h : h = Head(task[w].plan)
          OBVIOUS
        <4>3. t.step = "write" /\ t.plan = <<h>> /\ Head(<<h>>) = h /\ <<h>> # <<>>
          BY <3>4, <4>2
        <4>4. <<h>> \in Seq(P!Changes)
          BY <4>1, <4>2
        <4> QED BY <3>4, <4>2, <4>3, <4>4 DEF Tasks, AtHand, Adds
      <3> QED BY <2>1, <3>2, <3>3, <3>4
    <2>4. PrefTypes' /\ Adders' \subseteq Adders
      <3>1. task' \in [Writers -> Tasks]
        <4>1. DOMAIN task' = Writers /\ task' = [w \in Writers |-> task'[w]]
          BY <2>1
        <4> QED BY <2>3, <4>1
      <3> QED BY <1>1, <2>2, <2>3, <3>1 DEF PrefTypes, Adders
    <2>5. Room'
      BY <1>1, <1>2, <2>2, <2>4, RoomKept
    <2> QED BY <1>1, <2>2, <2>4, <2>5 DEF PrefInv, P!NothingKnownIsLost
  <1>8. CASE P!AccountDeleted
    <2>1. saved' = [f \in P!Fields |-> <<>>] /\ kept' = {} /\ task' = task
      BY <1>8 DEF P!AccountDeleted, P!Nothing
    <2>2. saved'["colors"] = <<>> /\ saved'["memories"] = <<>> /\ <<>> \in Seq(Values)
          /\ Len(<<>>) = 0 /\ Distinct(<<>>) /\ Adders' = Adders
      BY <1>1, <2>1 DEF Distinct, Adders
    <2>3. PrefTypes'
      BY <1>1, <2>1, <2>2 DEF PrefTypes
    <2>4. Room'
      BY <1>1, <1>2, <2>2, RoomKept
    <2>5. Len(saved'["memories"]) <= MemoryLimit
      BY <2>2, PartSettings DEF PartSettings, P!PreferenceSettings
    <2> QED BY <2>1, <2>2, <2>3, <2>4, <2>5 DEF PrefInv, P!NothingKnownIsLost
  <1>9. CASE UNCHANGED <<saved, task, kept>>
    BY <1>1, <1>9 DEF PrefInv, PrefTypes, Room, P!NothingKnownIsLost
  <1> QED BY <1>4, <1>5, <1>6, <1>7, <1>8, <1>9 DEF P!Next, P!prefVars, P!TurnStarts

\* A preference a caller was told is remembered stays until it is taken back,
\* whatever other callers add meanwhile.
THEOREM NothingForgotten == SuiteSpec => []NothingKnownIsLost
  <1>1. PrefInv => NothingKnownIsLost
    BY DEF PrefInv, NothingKnownIsLost
  <1> QED BY PreferencesPart, PrefInit, PrefNext, <1>1, PTL DEF P!Spec

\* A list stays a set, and overshoots its limit by no more than the other
\* callers that were between their read and their write.
THEOREM BoundedMemory == SuiteSpec => []OvershootIsBounded
  <1>1. PrefInv => OvershootIsBounded
    <2> SUFFICES ASSUME PrefInv PROVE P!OvershootIsBounded
      BY DEF OvershootIsBounded
    <2>1. saved["colors"] \in Seq(Values) /\ Distinct(saved["colors"])
      BY DEF PrefInv, PrefTypes, P!Fields
    <2>2. Len(saved["colors"]) = Cardinality(P!ToSet(saved["colors"]))
      BY <2>1, DistinctSize
    <2>3. P!AddersInFlight = {w \in Writers : Adds(task[w])}
      BY DEF P!AddersInFlight, Adds
    <2>4. \A S : P!Cardinality(S) = Cardinality(S)
      BY SameCount
    <2> QED BY <2>2, <2>3, <2>4 DEF PrefInv, Room, P!OvershootIsBounded
  <1> QED BY PreferencesPart, PrefInit, PrefNext, <1>1, PTL DEF P!Spec

-----------------------------------------------------------------------------
(* The sidebar.  First, the pages of the server.                            *)

LEMMA ListCount ==
  /\ \A S : L!Cardinality(S) = Cardinality(S)
  /\ \A S : L!IsFiniteSet(S) <=> IsFiniteSet(S)
  <1>1. \A S : L!IsFiniteSet(S) <=> IsFiniteSet(S)
    BY Zenon DEF L!IsFiniteSet, IsFiniteSet
  <1>2. \A S : L!Cardinality(S) = Cardinality(S)
    BY Zenon DEF L!Cardinality, Cardinality
  <1> QED BY <1>1, <1>2

Times == updated \in [Rows -> Int]

\* The sort's order is one.
LEMMA BeforeOrders ==
  ASSUME PartSettings, Times
  PROVE  /\ \A r \in Rows : ~L!Before(r, r)
         /\ \A r, o \in Rows : r = o \/ L!Before(r, o) \/ L!Before(o, r)
         /\ \A r, o, k \in Rows : L!Before(r, o) /\ L!Before(o, k) => L!Before(r, k)
  <1>1. \A r \in Rows : r \in Nat /\ updated[r] \in Int
    BY DEF PartSettings, L!ListSettings, Times
  <1> QED BY <1>1 DEF L!Before

\* A finite set of rows has its sequence, newest first: each row stands at the
\* place of the number of rows up to it.
LEMMA NewestFirstExists ==
  ASSUME PartSettings, Times, NEW F \in SUBSET Rows
  PROVE  /\ Cardinality(F) \in Nat
         /\ \E q \in [1..Cardinality(F) -> F] :
              \A i, j \in 1..Cardinality(F) : i < j => L!Before(q[i], q[j])
  <1> DEFINE n == Cardinality(F)
             UpTo(r) == {o \in F : o = r \/ L!Before(o, r)}
             place == [r \in F |-> Cardinality(UpTo(r))]
             q == [i \in 1..n |-> CHOOSE r \in F : place[r] = i]
  <1>1. IsFiniteSet(F) /\ n \in Nat
    BY ListCount, FS_Subset, FS_CardinalityType DEF PartSettings, L!ListSettings
  <1>2. ASSUME NEW r \in F, NEW o \in F
        PROVE  r = o \/ L!Before(r, o) \/ L!Before(o, r)
    BY BeforeOrders
  <1>3. ASSUME NEW r \in F PROVE IsFiniteSet(UpTo(r)) /\ Cardinality(UpTo(r)) \in 1..n
    <2>1. UpTo(r) \in SUBSET F
      OBVIOUS
    <2>2. IsFiniteSet(UpTo(r)) /\ Cardinality(UpTo(r)) \in Nat /\ Cardinality(UpTo(r)) <= n
      BY <1>1, <2>1, FS_Subset, FS_CardinalityType
    <2>3. UpTo(r) # {}
      OBVIOUS
    <2>4. Cardinality(UpTo(r)) # 0
      BY <2>2, <2>3, FS_EmptySet
    <2> QED BY <1>1, <2>2, <2>4
  <1>4. ASSUME NEW r \in F, NEW o \in F, L!Before(r, o) PROVE place[r] < place[o]
    <2>1. UpTo(r) \in SUBSET UpTo(o)
      BY <1>4, BeforeOrders
    <2>2. o \in UpTo(o) /\ o \notin UpTo(r)
      <3>1. o # r /\ ~L!Before(o, r)
        BY <1>4, BeforeOrders
      <3> QED BY <3>1
    <2>3. UpTo(r) # UpTo(o)
      BY <2>2
    <2>4. Cardinality(UpTo(r)) <= Cardinality(UpTo(o)) /\ Cardinality(UpTo(r)) # Cardinality(UpTo(o))
      BY <1>3, <2>1, <2>3, FS_Subset
    <2>5. Cardinality(UpTo(r)) \in 1..n /\ Cardinality(UpTo(o)) \in 1..n
      BY <1>3
    <2>6. place[r] = Cardinality(UpTo(r)) /\ place[o] = Cardinality(UpTo(o))
      OBVIOUS
    <2> HIDE DEF UpTo, place
    <2> QED BY <1>1, <2>4, <2>5, <2>6
  <1>5. place \in [F -> 1..n]
    BY <1>3
  <1> HIDE DEF UpTo, place, n
  <1>6. \A r, o \in F : place[r] = place[o] => r = o
    BY <1>1, <1>2, <1>4, <1>5
  <1>7. place \in Surjection(F, 1..n)
    <2>1. place \in Injection(F, 1..n)
      BY <1>5, <1>6 DEF Injection, IsInjective
    <2>2. IsFiniteSet(1..n) /\ Cardinality(1..n) = n
      BY <1>1, FS_Interval
    <2> QED BY <2>1, <2>2, FS_Injection DEF n
  <1>8. ASSUME NEW i \in 1..n PROVE q[i] \in F /\ place[q[i]] = i
    <2>1. \E r \in F : place[r] = i
      BY <1>7 DEF Surjection
    <2> QED BY <2>1
  <1>9. q \in [1..n -> F]
    BY <1>8
  <1> HIDE DEF q
  <1>10. ASSUME NEW i \in 1..n, NEW j \in 1..n, i < j PROVE L!Before(q[i], q[j])
    <2>1. q[i] \in F /\ q[j] \in F /\ place[q[i]] = i /\ place[q[j]] = j
      BY <1>8
    <2>2. q[i] # q[j] /\ ~L!Before(q[j], q[i])
      BY <1>1, <1>4, <1>10, <2>1
    <2> QED BY <1>2, <2>1, <2>2
  <1> QED BY <1>1, <1>9, <1>10 DEF n

\* What list_page sorts: every row it found, once, newest first.
LEMMA NewestFirstProperties ==
  ASSUME PartSettings, Times, NEW F \in SUBSET Rows
  PROVE  /\ L!NewestFirst(F) \in Seq(F)
         /\ \A i, j \in DOMAIN L!NewestFirst(F) :
              i < j => L!Before(L!NewestFirst(F)[i], L!NewestFirst(F)[j])
         /\ \A r \in F : \E i \in DOMAIN L!NewestFirst(F) : L!NewestFirst(F)[i] = r
  <1> DEFINE n == Cardinality(F)
             q == L!NewestFirst(F)
             Sorted(f) == \A i, j \in 1..n : i < j => L!Before(f[i], f[j])
  <1>1. n \in Nat /\ IsFiniteSet(F)
    BY NewestFirstExists, ListCount, FS_Subset DEF PartSettings, L!ListSettings
  <1>2. q = CHOOSE f \in [1..n -> F] : Sorted(f)
    BY ListCount DEF L!NewestFirst
  <1>3. \E f \in [1..n -> F] : Sorted(f)
    BY NewestFirstExists
  <1>4. q \in [1..n -> F] /\ Sorted(q)
    <2> HIDE DEF q, n, Sorted
    <2> QED BY <1>2, <1>3
  <1>5. q \in Seq(F) /\ DOMAIN q = 1..n
    <2> HIDE DEF q, n
    <2> QED BY <1>1, <1>4, SeqDef
  <1>6. \A i, j \in 1..n : q[i] = q[j] => i = j
    <2> SUFFICES ASSUME NEW i \in 1..n, NEW j \in 1..n, i # j PROVE q[i] # q[j]
      OBVIOUS
    <2> HIDE DEF q, n
    <2>1. q[i] \in Rows /\ q[j] \in Rows
      BY <1>4
    <2>2. L!Before(q[i], q[j]) \/ L!Before(q[j], q[i])
      BY <1>1, <1>4
    <2>3. ~L!Before(q[i], q[i])
      BY <2>1, BeforeOrders
    <2> QED BY <2>2, <2>3, Zenon
  <1>7. q \in Surjection(1..n, F)
    <2> HIDE DEF q
    <2>1. q \in Injection(1..n, F)
      BY <1>4, <1>6 DEF Injection, IsInjective
    <2>2. IsFiniteSet(1..n) /\ Cardinality(1..n) = n
      BY <1>1, FS_Interval
    <2> QED BY <1>1, <2>1, <2>2, FS_Injection
  <1>8. \A r \in F : \E i \in 1..n : q[i] = r
    BY <1>7 DEF Surjection
  <1> HIDE DEF q
  <1> QED BY <1>4, <1>5, <1>8 DEF q

-----------------------------------------------------------------------------
(* One page of the list.                                                    *)

Cursors == {<<>>} \cup {<<[at |-> t, id |-> r]>> : t \in Int, r \in Rows}

LEMMA CursorType ==
  ASSUME PartSettings, Times, NEW r \in Rows
  PROVE  L!EncodeCursor(r) \in Cursors
  <1>1. updated[r] + Shift \in Int
    BY DEF PartSettings, L!ListSettings, Times
  <1> QED BY <1>1 DEF L!EncodeCursor, Cursors

\* Where the cursor of a page that is followed by another stands, on a server
\* whose clock is on UTC.
LEMMA CursorAt ==
  ASSUME PartSettings, Times, Shift = 0, NEW r \in Rows
  PROVE  /\ L!EncodeCursor(r) # <<>>
         /\ \A o \in Rows : L!Older(o, L!EncodeCursor(r)) <=> L!Before(r, o)
  <1>1. \A o \in Rows : o \in Nat /\ updated[o] \in Int
    BY DEF PartSettings, L!ListSettings, Times
  <1>2. L!EncodeCursor(r) = <<[at |-> updated[r], id |-> r]>>
    BY <1>1 DEF L!EncodeCursor
  <1>3. L!EncodeCursor(r) # <<>>
    BY <1>2
  <1>4. ASSUME NEW o \in Rows PROVE L!Older(o, L!EncodeCursor(r)) <=> L!Before(r, o)
    BY <1>1, <1>2, <1>3 DEF L!Older, L!Before
  <1> QED BY <1>3, <1>4

\* The rows a page may hold.
Behind(c) == {r \in Rows : updated[r] > 0 /\ L!Older(r, c)}

\* The page is the beginning of what was found.
FirstRows(page, found, c) ==
  LET m == IF Len(found) < PageSize THEN Len(found) ELSE PageSize
  IN  /\ found \in Seq(Behind(c))
      /\ \A i, j \in DOMAIN found : i < j => L!Before(found[i], found[j])
      /\ \A r \in Behind(c) : \E i \in DOMAIN found : found[i] = r
      /\ page \in Seq(Behind(c)) /\ Len(page) = m
      /\ \A i \in 1..m : page[i] = found[i]

LEMMA PageIsPrefix ==
  ASSUME PartSettings, Times, NEW c
  PROVE  FirstRows(L!ListPage(c).page, L!NewestFirst(Behind(c)), c)
  <1> DEFINE found == L!NewestFirst(Behind(c))
             page == L!ListPage(c).page
             l == Len(found)
             m == IF l < PageSize THEN l ELSE PageSize
  <1>1. /\ found \in Seq(Behind(c))
        /\ \A i, j \in DOMAIN found : i < j => L!Before(found[i], found[j])
        /\ \A r \in Behind(c) : \E i \in DOMAIN found : found[i] = r
    BY NewestFirstProperties DEF Behind
  <1>2. page = SubSeq(found, 1, m)
    BY DEF L!ListPage, Behind
  <1> HIDE DEF found, page
  <1>4. l \in Nat /\ DOMAIN found = 1..l /\ PageSize \in Nat /\ PageSize > 0
    BY <1>1, LenProperties DEF PartSettings, L!ListSettings
  <1> HIDE DEF l
  <1>5. /\ m \in Nat /\ m <= l /\ m <= PageSize
        /\ (l > PageSize => m = PageSize) /\ (l <= PageSize => m = l)
    BY <1>4
  <1> HIDE DEF m
  <1>6. \A i \in 1..l : found[i] \in Behind(c)
    BY <1>1, <1>4
  <1>7. /\ page \in Seq(Behind(c)) /\ Len(page) = m
        /\ \A i \in 1..m : page[i] = found[i]
    <2>1. m \in Int /\ \A i \in 1..m : found[i] \in Behind(c)
      BY <1>4, <1>5, <1>6
    <2>2. /\ page \in Seq(Behind(c))
          /\ Len(page) = IF 1 <= m THEN m - 1 + 1 ELSE 0
          /\ \A i \in 1..m - 1 + 1 : page[i] = found[1 + i - 1]
      BY <1>2, <2>1, SubSeqProperties
    <2>3. m - 1 + 1 = m /\ \A i \in 1..m : 1 + i - 1 = i
      BY <1>5
    <2> QED BY <1>5, <2>2, <2>3
  <1> HIDE DEF Behind
  <1> QED BY <1>1, <1>7 DEF FirstRows, found, page, l, m

LEMMA PageTypes ==
  ASSUME PartSettings, Times, NEW c
  PROVE  L!ListPage(c).page \in Seq(Rows) /\ L!ListPage(c).next \in Cursors
  <1> DEFINE found == L!NewestFirst(Behind(c))
             page == L!ListPage(c).page
             next == L!ListPage(c).next
  <1>1. FirstRows(page, found, c)
    BY PageIsPrefix
  <1>2. next = IF Len(found) > PageSize THEN L!EncodeCursor(L!Last(page)) ELSE <<>>
    BY DEF L!ListPage, Behind
  <1> HIDE DEF found, page, next
  <1>3. page \in Seq(Rows) /\ Len(found) \in Nat
    <2>1. Behind(c) \subseteq Rows
      BY DEF Behind
    <2> QED BY <1>1, <2>1, LenProperties DEF FirstRows
  <1>4. CASE Len(found) > PageSize
    <2>1. Len(page) = PageSize /\ PageSize \in Nat /\ PageSize > 0
      BY <1>1, <1>3, <1>4 DEF FirstRows, PartSettings, L!ListSettings
    <2>2. page[Len(page)] \in Rows
      BY <1>3, <2>1
    <2> QED BY <1>2, <1>3, <1>4, <2>2, CursorType DEF L!Last, page, next
  <1>5. CASE ~(Len(found) > PageSize)
    BY <1>2, <1>3, <1>5 DEF Cursors, page, next
  <1> QED BY <1>4, <1>5

\* A page holds rows behind its cursor, each once, and every such row is on it
\* or behind the next cursor, which is behind this one.
IsPage(page, next, c) ==
  /\ page \in Seq(Rows) /\ next \in Cursors
  /\ \A i \in DOMAIN page : page[i] \in Behind(c)
  /\ \A i, j \in DOMAIN page : page[i] = page[j] => i = j
  /\ next # <<>> => \A i \in DOMAIN page : ~L!Older(page[i], next)
  /\ \A r \in Behind(c) :
       (\E i \in DOMAIN page : page[i] = r) \/ (next # <<>> /\ L!Older(r, next))
  /\ next # <<>> => \A r \in Rows : L!Older(r, next) => L!Older(r, c)

LEMMA PageProperties ==
  ASSUME PartSettings, Times, Shift = 0, NEW c \in Cursors
  PROVE  IsPage(L!ListPage(c).page, L!ListPage(c).next, c)
  <1> SUFFICES ASSUME NEW page, NEW next,
                      page = L!ListPage(c).page, next = L!ListPage(c).next
               PROVE  IsPage(page, next, c)
    OBVIOUS
  <1> DEFINE found == L!NewestFirst(Behind(c))
             l == Len(found)
             m == IF l < PageSize THEN l ELSE PageSize
  <1>1. /\ found \in Seq(Behind(c))
        /\ \A i, j \in DOMAIN found : i < j => L!Before(found[i], found[j])
        /\ \A r \in Behind(c) : \E i \in DOMAIN found : found[i] = r
        /\ page \in Seq(Behind(c)) /\ Len(page) = m /\ \A i \in 1..m : page[i] = found[i]
    BY PageIsPrefix DEF FirstRows
  <1>2. next = IF l > PageSize THEN L!EncodeCursor(L!Last(page)) ELSE <<>>
    BY DEF L!ListPage, Behind
  <1>3. \A r \in Behind(c) : r \in Rows /\ updated[r] > 0 /\ L!Older(r, c)
    BY DEF Behind
  <1> HIDE DEF found
  <1>4. l \in Nat /\ DOMAIN found = 1..l /\ PageSize \in Nat /\ PageSize > 0
    BY <1>1, LenProperties DEF PartSettings, L!ListSettings
  <1> HIDE DEF l
  <1>5. /\ m \in Nat /\ m <= l /\ m <= PageSize
        /\ (l > PageSize => m = PageSize) /\ (l <= PageSize => m = l)
    BY <1>4
  <1> HIDE DEF m
  <1>6. \A i \in 1..l : found[i] \in Behind(c)
    BY <1>1, <1>4
  <1>7. DOMAIN page = 1..m
    BY <1>1, LenProperties
  <1>8. \A i \in 1..m : page[i] = found[i] /\ page[i] \in Behind(c)
    BY <1>1, <1>4, <1>5, <1>6
  <1>9. ASSUME NEW i \in 1..m, NEW j \in 1..m, page[i] = page[j] PROVE i = j
    <2>1. i \in 1..l /\ j \in 1..l /\ i \in Int /\ j \in Int
      BY <1>4, <1>5
    <2>2. found[i] = found[j] /\ found[i] \in Rows
      BY <1>3, <1>8, <1>9
    <2>3. ~L!Before(found[i], found[j]) /\ ~L!Before(found[j], found[i])
      BY <2>2, BeforeOrders
    <2>4. ~(i < j) /\ ~(j < i)
      BY <1>1, <1>4, <2>1, <2>3
    <2> QED BY <2>1, <2>4
  <1>10. CASE l > PageSize
    <2> DEFINE e == found[m]
    <2>1. m \in 1..m /\ m \in 1..l /\ m = PageSize
      BY <1>4, <1>5, <1>10
    <2>2. next = L!EncodeCursor(e)
      BY <1>1, <1>2, <1>10, <2>1 DEF L!Last
    <2>3. e \in Rows /\ L!Older(e, c)
      BY <1>3, <1>6, <2>1
    <2> HIDE DEF e
    <2>4. next # <<>> /\ \A o \in Rows : L!Older(o, next) <=> L!Before(e, o)
      BY <2>2, <2>3, CursorAt
    <2>5. ASSUME NEW i \in 1..m PROVE ~L!Older(page[i], next)
      <3>1. i < m \/ i = m
        BY <1>5
      <3>2. i \in 1..l /\ page[i] = found[i] /\ found[i] \in Rows
        BY <1>3, <1>4, <1>5, <1>6, <1>8
      <3>3. found[i] = e \/ L!Before(found[i], e)
        BY <1>1, <1>4, <2>1, <3>1, <3>2 DEF e
      <3>4. ~L!Before(e, found[i])
        BY <2>3, <3>2, <3>3, BeforeOrders
      <3> QED BY <2>4, <3>2, <3>4
    <2>6. ASSUME NEW r \in Behind(c)
          PROVE  (\E i \in 1..m : page[i] = r) \/ L!Older(r, next)
      <3>1. PICK i \in 1..l : found[i] = r
        BY <1>1, <1>4
      <3>2. CASE i <= m
        BY <1>8, <3>1, <3>2
      <3>3. CASE i > m
        <4>1. L!Before(e, r)
          BY <1>1, <1>4, <2>1, <3>1, <3>3 DEF e
        <4> QED BY <1>3, <2>4, <4>1
      <3> QED BY <1>5, <3>2, <3>3
    <2>7. ASSUME NEW r \in Rows, L!Older(r, next) PROVE L!Older(r, c)
      <3>1. L!Before(e, r)
        BY <2>4, <2>7
      <3>2. /\ updated[r] \in Int /\ updated[e] \in Int /\ r \in Nat /\ e \in Nat
            /\ c # <<>> => c[1].at \in Int /\ c[1].id \in Nat
        <4>1. c # <<>> => \E t \in Int, k \in Rows : c = <<[at |-> t, id |-> k]>>
          BY DEF Cursors
        <4>2. c # <<>> => c[1].at \in Int /\ c[1].id \in Rows
          BY <4>1
        <4> QED BY <2>3, <4>2 DEF PartSettings, L!ListSettings, Times
      <3> QED BY <2>3, <3>1, <3>2 DEF L!Older, L!Before
    <2>8. page \in Seq(Rows) /\ next \in Cursors
      BY PageTypes
    <2> QED BY <1>7, <1>8, <1>9, <2>4, <2>5, <2>6, <2>7, <2>8 DEF IsPage
  <1>11. CASE l <= PageSize
    <2>1. next = <<>> /\ m = l
      BY <1>2, <1>4, <1>5, <1>11
    <2>2. \A r \in Behind(c) : \E i \in 1..m : page[i] = r
      BY <1>1, <1>4, <1>8, <2>1
    <2>3. page \in Seq(Rows) /\ next \in Cursors
      BY PageTypes
    <2> QED BY <1>7, <1>8, <1>9, <2>1, <2>2, <2>3 DEF IsPage
  <1> QED BY <1>4, <1>10, <1>11

-----------------------------------------------------------------------------
(* A walk through the pages.  A list and the cursor behind it are a walk    *)
(* when no row is in it twice, none in it can come again, and none that has *)
(* not changed is missing; rows that were given an older time excepted.     *)

Walk(items, c) ==
  /\ \A i \in DOMAIN items : updated[items[i]] # 0
  /\ \A i, j \in DOMAIN items : i # j /\ items[i] = items[j] => items[i] \in backdated
  /\ c # <<>> => \A i \in DOMAIN items :
       items[i] \in Behind(c) => items[i] \in backdated
  /\ \A r \in Rows \ moved :
       updated[r] > 0 => (\E i \in DOMAIN items : items[i] = r) \/ (c # <<>> /\ L!Older(r, c))

\* The first page begins a walk.
LEMMA WalkBegins ==
  ASSUME Times, NEW page, NEW next, IsPage(page, next, <<>>)
  PROVE  /\ page \in Seq(Rows) /\ next \in Cursors
         /\ updated' = updated /\ moved' = {} /\ backdated' = {} => Walk(page, next)'
  <1>1. /\ page \in Seq(Rows) /\ next \in Cursors
        /\ \A i \in DOMAIN page : page[i] \in Behind(<<>>)
        /\ \A i, j \in DOMAIN page : page[i] = page[j] => i = j
        /\ next # <<>> => \A i \in DOMAIN page : ~L!Older(page[i], next)
        /\ \A r \in Behind(<<>>) :
             (\E i \in DOMAIN page : page[i] = r) \/ (next # <<>> /\ L!Older(r, next))
    BY DEF IsPage
  <1>2. \A r \in Rows : r \in Behind(<<>>) <=> updated[r] > 0
    BY DEF Behind, L!Older
  <1>3. \A r : r \in Behind(<<>>) => updated[r] > 0
    BY DEF Behind
  <1>4. next # <<>> => \A i \in DOMAIN page : page[i] \notin Behind(next)
    BY <1>1 DEF Behind
  <1>5. ASSUME updated' = updated, moved' = {}, backdated' = {} PROVE Walk(page, next)'
    <2>1. \A r, c : Behind(c)' = Behind(c) /\ (L!Older(r, c)' <=> L!Older(r, c))
      BY <1>5 DEF Behind, L!Older
    <2>2. \A i \in DOMAIN page : updated[page[i]] # 0
      <3>1. \A i \in DOMAIN page : updated[page[i]] > 0
        BY <1>1, <1>3
      <3>2. ~(0 > 0)
        OBVIOUS
      <3> QED BY <3>1, <3>2, Zenon
    <2> QED BY <1>1, <1>2, <1>4, <1>5, <2>1, <2>2 DEF Walk
  <1> QED BY <1>1, <1>5

\* A further page continues it.
LEMMA WalkContinues ==
  ASSUME Times, NEW items \in Seq(Rows), NEW c \in Cursors, c # <<>>, Walk(items, c),
         NEW page, NEW next, IsPage(page, next, c)
  PROVE  /\ page \in Seq(Rows) /\ next \in Cursors
         /\ Walk(items \o page, next)
  <1>1. /\ page \in Seq(Rows) /\ next \in Cursors
        /\ \A i \in DOMAIN page : page[i] \in Behind(c)
        /\ \A i, j \in DOMAIN page : page[i] = page[j] => i = j
        /\ next # <<>> => \A i \in DOMAIN page : ~L!Older(page[i], next)
        /\ \A r \in Behind(c) :
             (\E i \in DOMAIN page : page[i] = r) \/ (next # <<>> /\ L!Older(r, next))
        /\ next # <<>> => \A r \in Rows : L!Older(r, next) => L!Older(r, c)
    BY DEF IsPage
  <1> DEFINE l == Len(items)
             k == Len(page)
             both == items \o page
  <1>2. l \in Nat /\ DOMAIN items = 1..l /\ k \in Nat /\ DOMAIN page = 1..k
    BY <1>1, LenProperties
  <1>3. /\ both \in Seq(Rows) /\ DOMAIN both = 1..l + k
        /\ \A i \in 1..l : both[i] = items[i]
        /\ \A i \in 1..k : both[l + i] = page[i]
    <2>1. both \in Seq(Rows) /\ Len(both) = l + k
      BY <1>1, ConcatProperties
    <2>2. \A i \in 1..l + k : both[i] = IF i <= l THEN items[i] ELSE page[i - l]
      BY <1>1, ConcatProperties
    <2>3. DOMAIN both = 1..l + k
      BY <2>1, LenProperties
    <2> HIDE DEF l, k, both
    <2>4. \A i \in 1..l : both[i] = items[i]
      BY <1>2, <2>2
    <2>5. \A i \in 1..k : both[l + i] = page[i]
      <3> SUFFICES ASSUME NEW i \in 1..k PROVE both[l + i] = page[i]
        OBVIOUS
      <3> DEFINE at == l + i
      <3> HIDE DEF at
      <3>1. at \in 1..l + k /\ ~(at <= l) /\ at - l = i
        BY <1>2 DEF at
      <3>2. both[at] = page[at - l]
        BY <2>2, <3>1
      <3> QED BY <3>1, <3>2 DEF at
    <2> QED BY <2>1, <2>3, <2>4, <2>5
  <1> HIDE DEF l, k, both
  <1>4. ASSUME NEW i \in 1..l + k
        PROVE  \/ i \in 1..l /\ both[i] = items[i]
               \/ /\ i - l \in 1..k /\ both[i] = page[i - l]
                  /\ both[i] \in Behind(c)
    <2>1. i \in 1..l \/ (i - l \in 1..k /\ l + (i - l) = i)
      BY <1>2
    <2>2. ASSUME NEW j \in 1..k, i = l + j PROVE both[i] = page[j] /\ both[i] \in Behind(c)
      BY <1>1, <1>2, <1>3, <2>2
    <2> QED BY <1>3, <2>1, <2>2
  <1>5. \A r \in Behind(c) : r \in Rows /\ updated[r] > 0 /\ L!Older(r, c)
    BY DEF Behind
  <1>6. \A i \in 1..l : items[i] \in Rows /\ updated[items[i]] # 0
                          /\ (items[i] \in Behind(c) => items[i] \in backdated)
    BY <1>2 DEF Walk
  <1>7. \A i \in 1..l + k : updated[both[i]] # 0
    <2> SUFFICES ASSUME NEW i \in 1..l + k PROVE updated[both[i]] # 0
      OBVIOUS
    <2>1. updated[both[i]] # 0 \/ updated[both[i]] > 0
      BY <1>4, <1>5, <1>6
    <2> QED BY <2>1
  <1>8. ASSUME NEW i \in 1..l + k, NEW j \in 1..l + k, i # j, both[i] = both[j]
        PROVE  both[i] \in backdated
    <2>1. CASE i \in 1..l /\ j \in 1..l /\ both[i] = items[i] /\ both[j] = items[j]
      BY <1>2, <1>8, <2>1 DEF Walk
    <2>2. CASE both[i] \in Behind(c) /\ j \in 1..l /\ both[j] = items[j]
      BY <1>6, <1>8, <2>2
    <2>3. CASE both[j] \in Behind(c) /\ i \in 1..l /\ both[i] = items[i]
      BY <1>6, <1>8, <2>3
    <2>4. CASE /\ i - l \in 1..k /\ both[i] = page[i - l]
               /\ j - l \in 1..k /\ both[j] = page[j - l]
      <3>1. i - l = j - l
        BY <1>1, <1>2, <1>8, <2>4
      <3> QED BY <1>2, <1>8, <3>1
    <2> QED BY <1>4, <2>1, <2>2, <2>3, <2>4
  <1>9. ASSUME next # <<>>, NEW i \in 1..l + k, both[i] \in Behind(next)
        PROVE  both[i] \in backdated
    <2>1. both[i] \in Rows /\ updated[both[i]] > 0 /\ L!Older(both[i], next)
      BY <1>9 DEF Behind
    <2>2. both[i] \in Behind(c)
      BY <1>1, <1>9, <2>1 DEF Behind
    <2>3. ~(i - l \in 1..k /\ both[i] = page[i - l])
      BY <1>1, <1>2, <1>9, <2>1
    <2> QED BY <1>4, <1>6, <2>2, <2>3
  <1>10. ASSUME NEW r \in Rows \ moved, updated[r] > 0
         PROVE  (\E i \in 1..l + k : both[i] = r) \/ (next # <<>> /\ L!Older(r, next))
    <2>1. CASE \E i \in 1..l : items[i] = r
      <3>1. \A i \in 1..l : i \in 1..l + k
        BY <1>2
      <3> QED BY <1>3, <2>1, <3>1
    <2>2. CASE \E i \in 1..k : page[i] = r
      <3>1. \A i \in 1..k : l + i \in 1..l + k
        BY <1>2
      <3> QED BY <1>3, <2>2, <3>1
    <2>3. CASE L!Older(r, c)
      <3>1. r \in Behind(c)
        BY <1>10, <2>3 DEF Behind
      <3> QED BY <1>1, <1>2, <2>2, <3>1
    <2> QED BY <1>2, <1>10, <2>1, <2>3 DEF Walk
  <1>11. Walk(both, next)
    BY <1>3, <1>7, <1>8, <1>9, <1>10 DEF Walk
  <1> QED BY <1>1, <1>11 DEF both

\* What a turn, a rename or a deletion does to the rows: those it changes have
\* moved, and unless they were given an older time or deleted they are newer.
RowStep(r) ==
  \/ updated'[r] = updated[r]
  \/ /\ r \in moved'
     /\ \/ updated[r] = 0
        \/ updated'[r] = -1
        \/ updated[r] > 0 /\ updated'[r] > 0 /\ (updated'[r] >= updated[r] \/ r \in backdated')

RowSteps ==
  /\ Times /\ Times' /\ moved \subseteq moved' /\ backdated \subseteq backdated'
  /\ \A r \in Rows : RowStep(r) /\ (updated[r] # 0 => updated'[r] # 0)

\* A walk stays one.
LEMMA WalkStays ==
  ASSUME PartSettings, RowSteps, NEW items \in Seq(Rows), NEW c \in Cursors, Walk(items, c)
  PROVE  Walk(items, c)'
  <1>1. \A i \in DOMAIN items : items[i] \in Rows
    OBVIOUS
  <1>2. \A i \in DOMAIN items : updated[items[i]] # 0
    BY DEF Walk
  <1>3. \A i \in DOMAIN items : updated'[items[i]] # 0
    BY <1>1, <1>2 DEF RowSteps
  <1>4. c # <<>> => c[1].at \in Int /\ c[1].id \in Nat
    <2>1. c # <<>> => \E t \in Int, k \in Rows : c = <<[at |-> t, id |-> k]>>
      BY DEF Cursors
    <2>2. c # <<>> => c[1].at \in Int /\ c[1].id \in Rows
      BY <2>1
    <2> QED BY <2>2 DEF PartSettings, L!ListSettings
  <1>5. \A r \in Rows : r \in Nat /\ updated[r] \in Int /\ updated'[r] \in Int
    BY DEF RowSteps, Times, PartSettings, L!ListSettings
  <1>6. ASSUME NEW r \in Rows, updated[r] # 0, r \notin backdated', r \in Behind(c)'
        PROVE  r \in Behind(c)
    <2>1. updated'[r] > 0 /\ L!Older(r, c)'
      BY <1>6 DEF Behind
    <2>2. updated'[r] >= updated[r] /\ updated[r] > 0
      BY <1>5, <1>6, <2>1 DEF RowSteps, RowStep
    <2>3. L!Older(r, c)
      BY <1>4, <1>5, <2>1, <2>2 DEF L!Older
    <2> QED BY <2>2, <2>3 DEF Behind
  <1>7. \A i, j \in DOMAIN items : i # j /\ items[i] = items[j] => items[i] \in backdated'
    BY DEF Walk, RowSteps
  <1>8. ASSUME c # <<>>, NEW i \in DOMAIN items, items[i] \in Behind(c)'
        PROVE  items[i] \in backdated'
    <2>1. items[i] \in Behind(c) => items[i] \in backdated'
      BY <1>8 DEF Walk, RowSteps
    <2> QED BY <1>1, <1>2, <1>6, <1>8, <2>1
  <1>9. ASSUME NEW r \in Rows \ moved', updated'[r] > 0
        PROVE  (\E i \in DOMAIN items : items[i] = r) \/ (c # <<>> /\ L!Older(r, c)')
    <2>1. r \in Rows \ moved /\ updated'[r] = updated[r]
      BY DEF RowSteps, RowStep
    <2>2. (\E i \in DOMAIN items : items[i] = r) \/ (c # <<>> /\ L!Older(r, c))
      BY <1>9, <2>1 DEF Walk
    <2> QED BY <2>1, <2>2 DEF L!Older
  <1> QED BY <1>3, <1>7, <1>8, <1>9 DEF Walk

\* At most one request is on its way while the list is one walk; what it will
\* make of the list is a walk, and what is there is one unless a first page is
\* on its way.
Responses == [kind : {"first", "more"}, page : Seq(Rows), next : Cursors]

ListTypes ==
  /\ clock \in 1..MaxClock /\ updated \in [Rows -> -1..MaxClock]
  /\ list \in Seq(Rows) /\ cursor \in Cursors
  /\ inFlight \subseteq Responses
  /\ loaded \in BOOLEAN /\ mixed \in BOOLEAN
  /\ moved \subseteq Rows /\ backdated \subseteq Rows

Loading ==
  /\ ~loaded => list = <<>> /\ cursor = <<>>
  /\ ~loaded => \A x \in inFlight : x.kind = "first"

Walking(x) == IF x.kind = "first" THEN Walk(x.page, x.next) ELSE Walk(list \o x.page, x.next)

OneAtATime ==
  ~mixed =>
    /\ \A x, y \in inFlight : x = y
    /\ \A x \in inFlight : Walking(x)
    /\ loaded /\ (\A x \in inFlight : x.kind = "more") => Walk(list, cursor)

ListInv == ListTypes /\ Loading /\ OneAtATime

LEMMA ListTimes == PartSettings /\ ListTypes => Times
  BY DEF ListTypes, Times, PartSettings, L!ListSettings

LEMMA ListInit == PartSettings /\ L!Init => ListInv
  <1> SUFFICES ASSUME PartSettings, L!Init PROVE ListInv
    OBVIOUS
  <1>1. updated \in [Rows -> -1..MaxClock] /\ clock \in 1..MaxClock
    BY DEF L!Init, PartSettings, L!ListSettings
  <1>2. <<>> \in Seq(Rows) /\ <<>> \in Cursors
    BY DEF Cursors
  <1> QED BY <1>1, <1>2 DEF L!Init, ListInv, ListTypes, Loading, OneAtATime

\* The steps that move rows leave the requests and the list alone.
LEMMA MovedRows ==
  ASSUME PartSettings, ListInv, RowSteps, ListTypes',
         UNCHANGED <<list, cursor, inFlight, loaded, mixed>>
  PROVE  ListInv'
  <1>1. PICK l \in Seq(Rows), c \in Cursors : l = list /\ c = cursor
    BY DEF ListInv, ListTypes
  <1>2. Loading'
    BY DEF ListInv, Loading
  <1>3. ASSUME NEW x \in inFlight, Walking(x) PROVE Walking(x)'
    <2>1. x.page \in Seq(Rows) /\ x.next \in Cursors
      BY DEF ListInv, ListTypes, Responses
    <2>2. l \o x.page \in Seq(Rows)
      BY <2>1, ConcatProperties
    <2>3. CASE x.kind = "first"
      BY <1>3, <2>1, <2>3, WalkStays DEF Walking
    <2>4. CASE x.kind # "first"
      <3>1. Walk(l \o x.page, x.next)
        BY <1>1, <1>3, <2>4 DEF Walking
      <3>2. Walk(l \o x.page, x.next)'
        BY <2>1, <2>2, <3>1, WalkStays
      <3> QED BY <1>1, <2>4, <3>2 DEF Walking
    <2> QED BY <2>3, <2>4
  <1>4. ASSUME Walk(list, cursor) PROVE Walk(list, cursor)'
    <2>1. Walk(l, c)'
      BY <1>1, <1>4, WalkStays
    <2>2. l = list' /\ c = cursor'
      BY <1>1
    <2> QED BY <2>1, <2>2 DEF Walk
  <1>5. OneAtATime'
    BY <1>3, <1>4 DEF ListInv, OneAtATime
  <1> QED BY <1>2, <1>5 DEF ListInv

\* The types hold whatever zone the server's clock is in.
LEMMA ListTypesNext == PartSettings /\ ListTypes /\ [L!Next]_L!listVars => ListTypes'
  <1> SUFFICES ASSUME PartSettings, ListTypes, [L!Next]_L!listVars PROVE ListTypes'
    OBVIOUS
  <1>1. /\ MaxClock \in Nat /\ MaxClock > 0 /\ clock \in Nat /\ -1 \in -1..MaxClock
        /\ <<>> \in Cursors
    BY DEF PartSettings, L!ListSettings, ListTypes, Cursors
  <1>2. \A c : \A kind \in {"first", "more"} : L!Request(kind, c) => inFlight' \subseteq Responses
    BY ListTimes, PageTypes DEF L!Request, ListTypes, Responses
  <1>3. CASE L!Tick
    BY <1>1, <1>3 DEF L!Tick, ListTypes
  <1>4. ASSUME NEW row \in Rows, L!Create(row) PROVE ListTypes'
    BY <1>1, <1>4 DEF L!Create, ListTypes
  <1>5. ASSUME NEW row \in Rows, L!Touch(row) PROVE ListTypes'
    <2>1. PICK t \in {clock - 1, clock} \ {0} :
            /\ updated' = [updated EXCEPT ![row] = t]
            /\ backdated' = IF t < updated[row] THEN backdated \cup {row} ELSE backdated
      BY <1>5 DEF L!Touch
    <2>2. t \in -1..MaxClock
      BY <1>1, <2>1 DEF ListTypes
    <2> QED BY <1>5, <2>1, <2>2 DEF L!Touch, ListTypes
  <1>6. ASSUME NEW row \in Rows, L!Delete(row) PROVE ListTypes'
    BY <1>1, <1>6 DEF L!Delete, ListTypes
  <1>7. CASE L!Refresh
    BY <1>1, <1>2, <1>7 DEF L!Refresh, ListTypes
  <1>8. CASE L!LoadMore
    BY <1>2, <1>8 DEF L!LoadMore, ListTypes
  <1>9. ASSUME NEW x \in inFlight, L!Arrive(x) PROVE ListTypes'
    <2>1. x.page \in Seq(Rows) /\ x.next \in Cursors
      BY DEF ListTypes, Responses
    <2>2. list \o x.page \in Seq(Rows)
      BY <2>1, ConcatProperties DEF ListTypes
    <2> QED BY <1>9, <2>1, <2>2 DEF L!Arrive, ListTypes
  <1>10. ASSUME NEW x \in inFlight, L!Lost(x) PROVE ListTypes'
    BY <1>10 DEF L!Lost, ListTypes
  <1>11. CASE UNCHANGED L!listVars
    BY <1>11 DEF L!listVars, ListTypes
  <1> QED BY <1>3, <1>4, <1>5, <1>6, <1>7, <1>8, <1>9, <1>10, <1>11 DEF L!Next

\* A request adds the response of the server as it is.
LEMMA Requested ==
  ASSUME PartSettings, ListInv, NEW kind, kind \in {"first", "more"}, NEW c \in Cursors,
         L!Request(kind, c), Shift = 0
  PROVE  \E x \in Responses :
           /\ x.kind = kind /\ IsPage(x.page, x.next, c)
           /\ inFlight' = inFlight \cup {x}
  <1> DEFINE x == [kind |-> kind, page |-> L!ListPage(c).page, next |-> L!ListPage(c).next]
  <1>1. IsPage(L!ListPage(c).page, L!ListPage(c).next, c)
    BY ListTimes, PageProperties DEF ListInv
  <1>2. x \in Responses
    BY <1>1 DEF IsPage, Responses
  <1>3. inFlight' = inFlight \cup {x}
    BY DEF L!Request
  <1>4. x.kind = kind /\ IsPage(x.page, x.next, c)
    BY <1>1
  <1> HIDE DEF x
  <1> QED BY <1>2, <1>3, <1>4

LEMMA ListNext == PartSettings /\ Shift = 0 /\ ListInv /\ [L!Next]_L!listVars => ListInv'
  <1> SUFFICES ASSUME PartSettings, Shift = 0, ListInv, [L!Next]_L!listVars PROVE ListInv'
    OBVIOUS
  <1>1. ListTypes /\ Loading /\ OneAtATime /\ Times /\ ListTypes'
    BY ListTimes, ListTypesNext DEF ListInv
  <1>2. MaxClock \in Nat /\ MaxClock > 0 /\ clock \in Nat /\ -1 \in -1..MaxClock
    BY DEF PartSettings, L!ListSettings, ListInv, ListTypes
  <1>3. PICK l \in Seq(Rows), c \in Cursors : l = list /\ c = cursor
    BY <1>1 DEF ListTypes
  <1>4. ASSUME NEW x, NEW y, Walk(x, y), UNCHANGED <<updated, moved, backdated>>
        PROVE  Walk(x, y)'
    BY <1>4 DEF Walk, Behind, L!Older
  <1>5. CASE L!Tick
    <2>1. UNCHANGED <<updated, list, cursor, inFlight, loaded, moved, backdated, mixed>>
      BY <1>5 DEF L!Tick
    <2>2. RowSteps
      BY <1>1, <2>1 DEF RowSteps, RowStep, Times
    <2> QED BY <1>1, <2>1, <2>2, MovedRows
  <1>6. ASSUME NEW row \in Rows, L!Create(row) PROVE ListInv'
    <2>1. /\ updated[row] = 0 /\ updated' = [updated EXCEPT ![row] = clock]
          /\ moved' = moved \cup {row}
          /\ UNCHANGED <<clock, list, cursor, inFlight, loaded, backdated, mixed>>
      BY <1>6 DEF L!Create
    <2>2. RowSteps
      BY <1>1, <1>2, <2>1 DEF RowSteps, RowStep, Times
    <2> QED BY <1>1, <2>1, <2>2, MovedRows
  <1>7. ASSUME NEW row \in Rows, L!Touch(row) PROVE ListInv'
    <2>1. /\ updated[row] > 0 /\ moved' = moved \cup {row}
          /\ UNCHANGED <<clock, list, cursor, inFlight, loaded, mixed>>
      BY <1>7 DEF L!Touch
    <2>2. PICK t \in {clock - 1, clock} \ {0} :
            /\ updated' = [updated EXCEPT ![row] = t]
            /\ backdated' = IF t < updated[row] THEN backdated \cup {row} ELSE backdated
      BY <1>7 DEF L!Touch
    <2>3. t \in 1..MaxClock
      BY <1>1, <1>2, <2>2 DEF ListTypes
    <2>4. updated[row] \in Int /\ t \in Int /\ t > 0 /\ Times'
      BY <1>1, <1>2, <2>2, <2>3 DEF Times
    <2>5. \A r \in Rows : RowStep(r) /\ (updated[r] # 0 => updated'[r] # 0)
      BY <1>1, <2>1, <2>2, <2>4 DEF RowStep, Times
    <2>6. RowSteps
      BY <1>1, <2>1, <2>2, <2>4, <2>5 DEF RowSteps
    <2> QED BY <1>1, <2>1, <2>6, MovedRows
  <1>8. ASSUME NEW row \in Rows, L!Delete(row) PROVE ListInv'
    <2>1. /\ updated[row] > 0 /\ updated' = [updated EXCEPT ![row] = -1]
          /\ moved' = moved \cup {row}
          /\ UNCHANGED <<clock, list, cursor, inFlight, loaded, backdated, mixed>>
      BY <1>8 DEF L!Delete
    <2>2. RowSteps
      BY <1>1, <1>2, <2>1 DEF RowSteps, RowStep, Times
    <2> QED BY <1>1, <2>1, <2>2, MovedRows
  <1>9. CASE L!Refresh
    <2>1. L!Request("first", <<>>) /\ <<>> \in Cursors
      BY <1>9 DEF L!Refresh, Cursors
    <2>2. /\ mixed' = (inFlight # {}) /\ moved' = {} /\ backdated' = {}
          /\ UNCHANGED <<clock, updated, list, cursor, loaded>>
      BY <1>9 DEF L!Refresh
    <2>3. PICK x \in Responses : /\ x.kind = "first" /\ IsPage(x.page, x.next, <<>>)
                                 /\ inFlight' = inFlight \cup {x}
      BY <2>1, Requested
    <2>4. Walk(x.page, x.next)'
      BY <1>1, <2>2, <2>3, WalkBegins
    <2>5. Loading'
      BY <1>1, <2>2, <2>3 DEF Loading
    <2>6. OneAtATime'
      BY <2>2, <2>3, <2>4 DEF OneAtATime, Walking
    <2> QED BY <1>1, <2>5, <2>6 DEF ListInv
  <1>10. CASE L!LoadMore
    <2>1. cursor # <<>> /\ L!Request("more", c)
      BY <1>3, <1>10 DEF L!LoadMore
    <2>2. /\ mixed' = (mixed \/ inFlight # {})
          /\ UNCHANGED <<clock, updated, list, cursor, loaded, moved, backdated>>
      BY <1>10 DEF L!LoadMore
    <2>3. PICK x \in Responses : /\ x.kind = "more" /\ IsPage(x.page, x.next, c)
                                 /\ inFlight' = inFlight \cup {x}
      BY <2>1, Requested
    <2>4. loaded
      BY <1>1, <2>1 DEF Loading, ListTypes
    <2>5. Loading'
      BY <2>2, <2>4 DEF Loading
    <2>6. ASSUME ~mixed, inFlight = {} PROVE OneAtATime'
      <3>1. Walk(l, c)
        BY <1>1, <1>3, <2>4, <2>6 DEF OneAtATime
      <3>2. Walk(l \o x.page, x.next)
        BY <1>1, <1>3, <2>1, <2>3, <3>1, WalkContinues
      <3>3. Walk(l, c)' /\ Walk(l \o x.page, x.next)'
        BY <1>4, <2>2, <3>1, <3>2
      <3>4. l = list' /\ c = cursor' /\ inFlight' = {x}
        BY <1>3, <2>2, <2>3, <2>6
      <3>5. Walking(x)'
        BY <2>3, <3>3, <3>4 DEF Walking
      <3>6. Walk(list, cursor)'
        BY <3>3, <3>4 DEF Walk
      <3> QED BY <3>4, <3>5, <3>6 DEF OneAtATime
    <2>7. mixed \/ inFlight # {} => OneAtATime'
      BY <2>2 DEF OneAtATime
    <2> QED BY <1>1, <2>5, <2>6, <2>7 DEF ListInv
  <1>11. ASSUME NEW x \in inFlight, L!Arrive(x) PROVE ListInv'
    <2>1. /\ inFlight' = inFlight \ {x}
          /\ list' = IF x.kind = "first" THEN x.page ELSE list \o x.page
          /\ cursor' = x.next /\ loaded' = TRUE
          /\ UNCHANGED <<clock, updated, moved, backdated, mixed>>
      BY <1>11 DEF L!Arrive
    <2>2. x \in Responses /\ x.page \in Seq(Rows) /\ x.next \in Cursors
      BY <1>1 DEF ListTypes, Responses
    <2>3. l \o x.page \in Seq(Rows)
      BY <2>2, ConcatProperties
    <2>4. Loading'
      BY <2>1 DEF Loading
    <2>5. ASSUME ~mixed PROVE inFlight' = {} /\ Walk(list, cursor)'
      <3>1. Walking(x) /\ inFlight' = {}
        BY <1>1, <2>1, <2>5 DEF OneAtATime
      <3>2. PICK m \in Seq(Rows) : m = IF x.kind = "first" THEN x.page ELSE list \o x.page
        BY <1>3, <2>2, <2>3
      <3>3. Walk(m, x.next)
        BY <3>1, <3>2 DEF Walking
      <3>4. Walk(m, x.next)'
        BY <1>4, <2>1, <3>3
      <3>5. m = list' /\ x.next = cursor'
        BY <2>1, <3>2
      <3> QED BY <3>1, <3>4, <3>5 DEF Walk
    <2>6. OneAtATime'
      BY <2>1, <2>5 DEF OneAtATime
    <2> QED BY <1>1, <2>4, <2>6 DEF ListInv
  <1>12. ASSUME NEW x \in inFlight, L!Lost(x) PROVE ListInv'
    <2>1. /\ inFlight' = inFlight \ {x} /\ mixed' = (mixed \/ x.kind = "first")
          /\ UNCHANGED <<clock, updated, list, cursor, loaded, moved, backdated>>
      BY <1>12 DEF L!Lost
    <2>2. Loading'
      BY <1>1, <2>1 DEF Loading
    <2>3. ASSUME ~mixed, x.kind # "first", loaded PROVE inFlight' = {} /\ Walk(list, cursor)'
      <3>1. x.kind = "more" /\ \A y \in inFlight : x = y
        BY <1>1, <2>3 DEF ListTypes, Responses, OneAtATime
      <3>2. Walk(l, c) /\ inFlight' = {}
        BY <1>1, <1>3, <2>1, <2>3, <3>1 DEF OneAtATime
      <3>3. Walk(l, c)'
        BY <1>4, <2>1, <3>2
      <3>4. l = list' /\ c = cursor'
        BY <1>3, <2>1
      <3> QED BY <3>2, <3>3, <3>4 DEF Walk
    <2>4. ~mixed => \A y \in inFlight : x = y
      BY <1>1 DEF OneAtATime
    <2>5. OneAtATime'
      BY <2>1, <2>3, <2>4 DEF OneAtATime
    <2> QED BY <1>1, <2>2, <2>5 DEF ListInv
  <1>13. CASE UNCHANGED L!listVars
    <2>1. UNCHANGED <<clock, updated, list, cursor, inFlight, loaded, moved, backdated, mixed>>
      BY <1>13 DEF L!listVars
    <2>2. RowSteps
      BY <1>1, <2>1 DEF RowSteps, RowStep, Times
    <2> QED BY <1>1, <2>1, <2>2, MovedRows
  <1> QED BY <1>5, <1>6, <1>7, <1>8, <1>9, <1>10, <1>11, <1>12, <1>13 DEF L!Next

\* On a server whose clock is on UTC, no conversation comes twice in one walk
\* through the sidebar, however turns, renames and deletions move the rows
\* between its pages, unless it was stamped with an older time than it had.
THEOREM NoRepeatedRow == ASSUME Shift = 0 PROVE SuiteSpec => []NoRowTwice
  <1>1. ListInv => NoRowTwice
    <2> SUFFICES ASSUME ListInv, L!OneWalk, NEW i \in DOMAIN list, NEW j \in DOMAIN list,
                        i # j, list[i] = list[j]
                 PROVE  list[i] \in backdated
      BY DEF NoRowTwice, L!NoRowTwice
    <2>1. ~mixed /\ \A x \in inFlight : x.kind = "more"
      BY DEF L!OneWalk
    <2>2. loaded
      BY DEF ListInv, ListTypes, Loading
    <2> QED BY <2>1, <2>2 DEF ListInv, OneAtATime, Walk
  <1>2. PartSettings /\ Shift = 0
    BY PartSettings
  <1> QED BY ListPart, ListInit, ListNext, <1>1, <1>2, PTL DEF L!Spec

\* There too, no conversation is skipped: one that has not changed since the
\* first page was read is in the sidebar or on a page that is still to come.
THEOREM NoSkippedRow == ASSUME Shift = 0 PROVE SuiteSpec => []UnmovedRowsReached
  <1>1. ListInv => UnmovedRowsReached
    <2> SUFFICES ASSUME ListInv, loaded, L!OneWalk, NEW row \in Rows \ moved, updated[row] > 0
                 PROVE  row \in L!ToSet(list) \/ (cursor # <<>> /\ L!Older(row, cursor))
      BY DEF UnmovedRowsReached, L!UnmovedRowsReached
    <2>1. Walk(list, cursor)
      BY DEF L!OneWalk, ListInv, OneAtATime
    <2> QED BY <2>1 DEF Walk, L!ToSet
  <1>2. PartSettings /\ Shift = 0
    BY PartSettings
  <1> QED BY ListPart, ListInit, ListNext, <1>1, <1>2, PTL DEF L!Spec

-----------------------------------------------------------------------------
(* Types, of all the parts.                                                 *)

LEMMA ListTypeOK == SuiteSpec => []L!TypeOK
  <1>1. PartSettings
    BY PartSettings
  <1>2. PartSettings /\ L!Init => ListTypes
    BY ListInit DEF ListInv
  <1>3. PartSettings /\ ListTypes => L!TypeOK
    <2> SUFFICES ASSUME PartSettings, ListTypes PROVE L!TypeOK
      OBVIOUS
    <2>1. clock \in Nat
      BY DEF ListTypes, PartSettings, L!ListSettings
    <2>2. \A q \in Seq(Rows) : L!ToSet(q) \subseteq Rows
      BY DEF L!ToSet
    <2>3. Len(cursor) <= 1
      <3>1. cursor = <<>> \/ \E x : cursor = <<x>>
        BY DEF ListTypes, Cursors
      <3>2. Len(<<>>) = 0 /\ \A x : Len(<<x>>) = 1
        OBVIOUS
      <3>3. 0 <= 1 /\ 1 <= 1
        OBVIOUS
      <3> QED BY <3>1, <3>2, <3>3, Zenon
    <2>4. \A x \in inFlight : L!ToSet(x.page) \subseteq Rows
      BY <2>2 DEF ListTypes, Responses
    <2> QED BY <2>1, <2>2, <2>3, <2>4 DEF L!TypeOK, ListTypes
  <1> QED BY ListPart, ListTypesNext, <1>1, <1>2, <1>3, PTL DEF L!Spec

LEMMA PageTypeOK == SuiteSpec => []B!TypeOK
  <1> DEFINE Streams == [phase : {"none", "asked", "open", "done"},
                         conversation : Conversations \cup {None}]
  <1>0. B!NoStream \in Streams /\ \A s \in Streams : [s EXCEPT !.phase = "done"] \in Streams
    BY DEF B!NoStream
  <1>1. B!Init => B!TypeOK
    BY <1>0 DEF B!Init, B!TypeOK
  <1>2. B!TypeOK /\ [B!Next]_B!pageVars => B!TypeOK'
    <2> SUFFICES ASSUME B!TypeOK, [B!Next]_B!pageVars PROVE B!TypeOK'
      OBVIOUS
    <2> USE DEF B!TypeOK, B!Show, B!TurnTo, B!Of, B!RenderLiveReply
    <2>1. CASE B!SignIn \/ B!SignOut \/ B!NewChat \/ B!StatusEvent \/ B!TokenEvent
      BY <2>1 DEF B!SignIn, B!SignOut, B!NewChat, B!StatusEvent, B!TokenEvent
    <2>2. CASE B!Send
      BY <2>2 DEF B!Send
    <2>3. CASE B!DoneEvent \/ B!Refreshed \/ B!Failed
      BY <1>0, <2>3 DEF B!DoneEvent, B!Refreshed, B!Failed
    <2>4. ASSUME NEW c \in Conversations,
                 \/ B!ClickOpen(c) \/ B!Opened(c) \/ B!ClickDelete(c) \/ B!Deleted(c)
          PROVE  B!TypeOK'
      BY <2>4 DEF B!ClickOpen, B!Opened, B!ClickDelete, B!Deleted
    <2>5. ASSUME NEW c \in Conversations, B!SessionEvent(c) PROVE B!TypeOK'
      BY <2>5 DEF B!SessionEvent
    <2>6. CASE UNCHANGED B!pageVars
      BY <2>6 DEF B!pageVars
    <2> QED BY <2>1, <2>2, <2>3, <2>4, <2>5, <2>6 DEF B!Next
  <1> QED BY BrowserPart, <1>1, <1>2, PTL DEF B!Spec

LEMMA MemoryTypeOK == SuiteSpec => []P!TypeOK
  <1> DEFINE Flags == account \in BOOLEAN /\ turn \in BOOLEAN
  <1>1. P!Init => Flags
    BY DEF P!Init
  <1>2. Flags /\ [P!Next]_P!prefVars => Flags'
    <2> SUFFICES ASSUME Flags, [P!Next]_P!prefVars PROVE Flags'
      OBVIOUS
    <2>1. CASE UNCHANGED <<account, turn>>
      BY <2>1
    <2>2. CASE P!TurnStarts \/ P!TurnEnds \/ P!AccountDeleted
      BY <2>2 DEF P!TurnStarts, P!TurnEnds, P!AccountDeleted
    <2> QED BY <2>1, <2>2, Zenon
        DEF P!Next, P!Patch, P!Remember, P!Read, P!Write, P!prefVars
  <1>3. PrefInv /\ Flags => P!TypeOK
    <2> SUFFICES ASSUME PrefInv, Flags PROVE P!TypeOK
      OBVIOUS
    <2>1. \A V : \A q \in Seq(V) : P!ToSet(q) \subseteq V
      BY DEF P!ToSet
    <2>2. \A f \in P!Fields : P!ToSet(saved[f]) \subseteq Values
      BY <2>1 DEF PrefInv, PrefTypes
    <2>3. kept \subseteq Values
      BY <2>2 DEF PrefInv, P!NothingKnownIsLost, P!Fields
    <2>4. \A w \in Writers : /\ task[w].step \in {"idle", "read", "write"}
                             /\ P!ToSet(task[w].plan) \subseteq P!Changes
      BY <2>1 DEF PrefInv, PrefTypes, Tasks
    <2> QED BY <2>2, <2>3, <2>4 DEF P!TypeOK
  <1> QED BY PreferencesPart, PrefInit, PrefNext, <1>1, <1>2, <1>3, PTL DEF P!Spec

\* What a conversation keeps of a turn.
Messages == [products : SUBSET Products, filters : Asked \cup {None}]

TalkTypes ==
  /\ question \in Questions \cup {None} /\ calls \in 0..Calls /\ draft.pieces \in 0..H!LastPiece
  /\ talk \in Seq(Messages)
  /\ step = "save" => [products |-> reply.products, filters |-> reply.filters] \in Messages

LEMMA TalkInit == PartSettings /\ H!Init => TalkTypes
  <1> SUFFICES ASSUME PartSettings, H!Init PROVE TalkTypes
    OBVIOUS
  <1>1. 0 \in 0..Calls /\ draft.pieces = 0 /\ 0 \in 0..H!LastPiece
    BY DEF PartSettings, H!ShopperSettings, H!Init, H!NoDraft, H!LastPiece
  <1>2. talk \in Seq(Messages)
    BY EmptySeq DEF H!Init
  <1> QED BY <1>1, <1>2 DEF TalkTypes, H!Init

LEMMA TalkNext == PartSettings /\ ShopInv /\ TalkTypes /\ [H!Next]_H!shopVars => TalkTypes'
  <1> SUFFICES ASSUME PartSettings, ShopInv, TalkTypes, [H!Next]_H!shopVars PROVE TalkTypes'
    OBVIOUS
  <1>1. /\ Calls \in Nat /\ calls \in 0..Calls /\ 0 \in 0..Calls
        /\ H!NoDraft.pieces = 0 /\ H!LastPiece = 2 /\ draft.pieces \in 0..2
    BY DEF PartSettings, H!ShopperSettings, H!NoDraft, H!LastPiece, TalkTypes
  <1>2. /\ evidence \in [products : SUBSET Products, citations : SUBSET Reviews,
                         searches : Seq(Searched)]
        /\ draft \in [products : SUBSET Products, citations : SUBSET Reviews,
                      pieces : Nat, wrong : BOOLEAN]
    BY DEF ShopInv, ShopTypes
  <1>3. \A line : H!Plain(line).products = {} /\ H!Plain(line).filters = None
    BY DEF H!Plain, H!NoReply
  <1>4. ASSUME NEW q \in Questions, H!Ask(q) PROVE TalkTypes'
    BY <1>4 DEF H!Ask, TalkTypes
  <1>5. CASE H!AnswerDirectly
    <2>1. UNCHANGED <<talk, question, calls, draft>>
      BY <1>5 DEF H!AnswerDirectly
    <2>2. reply'.products \in SUBSET Products /\ reply'.filters = None
      <3>1. CASE question.memory \/ question.saves
        BY <1>3, <1>5, <3>1 DEF H!AnswerDirectly
      <3>2. CASE ~(question.memory \/ question.saves)
        <4>1. PICK best \in H!BestRated : reply' = [H!Plain("best rated") EXCEPT !.products = best]
          BY <1>5, <3>2 DEF H!AnswerDirectly
        <4>2. reply'.products = best /\ reply'.filters = None
          BY <4>1 DEF H!Plain, H!NoReply
        <4>3. best \subseteq Products
          BY DEF H!BestRated, H!Documents
        <4> QED BY <4>2, <4>3
      <3> QED BY <3>1, <3>2
    <2> QED BY <2>1, <2>2 DEF TalkTypes, Messages
  <1>6. CASE H!CallAgent
    BY <1>6 DEF H!CallAgent, TalkTypes
  <1>7. ASSUME NEW asked \in Asked, H!CatalogSearch(asked) PROVE TalkTypes'
    <2>1. calls' \in 0..Calls
      BY <1>1, <1>7 DEF H!CatalogSearch
    <2> QED BY <1>7, <2>1 DEF H!CatalogSearch, TalkTypes
  <1>8. CASE H!ReviewSearch
    <2>1. calls' \in 0..Calls
      BY <1>1, <1>8 DEF H!ReviewSearch
    <2> QED BY <1>8, <2>1 DEF H!ReviewSearch, TalkTypes
  <1>9. ASSUME NEW d \in H!Drafts, H!StartDraft(d) PROVE TalkTypes'
    <2>1. draft'.pieces = 0
      BY <1>9 DEF H!StartDraft, H!Drafts
    <2> QED BY <1>1, <1>9, <2>1 DEF H!StartDraft, TalkTypes
  <1>10. CASE H!AcceptPiece
    <2>1. draft'.pieces = draft.pieces + 1 /\ draft.pieces < 2
      BY <1>1, <1>2, <1>10 DEF H!AcceptPiece
    <2>2. draft'.pieces \in 0..2
      BY <1>1, <2>1
    <2> QED BY <1>1, <1>10, <2>2 DEF H!AcceptPiece, TalkTypes
  <1>11. CASE H!DiscardDraft
    BY <1>1, <1>11 DEF H!DiscardDraft, TalkTypes
  <1>12. CASE H!Hydrate
    <2>1. UNCHANGED <<talk, question, calls, draft>> /\ reply' = H!Hydrated(draft)
      BY <1>12 DEF H!Hydrate
    <2>2. reply'.products = draft.products /\ reply'.filters = H!ActiveFilters
      BY <2>1 DEF H!Hydrated
    <2>3. H!ActiveFilters \in Asked \cup {None}
      <3>1. CASE evidence.searches = <<>>
        BY <3>1 DEF H!ActiveFilters
      <3>2. CASE evidence.searches # <<>>
        <4>1. evidence.searches[Len(evidence.searches)] \in Searched
          BY <1>2, <3>2
        <4> QED BY <3>2, <4>1 DEF H!ActiveFilters, H!Last, Searched
      <3> QED BY <3>1, <3>2
    <2> QED BY <1>2, <2>1, <2>2, <2>3 DEF TalkTypes, Messages
  <1>13. CASE H!LimitReached
    <2>1. UNCHANGED <<talk, question, calls, draft>> /\ reply' = H!Plain("limit")
      BY <1>13 DEF H!LimitReached
    <2> QED BY <1>3, <2>1 DEF TalkTypes, Messages
  <1>14. CASE H!Fail
    BY <1>1, <1>14 DEF H!Fail, H!EndTurn, TalkTypes
  <1>15. CASE H!Save
    <2>1. talk' \in Seq(Messages)
      BY <1>15, AppendProperties DEF H!Save, TalkTypes
    <2> QED BY <1>1, <1>15, <2>1 DEF H!Save, H!EndTurn, TalkTypes
  <1>16. ASSUME NEW d \in H!Drafts, H!FinalDraft(d) PROVE TalkTypes'
    <2>1. draft'.pieces = 2
      BY <1>16 DEF H!FinalDraft, H!Drafts, H!LastPiece
    <2> QED BY <1>1, <1>16, <2>1 DEF H!FinalDraft, TalkTypes
  <1>17. CASE UNCHANGED H!shopVars
    BY <1>17 DEF H!shopVars, TalkTypes
  <1> QED BY <1>4, <1>5, <1>6, <1>7, <1>8, <1>9, <1>10, <1>11, <1>12, <1>13, <1>14, <1>15,
             <1>16, <1>17 DEF H!Next

LEMMA ShopperTypeOK == SuiteSpec => []H!TypeOK
  <1>1. PartSettings
    BY PartSettings
  <1>2. ShopInv /\ TalkTypes => H!TypeOK
    <2> SUFFICES ASSUME ShopInv, TalkTypes PROVE H!TypeOK
      OBVIOUS
    <2>1. \A i \in DOMAIN talk : talk[i].products \subseteq Products
      <3>1. \A i \in DOMAIN talk : talk[i] \in Messages
        BY DEF TalkTypes
      <3> QED BY <3>1 DEF Messages
    <2>2. evidence.products \subseteq Products /\ evidence.citations \subseteq Reviews
      BY DEF ShopInv, ShopTypes
    <2> QED BY <2>1, <2>2 DEF H!TypeOK, ShopInv, TalkTypes
  <1> QED BY ShopperPart, ShopInit, ShopNext, TalkInit, TalkNext, <1>1, <1>2, PTL DEF H!Spec

\* The types of the memory, of a turn, of the page and of its sidebar.
THEOREM PartTypes == SuiteSpec => []TypesOK
  BY MemoryTypeOK, ShopperTypeOK, PageTypeOK, ListTypeOK, PTL DEF TypesOK

=============================================================================
