------------------------------ MODULE Knowledge ------------------------------
(***************************************************************************)
(* The knowledge corpus: `custops ingest` runs (cli.py, ingestion/         *)
(* pipeline.py), each one transaction over all policies and contracts,     *)
(* may overlap, while policies and contracts are edited and searches       *)
(* (retrieval/search.py) read what is committed.  Sessions do not          *)
(* autoflush: an INSERT or UPDATE of a document reaches the database with  *)
(* the flush, the DELETE of its chunks at once.  A statement deletes the   *)
(* rows of its own snapshot, and waits for whoever has locked one.  An     *)
(* UPDATE names the columns that differ from the row as it was loaded.     *)
(***************************************************************************)
EXTENDS Naturals, FiniteSets

CONSTANTS
  Policies, Contracts,   \* the rows documents are made of
  Owners,                \* accounts
  Everyone,              \* account_id is NULL
  Ingests,               \* runs of the command
  MaxEdits,              \* bound: edits of policies and contracts
  Limit                  \* the limit of a search

\* A contract belongs to an account.
ASSUME KnowledgeAssumption ==
  /\ Everyone \notin Owners /\ Policies \cap Contracts = {}
  /\ Contracts # {} => Owners # {}

VARIABLES
  source,     \* policies and contracts as they are
  had,        \* history: what each of them has been
  edits,      \* how much of MaxEdits is used
  document,   \* knowledge_documents, by their unique source
  chunks,     \* knowledge_chunks
  ingest      \* per run: where it is and what its transaction holds

knowledgeVars == <<source, had, edits, document, chunks, ingest>>

Sources == Policies \cup Contracts
NoDocument == [text |-> "none", owner |-> Everyone]
NoDocuments == [s \in Sources |-> NoDocument]

\* The sources that a function to documents has one for
Held(documents) == {s \in Sources : documents[s] # NoDocument}

\* What was written, over what was there
Over(written, documents) ==
  [s \in Sources |-> IF s \in Held(written) THEN written[s] ELSE documents[s]]

\* chunk_text cuts the first text in two; the last has nothing but whitespace.
\* A chunk has an id of its own: one that another run inserts is another row.
Text == {"v1", "v2", "blank"}
Indexes(text) == {n \in {0, 1} : text = "v1" \/ (text = "v2" /\ n = 0)}
ChunksOf(s, text, run) ==
  {[source |-> s, index |-> n, text |-> text, by |-> run] : n \in Indexes(text)}

\* Of a run: `docs`, `gone` and `rows` have reached the database, `pending`
\* documents have not been flushed yet; of those in `keeps` the account is not new.
Idle == [pc |-> "idle", met |-> FALSE, kind |-> "policies", read |-> NoDocuments, todo |-> {},
         current |-> "none", keeps |-> {}, snapshot |-> {}, pending |-> NoDocuments, docs |-> NoDocuments,
         gone |-> {}, rows |-> {}]

Active(i) == ingest[i].pc \notin {"idle", "committed", "failed"}

\* An ended run holds nothing any more.
KnowledgeTypeOK ==
  /\ source \in [Sources -> [text : Text, owner : Owners \cup {Everyone}]]
  /\ document \in [Sources -> [text : Text \cup {"none"}, owner : Owners \cup {Everyone}]]
  /\ \A i \in Ingests :
       /\ ingest[i].pc \in {"idle", "next", "insert", "delete", "deleting", "embed",
                            "flush", "rows", "committing", "committed", "failed"}
       /\ ~Active(i) => ingest[i].docs = NoDocuments /\ ingest[i].gone = {} /\ ingest[i].rows = {}
       /\ ingest[i].rows # {} => Held(ingest[i].docs) # {}

\* The contracts have been ingested before, the policies with them or not yet.
KnowledgeInit ==
  /\ source = [s \in Sources |->
       [text |-> "v1", owner |-> IF s \in Policies THEN Everyone ELSE CHOOSE o \in Owners : TRUE]]
  /\ had = [s \in Sources |-> {source[s]}]
  /\ edits = 0
  /\ \E ingested \in {Contracts, Sources} :
       /\ document = [s \in Sources |-> IF s \in ingested THEN source[s] ELSE NoDocument]
       /\ chunks = UNION {ChunksOf(s, "v1", "before") : s \in ingested}
  /\ ingest = [i \in Ingests |-> Idle]

-----------------------------------------------------------------------------
(* The corpus command                                                      *)

\* Another session edits a contract: its text, or the account it belongs to.
\* Policies are versioned, and each version is a source of its own.
Edit(s) ==
  /\ edits < MaxEdits
  /\ edits' = edits + 1
  /\ \/ \E text \in Text \ {source[s].text} : source' = [source EXCEPT ![s].text = text]
     \/ \E o \in Owners : source' = [source EXCEPT ![s].owner = o]
  /\ had' = [had EXCEPT ![s] = @ \cup {source'[s]}]
  /\ UNCHANGED <<document, chunks, ingest>>

Advance(i, run) ==
  /\ ingest' = [ingest EXCEPT ![i] = run]
  /\ UNCHANGED <<source, had, edits>>

\* What a SELECT of these sources finds
Rows(kind) == [s \in Sources |-> IF s \in kind THEN source[s] ELSE NoDocument]

\* The command starts: the SELECT of ingest_policies.  History: who met whom.
StartIngest(i) ==
  /\ ingest[i].pc = "idle"
  /\ ingest' = [j \in Ingests |->
       IF j = i THEN [ingest[i] EXCEPT !.pc = "next", !.todo = Policies, !.kind = "contracts",
                                       !.read = Rows(Policies),
                                       !.met = \E k \in Ingests : Active(k)]
       ELSE [ingest[j] EXCEPT !.met = @ \/ Active(j)]]
  /\ UNCHANGED <<source, had, edits, document, chunks>>

\* The SELECT of ingest_contracts, after the policies
ReadContracts(i) ==
  /\ ingest[i].pc = "next" /\ ingest[i].todo = {} /\ ingest[i].kind = "contracts"
  /\ Advance(i, [ingest[i] EXCEPT !.todo = Contracts, !.read = Rows(Contracts), !.kind = "end"])
  /\ UNCHANGED <<document, chunks>>

\* The documents that are loaded with the account that they should have
Keeping(i, s) ==
  ingest[i].keeps \cup {q \in {s} : document[s].owner = ingest[i].read[s].owner}

\* Mutant: the hash is not compared.
LookAlways(i) ==
  /\ ingest[i].pc = "next"
  /\ \E s \in ingest[i].todo :
       Advance(i, [ingest[i] EXCEPT !.todo = ingest[i].todo \ {s}, !.current = s,
                   !.keeps = Keeping(i, s),
                   !.pc = IF document[s] = NoDocument THEN "insert" ELSE "delete"])
  /\ UNCHANGED <<document, chunks>>

\* ingest_document finds the document; the same hash means nothing to do.  What
\* differs is assigned now and written later.  The SELECT of the rows has no order.
Look(i) ==
  /\ ingest[i].pc = "next"
  /\ \E s \in ingest[i].todo :
       Advance(i, [ingest[i] EXCEPT !.todo = ingest[i].todo \ {s}, !.current = s,
                   !.keeps = Keeping(i, s),
                   !.pc = IF document[s].text = ingest[i].read[s].text THEN "next"
                          ELSE IF document[s] = NoDocument THEN "insert" ELSE "delete"])
  /\ UNCHANGED <<document, chunks>>

\* The text of the document that a run is at
NewText(i) == ingest[i].read[ingest[i].current].text

\* Another run has inserted or updated one of these rows and has not ended.
DocumentsLockedBy(j, i, wanted) == j # i /\ wanted \cap Held(ingest[j].docs) # {}

\* Another run has deleted the row, and has not ended.
RowsLockedBy(j, i) == j # i /\ ingest[i].snapshot \cap ingest[j].gone # {}

\* The unique index of (document, chunk_index) finds a row: whether it is in the
\* way is known when whoever has deleted it has ended.
Taken(rows, i) ==
  \E c \in rows : c.source = ingest[i].current /\ c.index \in Indexes(NewText(i))

WaitsFor(i, j) ==
  \/ /\ ingest[i].pc \in {"insert", "flush"}
     /\ DocumentsLockedBy(j, i, Held(ingest[i].pending) \cup {ingest[i].current})
  \/ ingest[i].pc = "committing" /\ DocumentsLockedBy(j, i, Held(ingest[i].pending))
  \/ ingest[i].pc = "deleting" /\ RowsLockedBy(j, i)
  \/ ingest[i].pc = "rows" /\ j # i /\ Taken(chunks \cap ingest[j].gone, i)

Unblocked(i) == \A j \in Ingests : ~WaitsFor(i, j)

\* Mutant: what the transaction held stays locked.
RollBackLeavingLocks(i) == Advance(i, [ingest[i] EXCEPT !.pc = "failed", !.rows = {}])

\* The transaction is over, and holds nothing any more.
Closed(i, pc) == [ingest[i] EXCEPT !.pc = pc, !.pending = NoDocuments, !.docs = NoDocuments,
                                   !.keeps = {}, !.gone = {}, !.rows = {}]

\* The transaction is rolled back: all of it, also the documents already done.
RollBack(i) == Advance(i, Closed(i, "failed"))

\* A blank text is done before anything is embedded, and before the flush.
AfterText(i) == IF Indexes(NewText(i)) = {} THEN "next" ELSE "embed"

\* Mutant: an existing document keeps its body.
FlushedKeepingBody(i) ==
  Over([s \in Sources |-> [ingest[i].pending[s] EXCEPT
                             !.text = IF @ = "none" THEN @ ELSE document[s].text]],
       ingest[i].docs)

\* Mutant: an existing document keeps its account.
FlushedKeepingAccount(i) ==
  Over([s \in Sources |-> [ingest[i].pending[s] EXCEPT
                             !.owner = IF s \in Held(ingest[i].pending) THEN document[s].owner
                                       ELSE @]],
       ingest[i].docs)

\* What the UPDATEs of a flush leave in their rows: the new text, and the account
\* that another run has written since if the one to write is not new.
Updated(i) ==
  [s \in Sources |->
     IF s \in ingest[i].keeps \cap Held(ingest[i].pending)
       THEN [ingest[i].pending[s] EXCEPT !.owner = document[s].owner]
       ELSE ingest[i].pending[s]]

\* The documents of the transaction once everything is flushed
Flushed(i) == Over(Updated(i), ingest[i].docs)

\* A new document is flushed with all that is pending, or meets
\* uq_knowledge_documents_source.
InsertDocument(i) ==
  /\ ingest[i].pc = "insert"
  /\ Unblocked(i)
  /\ LET s == ingest[i].current
     IN IF document[s] # NoDocument THEN RollBack(i)
        ELSE Advance(i, [ingest[i] EXCEPT
                           !.pc = AfterText(i), !.pending = NoDocuments,
                           !.docs = [Flushed(i) EXCEPT ![s] = ingest[i].read[s]]])
  /\ UNCHANGED <<document, chunks>>

\* The DELETE takes its snapshot ...
BeginDelete(i) ==
  /\ ingest[i].pc = "delete"
  /\ Advance(i, [ingest[i] EXCEPT
                   !.pc = "deleting",
                   !.snapshot = {c \in chunks : c.source = ingest[i].current}])
  /\ UNCHANGED <<document, chunks>>

\* ... and deletes those of its rows that are still there.
DeleteChunks(i) ==
  /\ ingest[i].pc = "deleting"
  /\ Unblocked(i)
  /\ LET s == ingest[i].current
     IN Advance(i, [ingest[i] EXCEPT
                      !.pc = AfterText(i),
                      !.pending = [ingest[i].pending EXCEPT ![s] = ingest[i].read[s]],
                      !.gone = ingest[i].gone \cup (ingest[i].snapshot \cap chunks)])
  /\ UNCHANGED <<document, chunks>>

\* provider.embed, batch by batch, outside the database
Embed(i) ==
  /\ ingest[i].pc = "embed"
  /\ Advance(i, [ingest[i] EXCEPT !.pc = "flush"])
  /\ UNCHANGED <<document, chunks>>

\* The flush updates the documents ...
FlushDocuments(i) ==
  /\ ingest[i].pc = "flush"
  /\ Unblocked(i)
  /\ Advance(i, [ingest[i] EXCEPT !.pc = "rows", !.docs = Flushed(i), !.pending = NoDocuments])
  /\ UNCHANGED <<document, chunks>>

\* ... and inserts the chunks, or meets the unique index.
FlushChunks(i) ==
  /\ ingest[i].pc = "rows"
  /\ Unblocked(i)
  /\ IF Taken(chunks \ ingest[i].gone, i) THEN RollBack(i)
     ELSE Advance(i, [ingest[i] EXCEPT
                        !.pc = "next",
                        !.rows = ingest[i].rows \cup ChunksOf(ingest[i].current, NewText(i), i)])
  /\ UNCHANGED <<document, chunks>>

\* Every source is done; the commit flushes what is left.
Finish(i) ==
  /\ ingest[i].pc = "next" /\ ingest[i].todo = {} /\ ingest[i].kind = "end"
  /\ Advance(i, [ingest[i] EXCEPT !.pc = "committing"])
  /\ UNCHANGED <<document, chunks>>

Commit(i) ==
  /\ ingest[i].pc = "committing"
  /\ Unblocked(i)
  /\ document' = Over(Flushed(i), document)
  /\ chunks' = (chunks \ ingest[i].gone) \cup ingest[i].rows
  /\ Advance(i, Closed(i, "committed"))

\* The provider fails, returns too few vectors, or the process stops.
FailIngest(i) ==
  /\ ingest[i].pc = "embed"
  /\ RollBack(i)
  /\ UNCHANGED <<document, chunks>>

\* Mutant: nothing ends two runs that wait for each other.
NeverBreak(i) == FALSE /\ UNCHANGED knowledgeVars

\* Runs that wait for each other, one more round: the database ends one of them.
BreakDeadlock(i) ==
  /\ \E round \in SUBSET Ingests :
       /\ i \in round
       /\ \A j \in round : /\ \E k \in round : WaitsFor(j, k)
                           /\ \E k \in round : WaitsFor(k, j)
  /\ RollBack(i)
  /\ UNCHANGED <<document, chunks>>

IngestStep(i) ==
  \/ ReadContracts(i) \/ Look(i) \/ InsertDocument(i) \/ BeginDelete(i) \/ DeleteChunks(i) \/ Embed(i)
  \/ FlushDocuments(i) \/ FlushChunks(i) \/ Finish(i) \/ Commit(i) \/ FailIngest(i) \/ BreakDeadlock(i)

-----------------------------------------------------------------------------
(* Retrieval                                                               *)

\* Mutant: without an account, everything is searched.
InScopeOfAll(account) ==
  {c \in chunks : account = Everyone \/ document[c.source].owner \in {Everyone, account}}

\* The WHERE of search_chunks
InScope(account) == {c \in chunks : document[c.source].owner \in {Everyone, account}}

\* Mutant: one result is enough, however far away.
SufficientWithAny(scores) == scores # {}

\* assess_sufficiency, in hundredths
Sufficient(scores) ==
  /\ scores # {}
  /\ \E top \in scores : top >= 35 /\ (top >= 75 \/ Cardinality({x \in scores : x >= 35}) >= 1)

\* search_chunks: the chunks in scope that are nearest, Limit of them
Nearest(account, score) ==
  {hits \in SUBSET InScope(account) :
     /\ Cardinality(hits) <= Limit
     /\ Cardinality(hits) = Limit \/ hits = InScope(account)
     /\ \A c \in hits, d \in InScope(account) \ hits : score[c.text] >= score[d.text]}

\* retrieve_evidence: what a search may answer now, by the scores of the texts
Evidence(account, score) ==
  {[sufficient |-> Sufficient({score[c.text] : c \in hits}),
    top |-> IF \E c \in hits : score[c.text] >= 35 THEN 35 ELSE 0,
    hits |-> {[chunk |-> c, of |-> document[c.source]] : c \in hits}] :
     hits \in Nearest(account, score)}

KnowledgeNext ==
  \/ \E s \in Contracts : Edit(s)
  \/ \E i \in Ingests : StartIngest(i) \/ IngestStep(i)

KnowledgeSpec == KnowledgeInit /\ [][KnowledgeNext]_knowledgeVars
                   /\ \A i \in Ingests : WF_knowledgeVars(IngestStep(i))

-----------------------------------------------------------------------------
(* Properties                                                              *)

\* A blank document of runs that met: the one that found it blank deleted what
\* its snapshot had, met no unique index, and may have left the chunks that the
\* other one had committed meanwhile.
LeftBehind(s) == document[s].text = "blank" /\ \E i \in Ingests : ingest[i].met

\* What can be retrieved of a document is all of its text as it is stored, cut by
\* one run, and nothing of an earlier one (replace, never append), however the
\* runs overlap and fail, but for what LeftBehind tells.
ChunksAreTheDocument ==
  \A s \in Sources : ~LeftBehind(s) =>
    \E run \in Ingests \cup {"before"} :
      {c \in chunks : c.source = s} = ChunksOf(s, document[s].text, run)

\* A stored document has a text and an account that its source has had, and both
\* at the same time, but for what a run left that met another one and committed: two
\* that update a document can leave the text of one with the account of the other.
StoredWasOnceTrue ==
  \A s \in Sources : document[s] # NoDocument =>
    /\ \E was \in had[s] : was.text = document[s].text
    /\ \E was \in had[s] : was.owner = document[s].owner
    /\ document[s] \in had[s] \/ \E i \in Ingests : ingest[i].met /\ ingest[i].pc = "committed"

\* Evidence never shows an account the document of another, is cited from the
\* text it was cut from, and suffices only if something of it cleared the floor.
EvidenceIsInScope ==
  \A account \in Owners \cup {Everyone}, score \in [Text -> {34, 35}] :
    \A e \in Evidence(account, score) :
      /\ \A h \in e.hits : /\ h.of.owner \in {Everyone, account}
                           /\ (h.chunk.text = h.of.text \/ LeftBehind(h.chunk.source))
      /\ e.sufficient => e.hits # {} /\ e.top = 35

\* A stored document is only replaced when its text has changed, but by a run
\* that met another one: an ingest of the same sources writes nothing.
RewriteNeedsNewText ==
  [][\A s \in Sources : document[s] # NoDocument /\ document'[s] # document[s] =>
       \/ document'[s].text # document[s].text
       \/ \E i \in Ingests : Active(i) /\ ~Active(i)' /\ ingest[i].met]_knowledgeVars

\* Every run of the command commits or fails, also when two lock each other out.
EveryIngestEnds == []<>(\A i \in Ingests : ~Active(i))

\* The corpus at every moment: chunks of the documents as stored, documents as
\* their sources have been, and evidence of nobody else's.
CorpusIsSound == ChunksAreTheDocument /\ StoredWasOnceTrue /\ EvidenceIsInScope
=============================================================================
