-------------------------- MODULE Knowledge_proofs --------------------------
(***************************************************************************)
(* The corpus, for any number of policies and contracts, of ingests that   *)
(* overlap and of edits: what can be retrieved of a document is its text.  *)
(* Then chunk_text, for any text and any of its parameters.                *)
(***************************************************************************)
EXTENDS Knowledge, Chunking, FiniteSetTheorems, WellFoundedInduction, TLAPS

Documents == [text : Text, owner : Owners \cup {Everyone}]
MaybeDocument == Documents \cup {NoDocument}
Runs == Ingests \cup {"before"}
Chunk == [source : Sources, index : {0, 1}, text : Text, by : Runs]

Run == [pc : {"idle", "next", "insert", "delete", "deleting", "embed", "flush", "rows",
              "committing", "committed", "failed"},
        met : BOOLEAN, kind : {"policies", "contracts", "end"},
        read : [Sources -> MaybeDocument], todo : SUBSET Sources,
        current : Sources \cup {"none"}, keeps : SUBSET Sources, snapshot : SUBSET Chunk,
        pending : [Sources -> MaybeDocument], docs : [Sources -> MaybeDocument],
        gone : SUBSET Chunk, rows : SUBSET Chunk]

RowsTypeOK ==
  /\ source \in [Sources -> Documents]
  /\ had \in [Sources -> SUBSET Documents]
  /\ document \in [Sources -> MaybeDocument]
  /\ chunks \in SUBSET Chunk
  /\ ingest \in [Ingests -> Run]

\* What is written of a source is a text and an account that it has had, both at the
\* same time unless runs met.
Was(row, s) ==
  (\E was \in had[s] : was.text = row.text) /\ (\E was \in had[s] : was.owner = row.owner)
StoredInv ==
  \A s \in Sources :
    /\ source[s] \in had[s]
    /\ document[s] # NoDocument =>
         /\ Was(document[s], s)
         /\ \/ document[s] \in had[s]
            \/ \E i \in Ingests : ingest[i].met /\ ingest[i].pc = "committed"
WritesWhatWas(i) ==
  \A s \in Sources :
    /\ s \in Held(ingest[i].read) => ingest[i].read[s] \in had[s]
    /\ s \in Held(ingest[i].docs) => /\ Was(ingest[i].docs[s], s)
                                     /\ ~ingest[i].met => ingest[i].docs[s] \in had[s]
    /\ s \in Held(ingest[i].pending) => ingest[i].pending[s] \in had[s]

\* A document that is updated is there, and as long as a run is alone it keeps the
\* account that it has to keep.
Updating(i) == ingest[i].pc \in {"delete", "deleting"}
KeepsAccounts(i) ==
  /\ Updating(i) => document[ingest[i].current] # NoDocument
  /\ \A s \in Held(ingest[i].pending) : document[s] # NoDocument
  /\ ingest[i].keeps \cap ingest[i].todo = {}
  /\ ingest[i].kind = "contracts" => ingest[i].keeps \subseteq Policies
  /\ ~Active(i) => ingest[i].keeps = {}
  /\ Active(i) /\ ~ingest[i].met =>
       /\ Updating(i) /\ ingest[i].current \in ingest[i].keeps =>
            document[ingest[i].current].owner = ingest[i].read[ingest[i].current].owner
       /\ \A s \in ingest[i].keeps \cap Held(ingest[i].pending) :
            document[s].owner = ingest[i].pending[s].owner

\* The rows of a source, and the sources that a run has written
Of(rows, s) == {c \in rows : c.source = s}
Claimed(i) == Held(ingest[i].docs) \cup Held(ingest[i].pending)

\* What the run writes of them, but for accounts that it keeps
Meant(i) == Over(ingest[i].pending, ingest[i].docs)

Looking(i) == ingest[i].pc \in {"insert", "delete", "deleting"}
Writing(i) == ingest[i].pc \in {"embed", "flush", "rows"}

\* A run takes each source once, and knows what it reads.
TakesOnce(i) ==
  /\ ingest[i].todo \subseteq Held(ingest[i].read)
  /\ ingest[i].todo \cap Claimed(i) = {}
  /\ Held(ingest[i].docs) \cap Held(ingest[i].pending) = {}
  /\ Looking(i) \/ Writing(i) => /\ ingest[i].current \in Held(ingest[i].read)
                                 /\ ingest[i].current \notin ingest[i].todo
  /\ Looking(i) => ingest[i].current \notin Claimed(i)
  /\ ingest[i].kind = "contracts" =>
       /\ Claimed(i) \cup ingest[i].todo \subseteq Policies
       /\ Looking(i) \/ Writing(i) => ingest[i].current \in Policies

\* What of a text has been written where.
WritesInTurn(i) ==
  /\ ~Active(i) => /\ ingest[i].docs = NoDocuments /\ ingest[i].pending = NoDocuments
                   /\ ingest[i].gone = {} /\ ingest[i].rows = {}
  /\ ingest[i].pc = "deleting" =>
       \A c \in ingest[i].snapshot : c.source = ingest[i].current
  /\ \A c \in ingest[i].gone : c.source \in Claimed(i)
  /\ \A c \in ingest[i].rows : c.source \in Held(ingest[i].docs)
  /\ Writing(i) => /\ ingest[i].current \in Claimed(i) /\ 0 \in Indexes(NewText(i))
                   /\ Meant(i)[ingest[i].current].text = NewText(i)
                   /\ Of(ingest[i].rows, ingest[i].current) = {}
  /\ ingest[i].pc = "rows" => ingest[i].pending = NoDocuments
  /\ \A s \in Claimed(i) :
       \/ Of(ingest[i].rows, s) = ChunksOf(s, Meant(i)[s].text, i)
       \/ Writing(i) /\ s = ingest[i].current

\* The chunks of a source were always inserted together.
Whole(rows, s) == \E t \in Text, run \in Runs : rows = ChunksOf(s, t, run)

WholeInv ==
  \A s \in Sources : /\ Whole(Of(chunks, s), s)
                     /\ document[s] = NoDocument => Of(chunks, s) = {}
DeletesWhole(i) ==
  \A s \in Sources : /\ Whole(Of(ingest[i].gone, s), s)
                     /\ ingest[i].pc = "deleting" => Whole(Of(ingest[i].snapshot, s), s)

\* A document is flushed by one run at a time, and from its new chunks to the
\* commit nothing is left that the run has not deleted.
LocksOut(i) ==
  /\ \A j \in Ingests \ {i} : Held(ingest[i].docs) \cap Held(ingest[j].docs) = {}
  /\ \A c \in ingest[i].rows : Of(chunks, c.source) \subseteq ingest[i].gone

\* A run that meets nobody deletes all there is, and writes what is new.
Alone(i) ==
  /\ ingest[i].pc = "idle" => ~ingest[i].met
  /\ Active(i) /\ ~ingest[i].met =>
       /\ \A j \in Ingests \ {i} : ~Active(j)
       /\ ingest[i].pc = "deleting" => Of(chunks, ingest[i].current) \subseteq ingest[i].snapshot
       /\ Looking(i) => document[ingest[i].current].text # NewText(i)
       /\ \A s \in Claimed(i) : /\ Of(chunks, s) \subseteq ingest[i].gone
                                /\ document[s].text # Meant(i)[s].text

RunInv(i) == /\ WritesWhatWas(i) /\ TakesOnce(i) /\ WritesInTurn(i) /\ DeletesWhole(i)
             /\ LocksOut(i) /\ Alone(i) /\ KeepsAccounts(i)

KnowledgeInv ==
  /\ RowsTypeOK /\ StoredInv /\ WholeInv /\ ChunksAreTheDocument
  /\ \A i \in Ingests : RunInv(i)

-----------------------------------------------------------------------------
\* Rows inserted together are the same rows, or have none in common.
LEMMA WholesMeet ==
  ASSUME NEW s, NEW X, NEW Y, Whole(X, s), Whole(Y, s)
  PROVE  X \cap Y = {} \/ X = Y
<1>1. PICK t \in Text, r \in Runs : X = ChunksOf(s, t, r)
  BY DEF Whole
<1>2. PICK u \in Text, q \in Runs : Y = ChunksOf(s, u, q)
  BY DEF Whole
<1>3. ASSUME NEW c \in X \cap Y PROVE t = u /\ r = q
  BY <1>1, <1>2, <1>3 DEF ChunksOf
<1> QED BY <1>1, <1>2, <1>3

\* No rows are whole, and others have a first one.
LEMMA WholeRows ==
  ASSUME NEW s, NEW X, Whole(X, s)
  PROVE  /\ Whole({}, s)
         /\ \A c \in X : c.source = s
         /\ X = {} \/ \E c \in X : c.source = s /\ c.index = 0
<1>1. Whole({}, s)
  BY DEF Whole, Text, Runs, ChunksOf, Indexes
<1>2. PICK t \in Text, r \in Runs : X = ChunksOf(s, t, r)
  BY DEF Whole
<1>3. X = {} \/ [source |-> s, index |-> 0, text |-> t, by |-> r] \in X
  BY <1>2 DEF ChunksOf, Indexes
<1>4. \A c \in X : c.source = s
  BY <1>2 DEF ChunksOf
<1>5. X = {} \/ \E c \in X : c.source = s /\ c.index = 0
  BY <1>3
<1> QED BY <1>1, <1>4, <1>5

\* A new text is a chunk at least, or blank.
LEMMA IndexesFromZero == \A t : Indexes(t) = {} \/ 0 \in Indexes(t)
BY DEF Indexes

\* What a step of a run may change when nothing is committed: its own record. The
\* other runs keep what they had.
LEMMA OwnStep ==
  ASSUME KnowledgeInv, NEW i \in Ingests, NEW run \in Run, Active(i), run.met = ingest[i].met,
         Advance(i, run), UNCHANGED <<document, chunks>>,
         RunInv(i)'
  PROVE  KnowledgeInv'
<1>1. /\ ingest \in [Ingests -> Run] /\ ingest' = [ingest EXCEPT ![i] = run]
      /\ ingest'[i] = run /\ \A j \in Ingests \ {i} : ingest'[j] = ingest[j]
      /\ UNCHANGED <<source, had, document, chunks>>
  BY DEF KnowledgeInv, RowsTypeOK, Advance
<1>2. RowsTypeOK'
  BY <1>1 DEF KnowledgeInv, RowsTypeOK
<1>3. StoredInv' /\ WholeInv'
  <2>1. \A j \in Ingests : ingest[j].pc = "committed" => ingest'[j] = ingest[j]
    BY <1>1 DEF Active
  <2> QED BY <1>1, <2>1 DEF KnowledgeInv, StoredInv, Was, WholeInv, Of, Whole
<1>4. ChunksAreTheDocument'
  <2>1. \A j \in Ingests : ingest'[j].met = ingest[j].met
    BY <1>1
  <2> QED BY <1>1, <2>1 DEF KnowledgeInv, ChunksAreTheDocument, LeftBehind
<1>5. ASSUME NEW j \in Ingests \ {i} PROVE RunInv(j)'
  <2> ingest'[j] = ingest[j] /\ had' = had /\ RunInv(j)
    BY <1>1 DEF KnowledgeInv
  <2>1. /\ WritesWhatWas(j)' /\ DeletesWhole(j)' /\ TakesOnce(j)' /\ WritesInTurn(j)'
    <3>1. WritesWhatWas(j)' /\ DeletesWhole(j)'
      BY DEF RunInv, WritesWhatWas, Was, DeletesWhole
    <3>2. TakesOnce(j)'
      BY DEF RunInv, TakesOnce, Claimed, Looking, Writing
    <3>3. Meant(j)' = Meant(j) /\ NewText(j)' = NewText(j)
      BY DEF Meant, NewText
    <3>4. WritesInTurn(j)'
      BY <3>3 DEF RunInv, WritesInTurn, Claimed, Writing, Active
    <3> QED BY <3>1, <3>2, <3>4
  <2>2. LocksOut(j)'
    <3>1. Held(ingest[j].docs)' = Held(ingest[j].docs)
      BY <1>1 DEF Held
    <3>2. Held(ingest[i].docs)' \cap Held(ingest[j].docs)' = {}
      BY DEF RunInv, LocksOut
    <3> QED BY <1>1, <3>1, <3>2 DEF KnowledgeInv, RunInv, LocksOut, Of
  <2>3. Alone(j)'
    BY <1>1 DEF KnowledgeInv, RunInv, Alone, Active
  <2>4. KeepsAccounts(j)'
    BY <1>1 DEF RunInv, KeepsAccounts, Active, Updating
  <2> QED BY <2>1, <2>2, <2>3, <2>4 DEF RunInv
<1> QED BY <1>2, <1>3, <1>4, <1>5 DEF KnowledgeInv

\* A transaction that is rolled back leaves nothing.
LEMMA RollBackKeeps ==
  ASSUME KnowledgeInv, NEW i \in Ingests, Active(i), RollBack(i),
         UNCHANGED <<document, chunks>>
  PROVE  KnowledgeInv'
<1> DEFINE run == Closed(i, "failed")
<1>1. /\ ingest[i] \in Run /\ RunInv(i) /\ ingest \in [Ingests -> Run]
      /\ ingest'[i] = run /\ \A j \in Ingests \ {i} : ingest'[j] = ingest[j]
      /\ UNCHANGED <<source, had, document, chunks>>
  BY DEF KnowledgeInv, RowsTypeOK, RollBack, Advance
<1>2. NoDocuments \in [Sources -> MaybeDocument] /\ Held(NoDocuments) = {}
  BY DEF NoDocuments, MaybeDocument, Held
<1>3. /\ run \in Run /\ run.met = ingest[i].met /\ run.pc = "failed"
      /\ run.docs = NoDocuments /\ run.pending = NoDocuments /\ run.gone = {} /\ run.rows = {}
      /\ run.read = ingest[i].read /\ run.todo = ingest[i].todo
      /\ run.kind = ingest[i].kind /\ run.keeps = {}
  BY <1>1, <1>2 DEF Closed, Run
<1> HIDE DEF run
<1>4. ~Active(i)' /\ ~Looking(i)' /\ ~Writing(i)' /\ Claimed(i)' = {}
  BY <1>1, <1>2, <1>3 DEF Active, Looking, Writing, Claimed
<1>5. WritesWhatWas(i)' /\ TakesOnce(i)' /\ WritesInTurn(i)' /\ LocksOut(i)' /\ Alone(i)'
  BY <1>1, <1>2, <1>3, <1>4 DEF RunInv, WritesWhatWas, Was, TakesOnce, WritesInTurn, LocksOut, Alone
<1>6. DeletesWhole(i)'
  <2>1. \A s \in Sources : Whole({}, s)
    BY WholeRows DEF KnowledgeInv, WholeInv
  <2> QED BY <1>1, <1>3, <2>1 DEF DeletesWhole, Of
<1>7. KeepsAccounts(i)'
  BY <1>1, <1>2, <1>3, <1>4 DEF KeepsAccounts, Updating
<1> QED BY <1>1, <1>3, <1>5, <1>6, <1>7, OwnStep DEF RunInv, RollBack, run

\* Reading what the contracts are: no contract has been taken yet.
LEMMA ReadContractsKeeps ==
  ASSUME KnowledgeInv, NEW i \in Ingests, ReadContracts(i)
  PROVE  KnowledgeInv'
<1> DEFINE run == [ingest[i] EXCEPT !.todo = Contracts, !.read = Rows(Contracts), !.kind = "end"]
<1>1. /\ ingest[i] \in Run /\ RunInv(i) /\ ingest \in [Ingests -> Run]
      /\ ingest'[i] = run /\ \A j \in Ingests \ {i} : ingest'[j] = ingest[j]
      /\ UNCHANGED <<source, had, document, chunks>>
  BY DEF KnowledgeInv, RowsTypeOK, ReadContracts, Advance
<1>2. /\ Rows(Contracts) \in [Sources -> MaybeDocument]
      /\ Contracts \subseteq Held(Rows(Contracts))
      /\ \A s \in Held(Rows(Contracts)) : Rows(Contracts)[s] = source[s]
  <2>1. \A s \in Sources : source[s] \in Documents /\ source[s] # NoDocument
    BY DEF KnowledgeInv, RowsTypeOK, Documents, NoDocument, Text
  <2> QED BY <2>1 DEF Rows, Sources, MaybeDocument, Held
<1>3. /\ run \in Run /\ run.met = ingest[i].met /\ run.pc = "next" /\ ingest[i].pc = "next"
      /\ run.docs = ingest[i].docs /\ run.pending = ingest[i].pending
      /\ run.gone = ingest[i].gone /\ run.rows = ingest[i].rows
      /\ run.read = Rows(Contracts) /\ run.todo = Contracts
      /\ run.kind = "end" /\ ingest[i].kind = "contracts"
      /\ run.current = ingest[i].current /\ run.keeps = ingest[i].keeps
  BY <1>1, <1>2 DEF ReadContracts, Run, Sources
<1> HIDE DEF run
<1>4. /\ Active(i)' /\ Active(i) /\ ~Looking(i)' /\ ~Writing(i)' /\ ~Looking(i) /\ ~Writing(i)
      /\ Claimed(i)' = Claimed(i) /\ Meant(i)' = Meant(i)
  BY <1>1, <1>2, <1>3 DEF Active, Looking, Writing, Claimed, Meant
<1>5. WritesWhatWas(i)'
  BY <1>1, <1>2, <1>3 DEF RunInv, WritesWhatWas, Was, KnowledgeInv, StoredInv
<1>6. TakesOnce(i)'
  BY <1>1, <1>2, <1>3, <1>4, KnowledgeAssumption DEF RunInv, TakesOnce
<1>7. WritesInTurn(i)'
  BY <1>1, <1>3, <1>4 DEF RunInv, WritesInTurn
<1>8. DeletesWhole(i)' /\ LocksOut(i)'
  BY <1>1, <1>3 DEF RunInv, DeletesWhole, LocksOut
<1>9. Alone(i)'
  BY <1>1, <1>3, <1>4 DEF RunInv, Alone, Active
<1>10. KeepsAccounts(i)'
  BY <1>1, <1>3, <1>4, KnowledgeAssumption DEF RunInv, KeepsAccounts, Updating
<1> QED BY <1>1, <1>3, <1>4, <1>5, <1>6, <1>7, <1>8, <1>9, <1>10, OwnStep
        DEF RunInv, ReadContracts, run

\* Looking at the next source
LEMMA LookKeeps ==
  ASSUME KnowledgeInv, NEW i \in Ingests, Look(i)
  PROVE  KnowledgeInv'
<1>1. PICK s \in ingest[i].todo :
        Advance(i, [ingest[i] EXCEPT !.todo = ingest[i].todo \ {s}, !.current = s,
                      !.keeps = Keeping(i, s),
                      !.pc = IF document[s].text = ingest[i].read[s].text THEN "next"
                             ELSE IF document[s] = NoDocument THEN "insert" ELSE "delete"])
  BY DEF Look
<1> DEFINE run == [ingest[i] EXCEPT !.todo = ingest[i].todo \ {s}, !.current = s,
                      !.keeps = Keeping(i, s),
                      !.pc = IF document[s].text = ingest[i].read[s].text THEN "next"
                             ELSE IF document[s] = NoDocument THEN "insert" ELSE "delete"]
<1>2. /\ ingest[i] \in Run /\ RunInv(i) /\ ingest \in [Ingests -> Run]
      /\ ingest'[i] = run /\ \A j \in Ingests \ {i} : ingest'[j] = ingest[j]
      /\ UNCHANGED <<source, had, document, chunks>>
  BY <1>1 DEF KnowledgeInv, RowsTypeOK, Look, Advance
<1>3. /\ run \in Run /\ run.met = ingest[i].met /\ ingest[i].pc = "next"
      /\ run.pc \in {"next", "insert", "delete"}
      /\ run.pc # "next" => document[s].text # ingest[i].read[s].text
      /\ run.docs = ingest[i].docs /\ run.pending = ingest[i].pending
      /\ run.gone = ingest[i].gone /\ run.rows = ingest[i].rows
      /\ run.read = ingest[i].read /\ run.todo = ingest[i].todo \ {s}
      /\ run.kind = ingest[i].kind /\ run.current = s /\ run.keeps = Keeping(i, s)
      /\ run.pc = "delete" => document[s] # NoDocument
  <2>1. s \in Sources /\ Keeping(i, s) \subseteq Sources
    BY <1>1, <1>2 DEF Run, Keeping
  <2> QED BY <1>1, <1>2, <2>1 DEF Look, Run
<1> HIDE DEF run
<1>4. /\ Active(i)' /\ Active(i) /\ ~Writing(i)' /\ ~Looking(i) /\ ~Writing(i)
      /\ Claimed(i)' = Claimed(i) /\ Meant(i)' = Meant(i)
  BY <1>2, <1>3 DEF Active, Looking, Writing, Claimed, Meant
<1>5. WritesWhatWas(i)'
  BY <1>2, <1>3 DEF RunInv, WritesWhatWas, Was
<1>6. TakesOnce(i)'
  BY <1>2, <1>3, <1>4 DEF RunInv, TakesOnce, WritesInTurn
<1>7. WritesInTurn(i)'
  BY <1>2, <1>3, <1>4 DEF RunInv, WritesInTurn
<1>8. DeletesWhole(i)' /\ LocksOut(i)'
  BY <1>2, <1>3 DEF RunInv, DeletesWhole, LocksOut
<1>9. Alone(i)'
  BY <1>2, <1>3, <1>4 DEF RunInv, Alone, Active, Looking, NewText
<1>10. KeepsAccounts(i)'
  BY <1>1, <1>2, <1>3, <1>4 DEF RunInv, TakesOnce, KeepsAccounts, Updating, Keeping, Claimed
<1> QED BY <1>1, <1>2, <1>3, <1>4, <1>5, <1>6, <1>7, <1>8, <1>9, <1>10, OwnStep
        DEF RunInv, Look, run

\* What is flushed is what was claimed, with the texts that were meant.
LEMMA FlushedClaims ==
  ASSUME KnowledgeInv, NEW i \in Ingests
  PROVE  /\ Flushed(i) \in [Sources -> MaybeDocument]
         /\ Held(Flushed(i)) = Claimed(i)
         /\ \A s \in Sources : Flushed(i)[s].text = Meant(i)[s].text
<1>1. /\ ingest[i].pending \in [Sources -> MaybeDocument]
      /\ ingest[i].docs \in [Sources -> MaybeDocument]
      /\ document \in [Sources -> MaybeDocument]
  BY DEF KnowledgeInv, RowsTypeOK, Run
<1>2. ASSUME NEW s \in Sources
      PROVE  /\ Updated(i)[s] \in MaybeDocument
             /\ Updated(i)[s].text = ingest[i].pending[s].text
             /\ Updated(i)[s] # NoDocument <=> ingest[i].pending[s] # NoDocument
  <2>1. CASE s \in ingest[i].keeps \cap Held(ingest[i].pending)
    <3>1. /\ Updated(i)[s] = [ingest[i].pending[s] EXCEPT !.owner = document[s].owner]
          /\ ingest[i].pending[s] \in Documents /\ ingest[i].pending[s].text \in Text
          /\ document[s].owner \in Owners \cup {Everyone}
      BY <1>1, <2>1 DEF Updated, Held, MaybeDocument, Documents, NoDocument
    <3>2. Updated(i)[s] \in Documents /\ Updated(i)[s].text = ingest[i].pending[s].text
      BY <3>1 DEF Documents
    <3> QED BY <2>1, <3>1, <3>2 DEF MaybeDocument, Held, NoDocument, Text
  <2>2. CASE s \notin ingest[i].keeps \cap Held(ingest[i].pending)
    BY <1>1, <2>2 DEF Updated
  <2> QED BY <2>1, <2>2
<1>3. Held(Updated(i)) = Held(ingest[i].pending)
  BY <1>2 DEF Held
<1>4. \A s \in Sources :
        Flushed(i)[s] = IF s \in Held(ingest[i].pending) THEN Updated(i)[s] ELSE ingest[i].docs[s]
  BY <1>3 DEF Flushed, Over
<1>5. Flushed(i) \in [Sources -> MaybeDocument]
  BY <1>1, <1>2, <1>4 DEF Flushed, Over
<1> QED BY <1>2, <1>4, <1>5 DEF Held, Claimed, Meant, Over

\* What is flushed has been, and is what was meant unless runs met.
LEMMA FlushedWas ==
  ASSUME KnowledgeInv, NEW i \in Ingests, Active(i), NEW s \in Claimed(i)
  PROVE  /\ Was(Flushed(i)[s], s)
         /\ ~ingest[i].met => Flushed(i)[s] \in had[s]
<1>1. /\ RunInv(i) /\ s \in Sources /\ had \in [Sources -> SUBSET Documents]
      /\ ingest[i].pending \in [Sources -> MaybeDocument]
      /\ document \in [Sources -> MaybeDocument]
  BY DEF KnowledgeInv, RowsTypeOK, Run, Claimed, Held
<1>2. Held(Updated(i)) = Held(ingest[i].pending)
  <2>1. ASSUME NEW q \in Sources, q \in ingest[i].keeps \cap Held(ingest[i].pending)
        PROVE  Updated(i)[q] # NoDocument
    <3>1. /\ Updated(i)[q] = [ingest[i].pending[q] EXCEPT !.owner = document[q].owner]
          /\ ingest[i].pending[q] \in Documents
      BY <1>1, <2>1 DEF Updated, Held, MaybeDocument
    <3> QED BY <3>1 DEF Documents, NoDocument, Text
  <2>2. \A q \in Sources : q \notin ingest[i].keeps \cap Held(ingest[i].pending) =>
          Updated(i)[q] = ingest[i].pending[q]
    BY DEF Updated
  <2> QED BY <2>1, <2>2 DEF Held
<1>3. CASE s \in Held(ingest[i].docs) \ Held(ingest[i].pending)
  <2>1. Flushed(i)[s] = ingest[i].docs[s]
    BY <1>1, <1>2, <1>3 DEF Flushed, Over
  <2> QED BY <1>1, <1>3, <2>1 DEF RunInv, WritesWhatWas
<1>4. CASE s \in Held(ingest[i].pending)
  <2>1. Flushed(i)[s] = Updated(i)[s] /\ ingest[i].pending[s] \in had[s]
    BY <1>1, <1>2, <1>4 DEF Flushed, Over, RunInv, WritesWhatWas
  <2>2. CASE s \notin ingest[i].keeps
    <3>1. Flushed(i)[s] = ingest[i].pending[s]
      BY <1>1, <2>1, <2>2 DEF Updated
    <3> QED BY <2>1, <3>1 DEF Was
  <2>3. CASE s \in ingest[i].keeps
    <3>1. Flushed(i)[s] = [ingest[i].pending[s] EXCEPT !.owner = document[s].owner]
      BY <1>1, <1>4, <2>1, <2>3 DEF Updated
    <3>2. ingest[i].pending[s] \in Documents
      BY <1>1, <2>1
    <3>3. document[s] # NoDocument /\ Was(document[s], s)
      BY <1>1, <1>4 DEF RunInv, KeepsAccounts, KnowledgeInv, StoredInv
    <3>4. Was(Flushed(i)[s], s)
      BY <2>1, <3>1, <3>2, <3>3 DEF Was, Documents
    <3>5. ASSUME ~ingest[i].met PROVE Flushed(i)[s] = ingest[i].pending[s]
      <4>1. document[s].owner = ingest[i].pending[s].owner
        BY <1>1, <1>4, <2>3, <3>5 DEF RunInv, KeepsAccounts
      <4> QED BY <3>1, <3>2, <4>1 DEF Documents
    <3> QED BY <2>1, <3>4, <3>5
  <2> QED BY <2>2, <2>3
<1> QED BY <1>3, <1>4 DEF Claimed

\* Nothing is held of no documents.
LEMMA NothingHeld ==
  /\ NoDocuments \in [Sources -> MaybeDocument] /\ Held(NoDocuments) = {}
  /\ \A s \in Sources : NoDocuments[s] = NoDocument
BY DEF NoDocuments, MaybeDocument, Held

\* A text that has no chunks has none, and a stored one is a text.
LEMMA TextOf == \A d \in MaybeDocument : d # NoDocument => d \in Documents /\ d.text \in Text
BY DEF MaybeDocument, Documents

\* A new document: nobody has it, and nothing of it was there.
LEMMA InsertDocumentKeeps ==
  ASSUME KnowledgeInv, NEW i \in Ingests, InsertDocument(i)
  PROVE  KnowledgeInv'
<1> DEFINE s == ingest[i].current
           run == [ingest[i] EXCEPT !.pc = AfterText(i), !.pending = NoDocuments,
                                    !.docs = [Flushed(i) EXCEPT ![s] = ingest[i].read[s]]]
<1>1. /\ ingest[i] \in Run /\ RunInv(i) /\ ingest \in [Ingests -> Run]
      /\ Active(i) /\ Looking(i) /\ ~Writing(i) /\ UNCHANGED <<document, chunks>>
  BY DEF KnowledgeInv, RowsTypeOK, InsertDocument, Active, Looking, Writing
<1>2. CASE document[s] # NoDocument
  BY <1>1, <1>2, RollBackKeeps DEF InsertDocument
<1>3. CASE document[s] = NoDocument
  <2>1. /\ Advance(i, run) /\ ingest'[i] = run
        /\ \A j \in Ingests \ {i} : ingest'[j] = ingest[j]
        /\ UNCHANGED <<source, had, document, chunks>>
    BY <1>1, <1>3 DEF InsertDocument, Advance
  <2>2. /\ s \in Sources /\ s \notin Claimed(i) /\ s \in Held(ingest[i].read) /\ s \notin ingest[i].todo
        /\ ingest[i].read[s] \in Documents /\ ingest[i].read[s] # NoDocument
        /\ ingest[i].read[s].text \in Text
    BY <1>1, TextOf DEF RunInv, TakesOnce, Run, Held
  <2>3. /\ run.docs \in [Sources -> MaybeDocument] /\ Held(run.docs) = Claimed(i) \cup {s}
        /\ run.docs[s] = ingest[i].read[s]
        /\ \A q \in Sources \ {s} : run.docs[q] = Flushed(i)[q]
    <3>1. run.docs = [Flushed(i) EXCEPT ![s] = ingest[i].read[s]]
      BY <1>1 DEF Run
    <3> HIDE DEF run
    <3> QED BY <1>1, <2>2, <3>1, FlushedClaims DEF Held, MaybeDocument
  <2>4. /\ run \in Run /\ run.met = ingest[i].met /\ run.pc \in {"next", "embed"}
        /\ run.pc = "embed" <=> Indexes(ingest[i].read[s].text) # {}
        /\ run.pending = NoDocuments
        /\ run.gone = ingest[i].gone /\ run.rows = ingest[i].rows
        /\ run.read = ingest[i].read /\ run.todo = ingest[i].todo
        /\ run.kind = ingest[i].kind /\ run.current = s /\ run.keeps = ingest[i].keeps
    BY <1>1, <2>3, NothingHeld DEF Run, AfterText, NewText
  <2> HIDE DEF run
  <2>5. /\ Active(i)' /\ ~Looking(i)' /\ (Writing(i)' <=> run.pc = "embed")
        /\ Claimed(i)' = Claimed(i) \cup {s} /\ NewText(i)' = ingest[i].read[s].text
    BY <2>1, <2>3, <2>4, NothingHeld DEF Active, Looking, Writing, Claimed, NewText
  <2>6. \A q \in Sources : Meant(i)'[q] = run.docs[q]
    BY <2>1, <2>3, <2>4, NothingHeld DEF Meant, Over
  <2> \A q \in Claimed(i) : run.docs[q].text = Meant(i)[q].text
    BY <2>2, <2>3, FlushedClaims DEF Claimed, Held
  <2>7. WritesWhatWas(i)'
    <3>1. \A q \in Claimed(i) : /\ Was(Flushed(i)[q], q)
                                /\ ~ingest[i].met => Flushed(i)[q] \in had[q]
      BY <1>1, FlushedWas
    <3>2. Held(ingest'[i].pending) = {} /\ Held(ingest'[i].docs) = Claimed(i) \cup {s}
      BY <2>1, <2>3, <2>4, NothingHeld
    <3>3. /\ Was(ingest[i].read[s], s) /\ ingest[i].read[s] \in had[s]
      BY <1>1, <2>2 DEF RunInv, WritesWhatWas, Was
    <3>4. ASSUME NEW q \in Claimed(i) \cup {s}
          PROVE  /\ Was(run.docs[q], q)
                 /\ ~ingest[i].met => run.docs[q] \in had[q]
      <4>1. q \in Claimed(i) \ {s} => run.docs[q] = Flushed(i)[q]
        BY <2>3 DEF Claimed, Held
      <4>2. q \in Claimed(i) \ {s} \/ q = s
        BY <3>4
      <4> QED BY <2>3, <3>1, <3>3, <4>1, <4>2
    <3> QED BY <1>1, <2>1, <2>2, <2>3, <2>4, <3>2, <3>4 DEF RunInv, WritesWhatWas, Was
  <2>8. TakesOnce(i)'
    BY <1>1, <2>1, <2>2, <2>3, <2>4, <2>5, NothingHeld DEF RunInv, TakesOnce
  <2>9. WritesInTurn(i)'
    <3>1. Of(ingest[i].rows, s) = {}
      BY <1>1, <2>2 DEF RunInv, WritesInTurn, Of, Claimed
    <3>2. ASSUME NEW q \in Claimed(i)
          PROVE  Of(ingest'[i].rows, q) = ChunksOf(q, Meant(i)'[q].text, i)
      BY <1>1, <2>1, <2>2, <2>3, <2>4, <2>6 DEF RunInv, WritesInTurn, Claimed, Held
    <3>3. \/ Of(ingest'[i].rows, s) = ChunksOf(s, Meant(i)'[s].text, i)
          \/ Writing(i)'
      BY <2>1, <2>2, <2>3, <2>4, <2>5, <2>6, <3>1 DEF ChunksOf
    <3>4. Writing(i)' => 0 \in Indexes(NewText(i)')
      BY <2>4, <2>5, IndexesFromZero
    <3>5. /\ \A c \in ingest'[i].gone : c.source \in Claimed(i)'
          /\ \A c \in ingest'[i].rows : c.source \in Held(ingest'[i].docs)
      BY <1>1, <2>1, <2>3, <2>4, <2>5 DEF RunInv, WritesInTurn, Claimed
    <3> QED BY <2>1, <2>2, <2>3, <2>4, <2>5, <2>6, <3>1, <3>2, <3>3, <3>4, <3>5 DEF WritesInTurn
  <2>10. DeletesWhole(i)'
    BY <1>1, <2>1, <2>4 DEF RunInv, DeletesWhole
  <2>11. LocksOut(i)'
    <3>1. \A j \in Ingests \ {i} : (Claimed(i) \cup {s}) \cap Held(ingest[j].docs) = {}
      BY <1>1 DEF InsertDocument, Unblocked, WaitsFor, DocumentsLockedBy, RunInv, LocksOut, Claimed
    <3> QED BY <1>1, <2>1, <2>3, <2>4, <3>1 DEF RunInv, LocksOut
  <2>12. Alone(i)'
    <3>1. Of(chunks, s) = {}
      BY <1>3, <2>2 DEF KnowledgeInv, WholeInv
    <3>2. document[s].text # ingest[i].read[s].text
      BY <1>3, <2>2 DEF NoDocument, Text
    <3> QED BY <1>1, <2>1, <2>2, <2>3, <2>4, <2>5, <2>6, <3>1, <3>2 DEF RunInv, Alone, Active, Claimed, Held
  <2>13. KeepsAccounts(i)'
    BY <1>1, <2>1, <2>4, <2>5, NothingHeld DEF RunInv, KeepsAccounts, Updating
  <2> QED BY <1>1, <2>1, <2>4, <2>7, <2>8, <2>9, <2>10, <2>11, <2>12, <2>13, OwnStep DEF RunInv
<1> QED BY <1>2, <1>3

\* The snapshot of a DELETE has the rows of one insert.
LEMMA BeginDeleteKeeps ==
  ASSUME KnowledgeInv, NEW i \in Ingests, BeginDelete(i)
  PROVE  KnowledgeInv'
<1> DEFINE s == ingest[i].current
           run == [ingest[i] EXCEPT !.pc = "deleting",
                                    !.snapshot = {c \in chunks : c.source = s}]
<1>1. /\ ingest[i] \in Run /\ RunInv(i) /\ ingest \in [Ingests -> Run]
      /\ ingest'[i] = run /\ \A j \in Ingests \ {i} : ingest'[j] = ingest[j]
      /\ UNCHANGED <<source, had, document, chunks>> /\ chunks \subseteq Chunk
  BY DEF KnowledgeInv, RowsTypeOK, BeginDelete, Advance
<1>2. /\ run \in Run /\ run.met = ingest[i].met /\ ingest[i].pc = "delete" /\ run.pc = "deleting"
      /\ run.docs = ingest[i].docs /\ run.pending = ingest[i].pending
      /\ run.gone = ingest[i].gone /\ run.rows = ingest[i].rows
      /\ run.read = ingest[i].read /\ run.todo = ingest[i].todo
      /\ run.keeps = ingest[i].keeps /\ run.kind = ingest[i].kind /\ run.current = s /\ run.snapshot = Of(chunks, s)
  BY <1>1 DEF BeginDelete, Run, Of
<1> HIDE DEF run
<1>3. /\ Active(i)' /\ Active(i) /\ Looking(i)' /\ Looking(i) /\ ~Writing(i)' /\ ~Writing(i)
      /\ Claimed(i)' = Claimed(i) /\ Meant(i)' = Meant(i) /\ NewText(i)' = NewText(i)
  BY <1>1, <1>2 DEF Active, Looking, Writing, Claimed, Meant, NewText
<1>4. WritesWhatWas(i)' /\ TakesOnce(i)' /\ LocksOut(i)'
  BY <1>1, <1>2, <1>3 DEF RunInv, WritesWhatWas, Was, TakesOnce, LocksOut
<1>5. WritesInTurn(i)'
  BY <1>1, <1>2, <1>3 DEF RunInv, WritesInTurn, Of
<1>6. DeletesWhole(i)'
  <2>1. ASSUME NEW q \in Sources PROVE Whole(Of(Of(chunks, s), q), q)
    <3>1. CASE q = s
      BY <3>1 DEF KnowledgeInv, WholeInv, Of
    <3>2. CASE q # s
      <4>1. Of(Of(chunks, s), q) = {}
        BY <3>2 DEF Of
      <4> QED BY <4>1, WholeRows DEF KnowledgeInv, WholeInv
    <3> QED BY <3>1, <3>2
  <2> QED BY <1>1, <1>2, <2>1 DEF RunInv, DeletesWhole
<1>7. Alone(i)'
  BY <1>1, <1>2, <1>3 DEF RunInv, Alone, Active
<1>8. KeepsAccounts(i)'
  BY <1>1, <1>2, <1>3 DEF RunInv, KeepsAccounts, Updating
<1> QED BY <1>1, <1>2, <1>3, <1>4, <1>5, <1>6, <1>7, <1>8, OwnStep
        DEF RunInv, BeginDelete, run, Of

\* Embedding, and the end of all sources, move the run on.
LEMMA MoveOnKeeps ==
  ASSUME KnowledgeInv, NEW i \in Ingests, Embed(i) \/ Finish(i)
  PROVE  KnowledgeInv'
<1> DEFINE pc == IF Embed(i) THEN "flush" ELSE "committing"
           run == [ingest[i] EXCEPT !.pc = pc]
<1>1. /\ ingest[i] \in Run /\ RunInv(i) /\ ingest \in [Ingests -> Run] /\ Advance(i, run)
      /\ ingest'[i] = run /\ \A j \in Ingests \ {i} : ingest'[j] = ingest[j]
      /\ UNCHANGED <<source, had, document, chunks>>
  BY DEF KnowledgeInv, RowsTypeOK, Embed, Finish, Advance
<1>2. /\ run \in Run /\ run.met = ingest[i].met
      /\ \/ ingest[i].pc = "embed" /\ run.pc = "flush"
         \/ ingest[i].pc = "next" /\ run.pc = "committing"
      /\ run.docs = ingest[i].docs /\ run.pending = ingest[i].pending
      /\ run.gone = ingest[i].gone /\ run.rows = ingest[i].rows
      /\ run.read = ingest[i].read /\ run.todo = ingest[i].todo
      /\ run.keeps = ingest[i].keeps /\ run.kind = ingest[i].kind /\ run.current = ingest[i].current
  BY <1>1 DEF Embed, Finish, Run
<1> HIDE DEF run, pc
<1>3. /\ Active(i)' /\ Active(i) /\ ~Looking(i)' /\ ~Looking(i) /\ (Writing(i)' <=> Writing(i))
      /\ Claimed(i)' = Claimed(i) /\ Meant(i)' = Meant(i) /\ NewText(i)' = NewText(i)
  BY <1>1, <1>2 DEF Active, Looking, Writing, Claimed, Meant, NewText
<1>4. WritesWhatWas(i)' /\ TakesOnce(i)' /\ LocksOut(i)' /\ DeletesWhole(i)'
  BY <1>1, <1>2, <1>3 DEF RunInv, WritesWhatWas, Was, TakesOnce, LocksOut, DeletesWhole
<1>5. WritesInTurn(i)'
  BY <1>1, <1>2, <1>3 DEF RunInv, WritesInTurn, Of
<1>6. Alone(i)'
  BY <1>1, <1>2, <1>3 DEF RunInv, Alone, Active
<1>7. KeepsAccounts(i)'
  BY <1>1, <1>2, <1>3 DEF RunInv, KeepsAccounts, Updating
<1> QED BY <1>1, <1>2, <1>3, <1>4, <1>5, <1>6, <1>7, OwnStep DEF RunInv

\* The rows of a snapshot are deleted together, or are gone already.
LEMMA DeleteChunksKeeps ==
  ASSUME KnowledgeInv, NEW i \in Ingests, DeleteChunks(i)
  PROVE  KnowledgeInv'
<1> DEFINE s == ingest[i].current
           run == [ingest[i] EXCEPT !.pc = AfterText(i),
                                    !.pending = [ingest[i].pending EXCEPT ![s] = ingest[i].read[s]],
                                    !.gone = ingest[i].gone \cup (ingest[i].snapshot \cap chunks)]
<1>1. /\ ingest[i] \in Run /\ RunInv(i) /\ ingest \in [Ingests -> Run]
      /\ Advance(i, run) /\ ingest'[i] = run
      /\ \A j \in Ingests \ {i} : ingest'[j] = ingest[j]
      /\ UNCHANGED <<source, had, document, chunks>> /\ chunks \subseteq Chunk
      /\ ingest[i].pc = "deleting"
      /\ Active(i) /\ Looking(i) /\ ~Writing(i)
  BY DEF KnowledgeInv, RowsTypeOK, DeleteChunks, Advance, Active, Looking, Writing
<1>2. /\ s \in Sources /\ s \notin Claimed(i) /\ s \in Held(ingest[i].read) /\ s \notin ingest[i].todo
      /\ ingest[i].read[s] \in Documents /\ ingest[i].read[s] # NoDocument
      /\ ingest[i].read[s].text \in Text
  BY <1>1, TextOf DEF RunInv, TakesOnce, Run, Held
<1>3. /\ run.pending \in [Sources -> MaybeDocument]
      /\ Held(run.pending) = Held(ingest[i].pending) \cup {s}
      /\ run.pending[s] = ingest[i].read[s]
      /\ \A q \in Sources \ {s} : run.pending[q] = ingest[i].pending[q]
  <2>1. run.pending = [ingest[i].pending EXCEPT ![s] = ingest[i].read[s]]
    BY <1>1 DEF Run
  <2>2. ingest[i].pending \in [Sources -> MaybeDocument]
    BY <1>1 DEF Run
  <2> HIDE DEF run
  <2> QED BY <1>2, <2>1, <2>2 DEF Held, MaybeDocument
<1>4. /\ run \in Run /\ run.met = ingest[i].met /\ run.pc \in {"next", "embed"}
      /\ run.pc = "embed" <=> Indexes(ingest[i].read[s].text) # {}
      /\ run.docs = ingest[i].docs
      /\ run.gone = ingest[i].gone \cup (ingest[i].snapshot \cap chunks)
      /\ run.rows = ingest[i].rows
      /\ run.read = ingest[i].read /\ run.todo = ingest[i].todo
      /\ run.keeps = ingest[i].keeps /\ run.kind = ingest[i].kind /\ run.current = s
  BY <1>1, <1>3 DEF Run, AfterText, NewText
<1> HIDE DEF run
<1>5. /\ Active(i)' /\ ~Looking(i)' /\ (Writing(i)' <=> run.pc = "embed")
      /\ Claimed(i)' = Claimed(i) \cup {s} /\ NewText(i)' = ingest[i].read[s].text
      /\ NewText(i) = ingest[i].read[s].text
  BY <1>1, <1>3, <1>4 DEF Active, Looking, Writing, Claimed, NewText
<1>6. Meant(i)'[s] = ingest[i].read[s] /\ \A q \in Sources \ {s} : Meant(i)'[q] = Meant(i)[q]
  <2>1. /\ Meant(i) = Over(ingest[i].pending, ingest[i].docs)
        /\ Meant(i)' = Over(run.pending, ingest[i].docs)
    BY <1>1, <1>4 DEF Meant, Over, Held
  <2> QED BY <1>2, <1>3, <2>1 DEF Over
<1>7. /\ Of(ingest[i].gone, s) = {} /\ Of(ingest[i].rows, s) = {}
      /\ \A c \in ingest[i].snapshot : c.source = s
  BY <1>1, <1>2 DEF RunInv, WritesInTurn, Of, Claimed
<1>8. WritesWhatWas(i)'
  <2>1. /\ \A q \in Held(run.pending) : run.pending[q] \in had[q]
        /\ \A q \in Sources : q \in Held(ingest[i].docs) =>
             Was(ingest[i].docs[q], q) /\ (~ingest[i].met => ingest[i].docs[q] \in had[q])
        /\ \A q \in Sources : q \in Held(ingest[i].read) => ingest[i].read[q] \in had[q]
    BY <1>1, <1>2, <1>3 DEF RunInv, WritesWhatWas, Held
  <2> QED BY <1>1, <1>4, <2>1 DEF WritesWhatWas, Was
<1>9. TakesOnce(i)'
  <2>1. Held(ingest[i].docs) \cap Held(run.pending) = {}
    BY <1>1, <1>2, <1>3 DEF RunInv, TakesOnce, Claimed
  <2> QED BY <1>1, <1>2, <1>3, <1>4, <1>5, <2>1 DEF RunInv, TakesOnce
<1>10. WritesInTurn(i)'
  <2>1. ASSUME NEW q \in Claimed(i)
        PROVE  Of(ingest'[i].rows, q) = ChunksOf(q, Meant(i)'[q].text, i)
    BY <1>1, <1>2, <1>4, <1>6, <2>1 DEF RunInv, WritesInTurn, Claimed, Held
  <2>2. \/ Of(ingest'[i].rows, s) = ChunksOf(s, Meant(i)'[s].text, i)
        \/ Writing(i)'
    BY <1>1, <1>4, <1>5, <1>6, <1>7 DEF ChunksOf
  <2>3. Writing(i)' => 0 \in Indexes(NewText(i)')
    BY <1>4, <1>5, IndexesFromZero
  <2>4. /\ \A c \in ingest'[i].gone : c.source \in Claimed(i)'
        /\ \A c \in ingest'[i].rows : c.source \in Held(ingest'[i].docs)
    BY <1>1, <1>4, <1>5, <1>7 DEF RunInv, WritesInTurn
  <2>5. ingest'[i].pc \notin {"deleting", "rows"}
    BY <1>1, <1>4
  <2> QED BY <1>1, <1>2, <1>4, <1>5, <1>6, <1>7, <2>1, <2>2, <2>3, <2>4, <2>5 DEF WritesInTurn
<1>11. DeletesWhole(i)'
  <2> DEFINE both == ingest[i].snapshot \cap chunks
  <2>1. /\ Whole(ingest[i].snapshot, s) /\ Whole(Of(chunks, s), s) /\ Whole({}, s)
    <3>1. Of(ingest[i].snapshot, s) = ingest[i].snapshot
      BY <1>7 DEF Of
    <3>2. Whole(ingest[i].snapshot, s) /\ Whole(Of(chunks, s), s)
      BY <1>1, <1>2, <3>1 DEF RunInv, DeletesWhole, KnowledgeInv, WholeInv
    <3> QED BY <3>2, WholeRows
  <2>2. both = ingest[i].snapshot \cap Of(chunks, s)
    BY <1>7 DEF Of
  <2>3. Whole(both, s)
    BY <2>1, <2>2, WholesMeet
  <2>4. Of(run.gone, s) = both /\ \A q \in Sources \ {s} : Of(run.gone, q) = Of(ingest[i].gone, q)
    BY <1>4, <1>7 DEF Of
  <2>5. \A q \in Sources : Whole(Of(run.gone, q), q)
    BY <1>1, <2>3, <2>4 DEF RunInv, DeletesWhole
  <2> QED BY <1>1, <1>4, <2>5 DEF DeletesWhole
<1>12. LocksOut(i)'
  BY <1>1, <1>4 DEF RunInv, LocksOut
<1>13. Alone(i)'
  <2> SUFFICES ASSUME ~ingest[i].met
               PROVE  /\ \A j \in Ingests \ {i} : ~Active(j)'
                      /\ \A q \in Claimed(i)' : /\ Of(chunks, q) \subseteq run.gone
                                               /\ document[q].text # Meant(i)'[q].text
    BY <1>1, <1>4, <1>5 DEF Alone, Of
  <2>1. \A j \in Ingests \ {i} : ~Active(j)'
    BY <1>1 DEF RunInv, Alone, Active
  <2>2. /\ Of(chunks, s) \subseteq run.gone
        /\ document[s].text # Meant(i)'[s].text
    BY <1>1, <1>4, <1>5, <1>6 DEF RunInv, Alone, Of
  <2>3. ASSUME NEW q \in Claimed(i)
        PROVE  /\ Of(chunks, q) \subseteq run.gone
               /\ document[q].text # Meant(i)'[q].text
    BY <1>1, <1>2, <1>4, <1>6, <2>3 DEF RunInv, Alone, Claimed, Held
  <2> QED BY <1>5, <2>1, <2>2, <2>3
<1>14. KeepsAccounts(i)'
  <2>1. ~Updating(i)' /\ Updating(i) /\ ingest'[i].keeps = ingest[i].keeps
    BY <1>1, <1>4 DEF Updating
  <2>2. \A q \in Held(run.pending) : document[q] # NoDocument
    BY <1>1, <1>3, <2>1 DEF RunInv, KeepsAccounts
  <2>3. ASSUME ~ingest[i].met, NEW q \in ingest[i].keeps \cap Held(run.pending)
        PROVE  document[q].owner = run.pending[q].owner
    BY <1>1, <1>2, <1>3, <2>1, <2>3 DEF RunInv, KeepsAccounts, Held
  <2> QED BY <1>1, <1>4, <1>5, <2>1, <2>2, <2>3 DEF RunInv, KeepsAccounts
<1> QED BY <1>1, <1>4, <1>8, <1>9, <1>10, <1>11, <1>12, <1>13, <1>14, OwnStep
        DEF RunInv, DeleteChunks

\* The flush updates documents that nobody else has written, as claimed.
LEMMA FlushDocumentsKeeps ==
  ASSUME KnowledgeInv, NEW i \in Ingests, FlushDocuments(i)
  PROVE  KnowledgeInv'
<1> DEFINE s == ingest[i].current
           run == [ingest[i] EXCEPT !.pc = "rows", !.docs = Flushed(i), !.pending = NoDocuments]
<1>1. /\ ingest[i] \in Run /\ RunInv(i) /\ ingest \in [Ingests -> Run]
      /\ Advance(i, run) /\ ingest'[i] = run
      /\ \A j \in Ingests \ {i} : ingest'[j] = ingest[j]
      /\ UNCHANGED <<source, had, document, chunks>>
      /\ ingest[i].pc = "flush"
      /\ Active(i) /\ ~Looking(i) /\ Writing(i)
  BY DEF KnowledgeInv, RowsTypeOK, FlushDocuments, Advance, Active, Looking, Writing
<1>2. /\ run \in Run /\ run.met = ingest[i].met /\ run.pc = "rows"
      /\ run.docs = Flushed(i) /\ run.pending = NoDocuments
      /\ run.gone = ingest[i].gone /\ run.rows = ingest[i].rows
      /\ run.read = ingest[i].read /\ run.todo = ingest[i].todo
      /\ run.keeps = ingest[i].keeps /\ run.kind = ingest[i].kind /\ run.current = s
  BY <1>1, FlushedClaims, NothingHeld DEF Run
<1> HIDE DEF run
<1>3. Held(run.docs) = Claimed(i) /\ Held(run.pending) = {}
  BY <1>1, <1>2, FlushedClaims, NothingHeld
<1>4. /\ Active(i)' /\ ~Looking(i)' /\ Writing(i)'
      /\ Claimed(i)' = Claimed(i) /\ NewText(i)' = NewText(i)
  BY <1>1, <1>2, <1>3 DEF Active, Looking, Writing, Claimed, NewText
<1>5. \A q \in Sources : Meant(i)'[q].text = Meant(i)[q].text
  <2>1. Meant(i)' = Over(run.pending, run.docs)
    BY <1>1 DEF Meant, Over, Held
  <2> QED BY <1>2, <1>3, <2>1, FlushedClaims DEF Over
<1>6. WritesWhatWas(i)'
  <2>1. \A q \in Claimed(i) : /\ Was(Flushed(i)[q], q)
                              /\ ~ingest[i].met => Flushed(i)[q] \in had[q]
    BY <1>1, FlushedWas
  <2> QED BY <1>1, <1>2, <1>3, <2>1 DEF RunInv, WritesWhatWas, Was
<1>7. TakesOnce(i)'
  BY <1>1, <1>2, <1>3, <1>4 DEF RunInv, TakesOnce
<1>8. WritesInTurn(i)'
  <2>1. \A q \in Claimed(i) : q \in Sources
    BY DEF Claimed, Held
  <2>2. \A c \in ingest[i].rows : c.source \in Claimed(i)
    BY <1>1 DEF RunInv, WritesInTurn, Claimed
  <2>3. s \in Claimed(i)
    BY <1>1 DEF RunInv, WritesInTurn
  <2> QED BY <1>1, <1>2, <1>3, <1>4, <1>5, <2>1, <2>2, <2>3 DEF RunInv, WritesInTurn
<1>9. DeletesWhole(i)'
  BY <1>1, <1>2 DEF RunInv, DeletesWhole
<1>10. LocksOut(i)'
  <2>1. \A j \in Ingests \ {i} : Claimed(i) \cap Held(ingest[j].docs) = {}
    BY <1>1 DEF FlushDocuments, Unblocked, WaitsFor, DocumentsLockedBy, RunInv, LocksOut, Claimed
  <2> QED BY <1>1, <1>2, <1>3, <2>1 DEF RunInv, LocksOut
<1>11. Alone(i)'
  <2>1. \A q \in Claimed(i) : q \in Sources
    BY DEF Claimed, Held
  <2> QED BY <1>1, <1>2, <1>4, <1>5, <2>1 DEF RunInv, Alone, Active
<1>12. KeepsAccounts(i)'
  BY <1>1, <1>2, <1>3, <1>4 DEF RunInv, KeepsAccounts, Updating
<1> QED BY <1>1, <1>2, <1>6, <1>7, <1>8, <1>9, <1>10, <1>11, <1>12, OwnStep
        DEF RunInv, FlushDocuments

\* The chunks go in whole, or meet what is left of the others.
LEMMA FlushChunksKeeps ==
  ASSUME KnowledgeInv, NEW i \in Ingests, FlushChunks(i)
  PROVE  KnowledgeInv'
<1> DEFINE s == ingest[i].current
           run == [ingest[i] EXCEPT !.pc = "next",
                                    !.rows = ingest[i].rows \cup ChunksOf(s, NewText(i), i)]
<1>1. /\ ingest[i] \in Run /\ RunInv(i) /\ ingest \in [Ingests -> Run]
      /\ ingest[i].pc = "rows" /\ Active(i) /\ ~Looking(i) /\ Writing(i)
      /\ UNCHANGED <<document, chunks>>
  BY DEF KnowledgeInv, RowsTypeOK, FlushChunks, Active, Looking, Writing
<1>2. CASE Taken(chunks \ ingest[i].gone, i)
  BY <1>1, <1>2, RollBackKeeps DEF FlushChunks
<1>3. CASE ~Taken(chunks \ ingest[i].gone, i)
  <2>1. /\ Advance(i, run) /\ ingest'[i] = run
        /\ \A j \in Ingests \ {i} : ingest'[j] = ingest[j]
        /\ UNCHANGED <<source, had, document, chunks>>
    BY <1>1, <1>3 DEF FlushChunks, Advance
  <2>2. /\ s \in Sources /\ s \in Claimed(i) /\ ingest[i].read[s] \in MaybeDocument
        /\ ingest[i].read[s] # NoDocument /\ NewText(i) = ingest[i].read[s].text
        /\ NewText(i) \in Text /\ 0 \in Indexes(NewText(i))
        /\ Meant(i)[s].text = NewText(i) /\ Of(ingest[i].rows, s) = {}
        /\ ingest[i].pending = NoDocuments /\ Claimed(i) = Held(ingest[i].docs)
    BY <1>1, TextOf, NothingHeld
       DEF RunInv, TakesOnce, WritesInTurn, Run, Held, NewText, Claimed
  <2>3. ChunksOf(s, NewText(i), i) \subseteq Chunk
    BY <2>2 DEF ChunksOf, Chunk, Indexes, Runs
  <2>4. /\ run \in Run /\ run.met = ingest[i].met /\ run.pc = "next"
        /\ run.docs = ingest[i].docs /\ run.pending = ingest[i].pending
        /\ run.gone = ingest[i].gone
        /\ run.rows = ingest[i].rows \cup ChunksOf(s, NewText(i), i)
        /\ run.read = ingest[i].read /\ run.todo = ingest[i].todo
        /\ run.keeps = ingest[i].keeps /\ run.kind = ingest[i].kind /\ run.current = s
    BY <1>1, <2>3 DEF Run
  <2> HIDE DEF run
  <2>5. /\ Active(i)' /\ ~Looking(i)' /\ ~Writing(i)' /\ Meant(i)' = Meant(i)
        /\ Claimed(i)' = Claimed(i)
    BY <2>1, <2>4 DEF Active, Looking, Writing, Claimed, Meant
  <2>6. /\ Of(run.rows, s) = ChunksOf(s, NewText(i), i)
        /\ \A q \in Sources \ {s} : Of(run.rows, q) = Of(ingest[i].rows, q)
    BY <2>2, <2>4 DEF Of, ChunksOf
  <2>7. Of(chunks, s) \subseteq ingest[i].gone
    <3>1. Whole(Of(chunks, s), s) /\ Whole(Of(ingest[i].gone, s), s)
      BY <1>1, <2>2 DEF KnowledgeInv, WholeInv, RunInv, DeletesWhole
    <3>2. ASSUME NEW c \in Of(chunks, s), c.index = 0
          PROVE  c \in Of(ingest[i].gone, s)
      BY <1>3, <2>2, <3>2 DEF Taken, Of
    <3>3. CASE Of(chunks, s) = {}
      BY <3>3
    <3>4. CASE Of(chunks, s) # {}
      <4>1. PICK c \in Of(chunks, s) : c.index = 0
        BY <3>1, <3>4, WholeRows
      <4>2. Of(chunks, s) = Of(ingest[i].gone, s)
        BY <3>1, <3>2, <4>1, WholesMeet
      <4> QED BY <4>2 DEF Of
    <3> QED BY <3>3, <3>4
  <2>8. WritesWhatWas(i)' /\ TakesOnce(i)' /\ DeletesWhole(i)'
    BY <1>1, <2>1, <2>4, <2>5 DEF RunInv, WritesWhatWas, Was, TakesOnce, DeletesWhole
  <2>9. WritesInTurn(i)'
    <3>1. \A c \in run.rows : c.source \in Held(run.docs)
      BY <1>1, <2>2, <2>4 DEF RunInv, WritesInTurn, ChunksOf
    <3>2. \A q \in Claimed(i) : Of(run.rows, q) = ChunksOf(q, Meant(i)[q].text, i)
      BY <1>1, <2>2, <2>4, <2>6 DEF RunInv, WritesInTurn, Claimed, Held
    <3> QED BY <1>1, <2>1, <2>4, <2>5, <3>1, <3>2 DEF RunInv, WritesInTurn
  <2>10. LocksOut(i)'
    <3>1. \A c \in run.rows : Of(chunks, c.source) \subseteq ingest[i].gone
      BY <1>1, <2>4, <2>7 DEF RunInv, LocksOut, ChunksOf
    <3> QED BY <1>1, <2>1, <2>4, <3>1 DEF RunInv, LocksOut, Of
  <2>11. Alone(i)'
    BY <1>1, <2>1, <2>4, <2>5 DEF RunInv, Alone, Active
  <2>12. KeepsAccounts(i)'
    BY <1>1, <2>1, <2>4, <2>5 DEF RunInv, KeepsAccounts, Updating
  <2> QED BY <1>1, <2>1, <2>4, <2>8, <2>9, <2>10, <2>11, <2>12, OwnStep DEF RunInv
<1> QED BY <1>2, <1>3

\* The commit: what is stored of the sources it has is what it wrote of them,
\* and the others have written other documents.
LEMMA CommitKeeps ==
  ASSUME KnowledgeInv, NEW i \in Ingests, Commit(i)
  PROVE  KnowledgeInv'
<1> DEFINE run == Closed(i, "committed")
<1>1. /\ ingest[i] \in Run /\ RunInv(i) /\ ingest \in [Ingests -> Run]
      /\ ingest' = [ingest EXCEPT ![i] = run] /\ ingest'[i] = run
      /\ \A j \in Ingests \ {i} : ingest'[j] = ingest[j]
      /\ UNCHANGED <<source, had>>
      /\ document' = Over(Flushed(i), document)
      /\ chunks' = (chunks \ ingest[i].gone) \cup ingest[i].rows
      /\ ingest[i].pc = "committing" /\ Active(i) /\ ~Looking(i) /\ ~Writing(i)
  BY DEF KnowledgeInv, RowsTypeOK, Commit, Advance, Active, Looking, Writing
<1>2. /\ run \in Run /\ run.met = ingest[i].met /\ run.pc = "committed"
      /\ run.docs = NoDocuments /\ run.pending = NoDocuments /\ run.gone = {} /\ run.rows = {}
      /\ run.read = ingest[i].read /\ run.todo = ingest[i].todo
      /\ run.kind = ingest[i].kind /\ run.keeps = {}
  BY <1>1, NothingHeld DEF Closed, Run
<1> HIDE DEF run
<1>3. /\ ~Active(i)' /\ ~Looking(i)' /\ ~Writing(i)' /\ Claimed(i)' = {}
      /\ \A j \in Ingests : ingest'[j].met = ingest[j].met
  BY <1>1, <1>2, NothingHeld DEF Active, Looking, Writing, Claimed
<1>4. /\ Claimed(i) \subseteq Sources
      /\ \A s \in Claimed(i) : /\ document'[s].text = Meant(i)[s].text
                               /\ document'[s] \in MaybeDocument /\ document'[s] # NoDocument
                               /\ Was(document'[s], s)
                               /\ ~ingest[i].met => document'[s] \in had[s]
                               /\ Of(ingest[i].rows, s) = ChunksOf(s, document'[s].text, i)
      /\ \A s \in Sources \ Claimed(i) : /\ document'[s] = document[s]
                                         /\ Of(ingest[i].rows, s) = {}
                                         /\ Of(ingest[i].gone, s) = {}
  <2>1. Claimed(i) \subseteq Sources
    BY DEF Claimed, Held
  <2>2. Held(Flushed(i)) = Claimed(i) /\ Flushed(i) \in [Sources -> MaybeDocument]
    BY <1>1, FlushedClaims
  <2>3. \A s \in Sources : document'[s] = IF s \in Claimed(i) THEN Flushed(i)[s] ELSE document[s]
    BY <1>1, <2>2 DEF Over
  <2>4. \A s \in Claimed(i) : /\ Flushed(i)[s].text = Meant(i)[s].text
                              /\ Flushed(i)[s] # NoDocument /\ Was(Flushed(i)[s], s)
                              /\ ~ingest[i].met => Flushed(i)[s] \in had[s]
    BY <1>1, <2>1, <2>2, FlushedClaims, FlushedWas DEF Held
  <2>5. /\ \A s \in Claimed(i) : Of(ingest[i].rows, s) = ChunksOf(s, Meant(i)[s].text, i)
        /\ \A c \in ingest[i].gone \cup ingest[i].rows : c.source \in Claimed(i)
    BY <1>1 DEF RunInv, WritesInTurn, Claimed
  <2> QED BY <2>1, <2>2, <2>3, <2>4, <2>5 DEF Of
<1>5. \A s : Of(chunks', s) = (Of(chunks, s) \ Of(ingest[i].gone, s)) \cup Of(ingest[i].rows, s)
  BY <1>1 DEF Of
<1>6. ASSUME NEW s \in Sources \ Claimed(i)
      PROVE  Of(chunks', s) = Of(chunks, s)
  BY <1>4, <1>5
<1>7. ASSUME NEW s \in Claimed(i), Of(ingest[i].rows, s) # {}
      PROVE  Of(chunks', s) = ChunksOf(s, document'[s].text, i)
  <2>1. Of(chunks, s) \subseteq ingest[i].gone
    BY <1>1, <1>7 DEF RunInv, LocksOut, Of
  <2>2. Of(chunks, s) \subseteq Of(ingest[i].gone, s)
    BY <2>1 DEF Of
  <2> QED BY <1>4, <1>5, <2>2
<1>8. ASSUME NEW s \in Claimed(i), Of(ingest[i].rows, s) = {}
      PROVE  /\ Of(chunks', s) = Of(chunks, s) \ Of(ingest[i].gone, s)
             /\ Whole(Of(chunks', s), s)
  <2>1. Of(chunks', s) = Of(chunks, s) \ Of(ingest[i].gone, s)
    BY <1>5, <1>8
  <2>2. Whole(Of(chunks, s), s) /\ Whole(Of(ingest[i].gone, s), s) /\ Whole({}, s)
    BY <1>1, <1>4, WholeRows DEF KnowledgeInv, WholeInv, RunInv, DeletesWhole
  <2> QED BY <2>1, <2>2, WholesMeet
<1>9. RowsTypeOK'
  <2>1. document' \in [Sources -> MaybeDocument]
    BY <1>1, <1>4 DEF KnowledgeInv, RowsTypeOK, Over
  <2> QED BY <1>1, <1>2, <2>1 DEF KnowledgeInv, RowsTypeOK, Run
<1>10. StoredInv'
  <2>1. \A j \in Ingests : ingest[j].pc = "committed" => ingest'[j] = ingest[j]
    BY <1>1
  <2>2. ingest[i].met => ingest'[i].met /\ ingest'[i].pc = "committed"
    BY <1>1, <1>2
  <2>4. ASSUME NEW s \in Sources, document'[s] # NoDocument
        PROVE  /\ Was(document'[s], s)
               /\ \/ document'[s] \in had[s]
                  \/ \E j \in Ingests : ingest'[j].met /\ ingest'[j].pc = "committed"
    BY <1>4, <2>1, <2>2, <2>4 DEF KnowledgeInv, StoredInv
  <2> QED BY <1>1, <2>4 DEF KnowledgeInv, StoredInv, Was
<1>11. WholeInv'
  <2>1. ASSUME NEW s \in Sources \ Claimed(i)
        PROVE  /\ Whole(Of(chunks', s), s)
               /\ document'[s] = NoDocument => Of(chunks', s) = {}
    BY <1>4, <1>6 DEF KnowledgeInv, WholeInv
  <2>2. ASSUME NEW s \in Claimed(i)
        PROVE  Whole(Of(chunks', s), s) /\ document'[s] # NoDocument
    <3>1. document'[s].text \in Text /\ document'[s] # NoDocument
      BY <1>4, TextOf
    <3>2. Of(ingest[i].rows, s) # {} => Whole(Of(chunks', s), s)
      BY <1>7, <3>1 DEF Whole, Runs
    <3> QED BY <1>8, <3>1, <3>2
  <2> QED BY <2>1, <2>2 DEF WholeInv, Of, Whole
<1>12. ChunksAreTheDocument'
  <2> SUFFICES ASSUME NEW s \in Sources, ~LeftBehind(s)'
               PROVE  \E r \in Runs : Of(chunks', s) = ChunksOf(s, document'[s].text, r)
    BY DEF ChunksAreTheDocument, ChunksOf, Of, Runs
  <2>1. CASE s \notin Claimed(i)
    <3>1. ~LeftBehind(s) /\ document'[s] = document[s]
      BY <1>3, <1>4, <2>1 DEF LeftBehind
    <3> QED BY <1>6, <2>1, <3>1 DEF KnowledgeInv, ChunksAreTheDocument, Of, Runs
  <2>2. CASE s \in Claimed(i) /\ Of(ingest[i].rows, s) # {}
    BY <1>7, <2>2 DEF Runs
  <2>3. CASE s \in Claimed(i) /\ Of(ingest[i].rows, s) = {}
    <3>1. ChunksOf(s, document'[s].text, i) = {} /\ document'[s].text \in Text
      BY <1>4, <2>3, TextOf
    <3>2. document'[s].text = "blank"
      <4>1. [source |-> s, index |-> 0, text |-> document'[s].text, by |-> i]
              \notin ChunksOf(s, document'[s].text, i)
        BY <3>1
      <4>2. 0 \notin Indexes(document'[s].text)
        BY <4>1 DEF ChunksOf
      <4> QED BY <3>1, <4>2 DEF Indexes, Text
    <3>3. ~ingest[i].met
      BY <1>3, <3>2 DEF LeftBehind
    <3>4. Of(chunks, s) \subseteq ingest[i].gone
      BY <1>1, <2>3, <3>3 DEF RunInv, Alone
    <3>5. Of(chunks', s) = {}
      BY <1>8, <2>3, <3>4 DEF Of
    <3> QED BY <3>1, <3>5 DEF Runs
  <2> QED BY <2>1, <2>2, <2>3
<1>13. RunInv(i)'
  <2>1. WritesWhatWas(i)' /\ TakesOnce(i)' /\ WritesInTurn(i)' /\ LocksOut(i)' /\ Alone(i)'
    BY <1>1, <1>2, <1>3, NothingHeld
       DEF RunInv, WritesWhatWas, Was, TakesOnce, WritesInTurn, LocksOut, Alone
  <2>2. \A s \in Sources : Whole({}, s)
    BY WholeRows DEF KnowledgeInv, WholeInv
  <2>3. KeepsAccounts(i)'
    BY <1>1, <1>2, <1>3, NothingHeld DEF KeepsAccounts, Updating
  <2> QED BY <1>1, <1>2, <2>1, <2>2, <2>3 DEF RunInv, DeletesWhole, Of
<1>14. ASSUME NEW j \in Ingests \ {i} PROVE RunInv(j)'
  <2> ingest'[j] = ingest[j] /\ had' = had /\ RunInv(j)
    BY <1>1 DEF KnowledgeInv
  <2>1. WritesWhatWas(j)' /\ DeletesWhole(j)'
    BY DEF RunInv, WritesWhatWas, Was, DeletesWhole
  <2>2. TakesOnce(j)'
    BY DEF RunInv, TakesOnce, Claimed, Looking, Writing
  <2>3. Meant(j)' = Meant(j) /\ NewText(j)' = NewText(j)
    BY DEF Meant, NewText
  <2>4. WritesInTurn(j)'
    BY <2>3 DEF RunInv, WritesInTurn, Claimed, Writing, Active
  <2>5. LocksOut(j)'
    <3>1. ASSUME NEW c \in ingest[j].rows PROVE Of(chunks', c.source) \subseteq ingest[j].gone
      <4>1. c.source \in Held(ingest[j].docs) /\ c.source \in Sources
        BY DEF RunInv, WritesInTurn, Held
      <4>2. c.source \notin Claimed(i)
        BY <1>1, <4>1
           DEF Commit, Unblocked, WaitsFor, DocumentsLockedBy, RunInv, LocksOut, Claimed
      <4> QED BY <1>6, <4>1, <4>2 DEF RunInv, LocksOut
    <3>2. \A k \in Ingests \ {j} : Held(ingest'[j].docs) \cap Held(ingest'[k].docs) = {}
      BY <1>1, <1>2, NothingHeld DEF RunInv, LocksOut
    <3> QED BY <3>1, <3>2 DEF LocksOut, Of, Held
  <2>6. Alone(j)'
    <3>1. Active(j) => ingest[j].met
      BY <1>1 DEF RunInv, Alone
    <3> QED BY <3>1 DEF RunInv, Alone, Active
  <2>7. KeepsAccounts(j)'
    <3>1. \A s \in Sources : document[s] # NoDocument => document'[s] # NoDocument
      BY <1>4
    <3>2. Active(j) => ingest[j].met
      BY <1>1 DEF RunInv, Alone
    <3>3. Updating(j) => ingest[j].current \in Sources
      BY DEF RunInv, TakesOnce, Looking, Updating, Held
    <3> QED BY <3>1, <3>2, <3>3 DEF RunInv, KeepsAccounts, Updating, Active, Held
  <2> QED BY <2>1, <2>2, <2>4, <2>5, <2>6, <2>7 DEF RunInv
<1> QED BY <1>9, <1>10, <1>11, <1>12, <1>13, <1>14 DEF KnowledgeInv

\* The transaction is rolled back where the code fails, or the database ends it.
LEMMA EndedKeeps ==
  ASSUME KnowledgeInv, NEW i \in Ingests, FailIngest(i) \/ BreakDeadlock(i)
  PROVE  KnowledgeInv'
<1>1. /\ RollBack(i) /\ UNCHANGED <<document, chunks>>
      /\ ingest[i].pc = "embed" \/ \E j \in Ingests : WaitsFor(i, j)
  BY DEF FailIngest, BreakDeadlock
<1>2. Active(i)
  BY <1>1 DEF WaitsFor, Active
<1> QED BY <1>1, <1>2, RollBackKeeps

\* A contract changes, and has been what it was.
LEMMA EditKeeps ==
  ASSUME KnowledgeInv, NEW s \in Contracts, Edit(s)
  PROVE  KnowledgeInv'
<1>1. s \in Sources /\ UNCHANGED <<document, chunks, ingest>> /\ source \in [Sources -> Documents]
  BY DEF Edit, Sources, KnowledgeInv, RowsTypeOK
<1>2. source' \in [Sources -> Documents] /\ \A q \in Sources \ {s} : source'[q] = source[q]
  BY <1>1 DEF Edit, Documents
<1>3. /\ had' \in [Sources -> SUBSET Documents]
      /\ \A q \in Sources : had[q] \subseteq had'[q] /\ source'[q] \in had'[q]
  BY <1>1, <1>2 DEF Edit, KnowledgeInv, RowsTypeOK, StoredInv
<1>4. RowsTypeOK' /\ StoredInv' /\ WholeInv' /\ ChunksAreTheDocument'
  BY <1>1, <1>2, <1>3 DEF KnowledgeInv, RowsTypeOK, StoredInv, Was, WholeInv, Of, Whole,
                          ChunksAreTheDocument, LeftBehind
<1>5. ASSUME NEW i \in Ingests PROVE RunInv(i)'
  <2>1. RunInv(i) /\ ingest'[i] = ingest[i] /\ chunks' = chunks /\ document' = document
    BY <1>1 DEF KnowledgeInv
  <2>2. WritesWhatWas(i)'
    BY <1>3, <2>1 DEF RunInv, WritesWhatWas, Was
  <2>3. TakesOnce(i)' /\ DeletesWhole(i)'
    BY <2>1 DEF RunInv, TakesOnce, Claimed, Looking, Writing, DeletesWhole
  <2>4. Meant(i)' = Meant(i) /\ NewText(i)' = NewText(i)
    BY <2>1 DEF Meant, NewText
  <2>5. WritesInTurn(i)'
    BY <2>1, <2>4 DEF RunInv, WritesInTurn, Claimed, Writing, Active
  <2>6. LocksOut(i)' /\ Alone(i)'
    BY <1>1, <2>1, <2>4 DEF RunInv, LocksOut, Alone, Active, Claimed, Looking, Of
  <2>7. KeepsAccounts(i)'
    BY <2>1 DEF RunInv, KeepsAccounts, Updating, Active
  <2> QED BY <2>2, <2>3, <2>5, <2>6, <2>7 DEF RunInv
<1> QED BY <1>4, <1>5 DEF KnowledgeInv

\* A command starts, and meets whoever has not ended.
LEMMA StartIngestKeeps ==
  ASSUME KnowledgeInv, NEW i \in Ingests, StartIngest(i)
  PROVE  KnowledgeInv'
<1>1. /\ ingest[i] \in Run /\ RunInv(i) /\ ingest \in [Ingests -> Run] /\ ingest[i].pc = "idle"
      /\ UNCHANGED <<source, had, document, chunks>>
  BY DEF KnowledgeInv, RowsTypeOK, StartIngest
<1>2. /\ ingest'[i] \in Run /\ ingest'[i].pc = "next" /\ ingest'[i].kind = "contracts"
      /\ ingest'[i].met = (\E k \in Ingests : Active(k))
      /\ ingest'[i].todo = Policies /\ ingest'[i].read = Rows(Policies)
      /\ ingest'[i].docs = ingest[i].docs /\ ingest'[i].pending = ingest[i].pending
      /\ ingest'[i].gone = ingest[i].gone /\ ingest'[i].rows = ingest[i].rows
      /\ ingest'[i].keeps = ingest[i].keeps
      /\ ingest'[i].snapshot = ingest[i].snapshot /\ ingest'[i].current = ingest[i].current
  <2>1. Rows(Policies) \in [Sources -> MaybeDocument]
    BY DEF Rows, KnowledgeInv, RowsTypeOK, MaybeDocument
  <2>2. ingest'[i] = [ingest[i] EXCEPT !.pc = "next", !.todo = Policies, !.kind = "contracts",
                        !.read = Rows(Policies), !.met = \E k \in Ingests : Active(k)]
    BY DEF StartIngest
  <2>3. Policies \subseteq Sources /\ (\E k \in Ingests : Active(k)) \in BOOLEAN
    BY DEF Sources
  <2> QED BY <1>1, <2>1, <2>2, <2>3 DEF Run
<1>3. \A j \in Ingests \ {i} : ingest'[j] = [ingest[j] EXCEPT !.met = @ \/ Active(j)]
  BY DEF StartIngest
<1>4. ASSUME NEW j \in Ingests \ {i}
      PROVE  /\ ingest'[j] \in Run /\ (ingest'[j].met <=> ingest[j].met \/ Active(j))
             /\ ingest'[j].pc = ingest[j].pc /\ ingest'[j].kind = ingest[j].kind
             /\ ingest'[j].todo = ingest[j].todo /\ ingest'[j].read = ingest[j].read
             /\ ingest'[j].docs = ingest[j].docs /\ ingest'[j].pending = ingest[j].pending
             /\ ingest'[j].gone = ingest[j].gone /\ ingest'[j].rows = ingest[j].rows
             /\ ingest'[j].snapshot = ingest[j].snapshot /\ ingest'[j].keeps = ingest[j].keeps
             /\ ingest'[j].current = ingest[j].current
  <2>1. PICK b \in BOOLEAN : /\ b <=> ingest[j].met \/ Active(j)
                            /\ ingest'[j] = [ingest[j] EXCEPT !.met = b]
    <3>1. (ingest[j].met \/ Active(j)) \in BOOLEAN
      OBVIOUS
    <3> QED BY <1>3, <3>1
  <2>2. ingest[j] \in Run
    BY <1>1
  <2> QED BY <2>1, <2>2 DEF Run
<1>5. /\ ~Active(i) /\ Claimed(i) = {} /\ Claimed(i)' = {} /\ Held(ingest[i].docs) = {}
      /\ ingest[i].gone = {} /\ ingest[i].rows = {}
      /\ ingest[i].docs = NoDocuments /\ ingest[i].pending = NoDocuments
      /\ ~Looking(i)' /\ ~Writing(i)' /\ Active(i)' /\ ~ingest[i].met
  BY <1>1, <1>2, NothingHeld
     DEF RunInv, WritesInTurn, Alone, Active, Claimed, Looking, Writing
<1>6. RowsTypeOK'
  <2>1. ingest' \in [Ingests -> Run]
    <3>1. ingest' = [j \in Ingests |-> ingest'[j]]
      BY DEF StartIngest
    <3>2. \A j \in Ingests : ingest'[j] \in Run
      BY <1>2, <1>4
    <3> QED BY <3>1, <3>2
  <2> QED BY <1>1, <2>1 DEF KnowledgeInv, RowsTypeOK
<1>7. StoredInv' /\ WholeInv'
  <2>1. \A j \in Ingests : ingest[j].met /\ ingest[j].pc = "committed" =>
                            ingest'[j].met /\ ingest'[j].pc = "committed"
    BY <1>1, <1>4
  <2> QED BY <1>1, <2>1 DEF KnowledgeInv, StoredInv, Was, WholeInv, Of, Whole
<1>8. ChunksAreTheDocument'
  <2>1. \A s \in Sources : ~LeftBehind(s)' => ~LeftBehind(s)
    BY <1>1, <1>4, <1>5 DEF LeftBehind
  <2> QED BY <1>1, <2>1 DEF KnowledgeInv, ChunksAreTheDocument
<1>9. RunInv(i)'
  <2>1. /\ Policies \subseteq Held(Rows(Policies))
        /\ \A s \in Held(Rows(Policies)) : Rows(Policies)[s] = source[s]
    <3>1. \A s \in Sources : source[s] \in Documents /\ source[s] # NoDocument
      BY DEF KnowledgeInv, RowsTypeOK, Documents, NoDocument, Text
    <3> QED BY <3>1 DEF Rows, Sources, Held
  <2>2. WritesWhatWas(i)'
    BY <1>1, <1>2, <1>5, <2>1, NothingHeld DEF WritesWhatWas, Was, KnowledgeInv, StoredInv
  <2>3. TakesOnce(i)'
    BY <1>2, <1>5, <2>1, NothingHeld DEF TakesOnce
  <2>4. WritesInTurn(i)'
    BY <1>2, <1>5 DEF WritesInTurn
  <2>5. DeletesWhole(i)'
    BY <1>1, <1>2 DEF RunInv, DeletesWhole
  <2>6. LocksOut(i)'
    BY <1>2, <1>5 DEF LocksOut
  <2>7. Alone(i)'
    <3>1. (~ingest[i].met)' => \A j \in Ingests \ {i} : ~Active(j)'
      BY <1>2, <1>4 DEF Active
    <3> QED BY <1>2, <1>5, <3>1 DEF Alone
  <2>8. KeepsAccounts(i)'
    BY <1>1, <1>2, <1>5, NothingHeld DEF RunInv, KeepsAccounts, Updating
  <2> QED BY <2>2, <2>3, <2>4, <2>5, <2>6, <2>7, <2>8 DEF RunInv
<1>10. ASSUME NEW j \in Ingests \ {i} PROVE RunInv(j)'
  <2>1. RunInv(j) /\ had' = had /\ chunks' = chunks /\ document' = document
    BY <1>1 DEF KnowledgeInv
  <2>2. /\ Meant(j)' = Meant(j) /\ NewText(j)' = NewText(j) /\ Claimed(j)' = Claimed(j)
        /\ (Looking(j)' <=> Looking(j)) /\ (Writing(j)' <=> Writing(j)) /\ (Active(j)' <=> Active(j))
    BY <1>4 DEF Meant, NewText, Claimed, Looking, Writing, Active
  <2>3. WritesWhatWas(j)' /\ TakesOnce(j)' /\ DeletesWhole(j)'
    BY <1>4, <2>1, <2>2 DEF RunInv, WritesWhatWas, Was, TakesOnce, DeletesWhole
  <2>4. WritesInTurn(j)'
    BY <1>4, <2>1, <2>2 DEF RunInv, WritesInTurn
  <2>5. LocksOut(j)'
    <3>1. \A k \in Ingests : ingest'[k].docs = ingest[k].docs
      BY <1>2, <1>4
    <3> QED BY <1>4, <2>1, <3>1 DEF RunInv, LocksOut, Of
  <2>6. Alone(j)'
    BY <1>4, <2>1, <2>2 DEF RunInv, Alone, Active
  <2>7. KeepsAccounts(j)'
    BY <1>4, <2>1, <2>2 DEF RunInv, KeepsAccounts, Updating
  <2> QED BY <2>3, <2>4, <2>5, <2>6, <2>7 DEF RunInv
<1> QED BY <1>6, <1>7, <1>8, <1>9, <1>10 DEF KnowledgeInv

\* The corpus as it is found: the contracts in it, and the policies or not yet.
LEMMA KnowledgeStarts ==
  ASSUME KnowledgeInit
  PROVE  KnowledgeInv
<1>1. PICK ingested \in {Contracts, Sources} :
        /\ document = [s \in Sources |-> IF s \in ingested THEN source[s] ELSE NoDocument]
        /\ chunks = UNION {ChunksOf(s, "v1", "before") : s \in ingested}
  BY DEF KnowledgeInit
<1>2. ASSUME NEW s \in Sources
      PROVE  source[s] \in Documents /\ source[s].text = "v1" /\ source[s] # NoDocument
  <2> DEFINE first == CHOOSE o \in Owners : TRUE
  <2>1. \A q \in Contracts : first \in Owners
    BY KnowledgeAssumption
  <2>2. source[s] = [text |-> "v1", owner |-> IF s \in Policies THEN Everyone ELSE first]
    BY DEF KnowledgeInit
  <2> HIDE DEF first
  <2>3. PICK o \in Owners \cup {Everyone} : source[s] = [text |-> "v1", owner |-> o]
    BY <2>1, <2>2 DEF Sources
  <2>4. "v1" \in Text /\ NoDocument.text # "v1"
    BY DEF Text, NoDocument
  <2> QED BY <2>3, <2>4 DEF Documents
<1>3. /\ source \in [Sources -> Documents] /\ document \in [Sources -> MaybeDocument]
      /\ had \in [Sources -> SUBSET Documents] /\ ingested \subseteq Sources
  <2>1. source \in [Sources -> Documents]
    BY <1>2 DEF KnowledgeInit
  <2> QED BY <1>1, <1>2, <2>1 DEF KnowledgeInit, MaybeDocument, Sources
<1>4. \A s \in Sources : Of(chunks, s) = IF s \in ingested THEN ChunksOf(s, "v1", "before") ELSE {}
  BY <1>1 DEF Of, ChunksOf
<1>5. chunks \subseteq Chunk
  BY <1>1, <1>3 DEF ChunksOf, Chunk, Indexes, Text, Runs
<1>6. Idle \in Run
  BY NothingHeld DEF Idle, Run
<1>7. RowsTypeOK
  BY <1>3, <1>5, <1>6 DEF RowsTypeOK, KnowledgeInit
<1>8. StoredInv
  <2>1. ASSUME NEW s \in Sources
        PROVE  had[s] = {source[s]} /\ document[s] \in {source[s], NoDocument}
    BY <1>1 DEF KnowledgeInit
  <2>2. ASSUME NEW s \in Sources PROVE Was(source[s], s) /\ source[s] \in had[s]
    BY <2>1 DEF Was
  <2> QED BY <2>1, <2>2 DEF StoredInv
<1>9. /\ WholeInv /\ \A s \in Sources : Whole({}, s)
  <2>1. \A s \in Sources : Whole({}, s) /\ Whole(ChunksOf(s, "v1", "before"), s)
    BY DEF Whole, Text, Runs, ChunksOf, Indexes
  <2>2. ASSUME NEW s \in Sources
        PROVE  Whole(Of(chunks, s), s) /\ (document[s] = NoDocument => Of(chunks, s) = {})
    BY <1>1, <1>2, <1>4, <2>1
  <2>3. WholeInv
    BY <2>2 DEF WholeInv
  <2> QED BY <2>1, <2>3
<1>10. ChunksAreTheDocument
  <2>1. \A s \in Sources : Of(chunks, s) = ChunksOf(s, document[s].text, "before")
    BY <1>1, <1>2, <1>4 DEF NoDocument, ChunksOf, Indexes
  <2> QED BY <2>1 DEF ChunksAreTheDocument, Of
<1>11. ASSUME NEW i \in Ingests PROVE RunInv(i)
  <2>1. /\ ingest[i] = Idle /\ ~Active(i) /\ ~Looking(i) /\ ~Writing(i) /\ Claimed(i) = {}
        /\ \A j \in Ingests : ingest[j] = Idle
    BY NothingHeld DEF KnowledgeInit, Active, Looking, Writing, Claimed, Idle
  <2>2. /\ Idle.docs = NoDocuments /\ Idle.pending = NoDocuments /\ Idle.read = NoDocuments
        /\ Idle.gone = {} /\ Idle.rows = {} /\ Idle.todo = {} /\ Idle.kind = "policies"
        /\ Idle.pc = "idle" /\ Idle.met = FALSE /\ Idle.keeps = {}
    BY DEF Idle
  <2>3. WritesWhatWas(i) /\ TakesOnce(i) /\ WritesInTurn(i) /\ LocksOut(i) /\ Alone(i)
    BY <2>1, <2>2, NothingHeld DEF WritesWhatWas, TakesOnce, WritesInTurn, LocksOut, Alone
  <2>4. DeletesWhole(i)
    BY <1>9, <2>1, <2>2 DEF DeletesWhole, Of
  <2>5. KeepsAccounts(i)
    BY <2>1, <2>2, NothingHeld DEF KeepsAccounts, Updating
  <2> QED BY <2>3, <2>4, <2>5 DEF RunInv
<1> QED BY <1>7, <1>8, <1>9, <1>10, <1>11 DEF KnowledgeInv

\* Every step of the corpus keeps the invariant.
LEMMA KnowledgeStepKeeps ==
  ASSUME KnowledgeInv, [KnowledgeNext]_knowledgeVars
  PROVE  KnowledgeInv'
<1>1. CASE UNCHANGED knowledgeVars
  <2> USE <1>1 DEF knowledgeVars
  <2>1. RowsTypeOK' /\ StoredInv' /\ WholeInv' /\ ChunksAreTheDocument'
    BY DEF KnowledgeInv, RowsTypeOK, StoredInv, Was, WholeInv, Of, Whole, ChunksAreTheDocument,
           LeftBehind
  <2>2. ASSUME NEW i \in Ingests PROVE RunInv(i)'
    <3> RunInv(i)
      BY DEF KnowledgeInv
    <3>1. WritesWhatWas(i)' /\ TakesOnce(i)' /\ DeletesWhole(i)'
      BY DEF RunInv, WritesWhatWas, Was, TakesOnce, Claimed, Looking, Writing, DeletesWhole
    <3>2. Meant(i)' = Meant(i) /\ NewText(i)' = NewText(i)
      BY DEF Meant, NewText
    <3>3. WritesInTurn(i)'
      BY <3>2 DEF RunInv, WritesInTurn, Claimed, Writing, Active
    <3>4. LocksOut(i)' /\ Alone(i)'
      BY <3>2 DEF RunInv, LocksOut, Alone, Active, Claimed, Looking, Of
    <3>5. KeepsAccounts(i)'
      BY DEF RunInv, KeepsAccounts, Updating, Active
    <3> QED BY <3>1, <3>3, <3>4, <3>5 DEF RunInv
  <2> QED BY <2>1, <2>2 DEF KnowledgeInv
<1>2. ASSUME NEW s \in Contracts, Edit(s) PROVE KnowledgeInv'
  BY <1>2, EditKeeps
<1>3. ASSUME NEW i \in Ingests, StartIngest(i) \/ IngestStep(i) PROVE KnowledgeInv'
  BY <1>3, StartIngestKeeps, ReadContractsKeeps, LookKeeps, InsertDocumentKeeps, BeginDeleteKeeps,
     DeleteChunksKeeps, MoveOnKeeps, FlushDocumentsKeeps, FlushChunksKeeps, CommitKeeps, EndedKeeps
     DEF IngestStep
<1> QED BY <1>1, <1>2, <1>3 DEF KnowledgeNext

-----------------------------------------------------------------------------
\* The inductive invariant holds of every corpus and all the ingests that run on
\* it (pipeline.py): whatever they read, they delete and write whole texts of
\* theirs, under the locks that the flushes and deletes take.
THEOREM CorpusInvariance == KnowledgeSpec => []KnowledgeInv
<1>1. KnowledgeInit => KnowledgeInv
  BY KnowledgeStarts
<1>2. KnowledgeInv /\ [KnowledgeNext]_knowledgeVars => KnowledgeInv'
  BY KnowledgeStepKeeps
<1> QED BY <1>1, <1>2, PTL DEF KnowledgeSpec

\* Evidence is what is stored of documents in scope.
LEMMA EvidenceFollows ==
  ASSUME KnowledgeInv
  PROVE  EvidenceIsInScope
<1> SUFFICES ASSUME NEW account \in Owners \cup {Everyone}, NEW score \in [Text -> {34, 35}],
                    NEW e \in Evidence(account, score)
             PROVE  /\ \A h \in e.hits : /\ h.of.owner \in {Everyone, account}
                                         /\ \/ h.chunk.text = h.of.text
                                            \/ LeftBehind(h.chunk.source)
                    /\ e.sufficient => e.hits # {} /\ e.top = 35
  BY DEF EvidenceIsInScope
<1>1. PICK hits \in Nearest(account, score) :
        e = [sufficient |-> Sufficient({score[c.text] : c \in hits}),
             top |-> IF \E c \in hits : score[c.text] >= 35 THEN 35 ELSE 0,
             hits |-> {[chunk |-> c, of |-> document[c.source]] : c \in hits}]
  BY DEF Evidence
<1>2. hits \subseteq InScope(account)
  BY DEF Nearest
<1>3. ASSUME NEW h \in e.hits
      PROVE  /\ h.of.owner \in {Everyone, account}
             /\ h.chunk.text = h.of.text \/ LeftBehind(h.chunk.source)
  <2>1. PICK c \in hits : h = [chunk |-> c, of |-> document[c.source]]
    BY <1>1
  <2>2. c \in chunks /\ document[c.source].owner \in {Everyone, account}
    BY <1>2 DEF InScope
  <2>3. c.source \in Sources
    BY <2>2 DEF KnowledgeInv, RowsTypeOK, Chunk
  <2>4. ~LeftBehind(c.source) => c.text = document[c.source].text
    <3> SUFFICES ASSUME ~LeftBehind(c.source) PROVE c.text = document[c.source].text
      OBVIOUS
    <3>1. PICK run \in Ingests \cup {"before"} :
            {d \in chunks : d.source = c.source}
              = ChunksOf(c.source, document[c.source].text, run)
      BY <2>3 DEF KnowledgeInv, ChunksAreTheDocument
    <3>2. c \in ChunksOf(c.source, document[c.source].text, run)
      BY <2>2, <3>1
    <3> QED BY <3>2 DEF ChunksOf
  <2> QED BY <2>1, <2>2, <2>4
<1>4. ASSUME e.sufficient PROVE e.hits # {} /\ e.top = 35
  <2>1. PICK top \in {score[c.text] : c \in hits} : top >= 35
    BY <1>1, <1>4 DEF Sufficient
  <2>2. PICK c \in hits : top = score[c.text]
    BY <2>1
  <2> QED BY <1>1, <2>1, <2>2
<1> QED BY <1>3, <1>4

\* The invariant types the rows.
LEMMA RowsTyped == KnowledgeInv => KnowledgeTypeOK
<1> SUFFICES ASSUME KnowledgeInv PROVE KnowledgeTypeOK
  OBVIOUS
<1>1. /\ source \in [Sources -> [text : Text, owner : Owners \cup {Everyone}]]
      /\ document \in [Sources -> [text : Text \cup {"none"}, owner : Owners \cup {Everyone}]]
  BY DEF KnowledgeInv, RowsTypeOK, Documents, MaybeDocument, NoDocument
<1>2. ASSUME NEW i \in Ingests
      PROVE  /\ ingest[i].pc \in {"idle", "next", "insert", "delete", "deleting", "embed",
                                  "flush", "rows", "committing", "committed", "failed"}
             /\ ~Active(i) => /\ ingest[i].docs = NoDocuments
                              /\ ingest[i].gone = {} /\ ingest[i].rows = {}
             /\ ingest[i].rows # {} => Held(ingest[i].docs) # {}
  <2>1. ingest[i] \in Run /\ WritesInTurn(i)
    BY DEF KnowledgeInv, RowsTypeOK, RunInv
  <2> QED BY <2>1 DEF Run, WritesInTurn
<1> QED BY <1>1, <1>2 DEF KnowledgeTypeOK

\* The rows of the corpus are what their tables may hold, and a run that has
\* ended holds none (pipeline.py, models/knowledge.py).
THEOREM CorpusTyped == KnowledgeSpec => []KnowledgeTypeOK
BY RowsTyped, CorpusInvariance, PTL

\* At every moment the corpus holds, of each document, all the chunks of its text
\* and no others, documents as their policies and contracts have been, and what a
\* search finds in it is of the account that asks (pipeline.py, search.py).
THEOREM CorpusSound == KnowledgeSpec => []CorpusIsSound
<1>1. KnowledgeInv => CorpusIsSound
  BY EvidenceFollows DEF KnowledgeInv, StoredInv, Was, StoredWasOnceTrue, CorpusIsSound
<1> QED BY <1>1, CorpusInvariance, PTL

\* A step that replaces a stored document commits another text, or ends a run that
\* met another one.
LEMMA RewriteStep ==
  KnowledgeInv /\ [KnowledgeNext]_knowledgeVars =>
    [\A s \in Sources : document[s] # NoDocument /\ document'[s] # document[s] =>
       \/ document'[s].text # document[s].text
       \/ \E i \in Ingests : Active(i) /\ ~Active(i)' /\ ingest[i].met]_knowledgeVars
<1> DEFINE Rewrites ==
      \A s \in Sources : document[s] # NoDocument /\ document'[s] # document[s] =>
        \/ document'[s].text # document[s].text
        \/ \E i \in Ingests : Active(i) /\ ~Active(i)' /\ ingest[i].met
<1>1. ASSUME KnowledgeInv, KnowledgeNext PROVE Rewrites
  <2> KnowledgeInv
    BY <1>1
  <2>1. CASE document' = document
    BY <2>1
  <2>2. ASSUME NEW i \in Ingests, Commit(i) PROVE Rewrites
    <3>1. /\ ingest[i] \in Run /\ RunInv(i) /\ ingest[i].pc = "committing"
          /\ ingest'[i].pc = "committed" /\ document' = Over(Flushed(i), document)
      <4>1. ingest[i] \in Run /\ RunInv(i) /\ ingest \in [Ingests -> Run]
        BY DEF KnowledgeInv, RowsTypeOK
      <4> QED BY <2>2, <4>1 DEF Commit, Advance, Closed, Run
    <3>2. Active(i) /\ ~Active(i)'
      BY <3>1 DEF Active
    <3>3. ASSUME NEW s \in Sources, document'[s] # document[s], ~ingest[i].met
          PROVE  document'[s].text # document[s].text
      <4>1. s \in Claimed(i) /\ document'[s].text = Meant(i)[s].text
        BY <3>1, <3>3, FlushedClaims DEF Over
      <4> QED BY <3>1, <3>2, <3>3, <4>1 DEF RunInv, Alone
    <3> QED BY <3>2, <3>3
  <2>3. document' = document \/ \E i \in Ingests : Commit(i)
    BY <1>1 DEF KnowledgeNext, Edit, StartIngest, IngestStep, ReadContracts, Look, InsertDocument,
                BeginDelete, DeleteChunks, Embed, FlushDocuments, FlushChunks, Finish, FailIngest,
                BreakDeadlock
  <2> QED BY <2>1, <2>2, <2>3
<1> QED BY <1>1

\* Only a new text replaces a stored one, unless ingests overlapped
\* (ingest_document compares the hash before it deletes).
THEOREM NewTextRewrites == KnowledgeSpec => RewriteNeedsNewText
BY RewriteStep, CorpusInvariance, PTL DEF KnowledgeSpec, RewriteNeedsNewText

(***************************************************************************)
(* Chunking                                                                *)
(***************************************************************************)
\* Of the sets of members below a member, the least is that of the least member.
LEMMA HasMin ==
  ASSUME NEW S \in SUBSET Int, IsFiniteSet(S), S # {}
  PROVE  Min(S) \in S /\ \A y \in S : Min(S) <= y
<1> DEFINE Below(x) == {y \in S : y < x}
           Belows == {T \in SUBSET S : \E x \in S : T = Below(x)}
<1>1. IsWellFoundedOn(StrictSubsetOrdering(S), SUBSET S)
  BY FS_StrictSubsetOrderingWellFounded, FS_FiniteSubsetsOfFinite
<1>2. Belows \subseteq SUBSET S /\ Belows # {}
  OBVIOUS
<1>3. PICK T \in Belows : \A U \in Belows : <<U, T>> \notin StrictSubsetOrdering(S)
  BY <1>1, <1>2, WFMin
<1>4. PICK x \in S : T = Below(x)
  OBVIOUS
<1>5. ASSUME NEW y \in S, y < x PROVE FALSE
  <2>1. Below(y) \subseteq T /\ y \in T /\ y \notin Below(y)
    <3> HIDE DEF Belows
    <3>1. x \in Int /\ y \in Int /\ \A z \in S : z \in Int
      OBVIOUS
    <3>2. \A z \in S : z < y => z < x
      BY <1>5, <3>1
    <3>3. Below(y) \subseteq T
      BY <1>4, <3>2
    <3>4. y \notin Below(y)
      BY <3>1
    <3> QED BY <1>4, <1>5, <3>3, <3>4
  <2>2. Below(y) \in Belows /\ Below(y) \in SUBSET S /\ T \in SUBSET S
    OBVIOUS
  <2>3. <<Below(y), T>> \in StrictSubsetOrdering(S)
    BY <2>1, <2>2 DEF StrictSubsetOrdering
  <2> QED BY <1>3, <2>2, <2>3
<1>6. \A y \in S : x <= y
  BY <1>5
<1> QED BY <1>6 DEF Min

\* And the greatest is below none.
LEMMA HasMax ==
  ASSUME NEW S \in SUBSET Int, IsFiniteSet(S), S # {}
  PROVE  Max(S) \in S /\ \A y \in S : y <= Max(S)
<1> DEFINE Above(x) == {y \in S : y > x}
           Aboves == {T \in SUBSET S : \E x \in S : T = Above(x)}
<1>1. IsWellFoundedOn(StrictSubsetOrdering(S), SUBSET S)
  BY FS_StrictSubsetOrderingWellFounded, FS_FiniteSubsetsOfFinite
<1>2. Aboves \subseteq SUBSET S /\ Aboves # {}
  OBVIOUS
<1>3. PICK T \in Aboves : \A U \in Aboves : <<U, T>> \notin StrictSubsetOrdering(S)
  BY <1>1, <1>2, WFMin
<1>4. PICK x \in S : T = Above(x)
  OBVIOUS
<1>5. ASSUME NEW y \in S, y > x PROVE FALSE
  <2>1. Above(y) \subseteq T /\ y \in T /\ y \notin Above(y)
    <3> HIDE DEF Aboves
    <3>1. x \in Int /\ y \in Int /\ \A z \in S : z \in Int
      OBVIOUS
    <3>2. \A z \in S : z > y => z > x
      BY <1>5, <3>1
    <3>3. Above(y) \subseteq T
      BY <1>4, <3>2
    <3>4. y \notin Above(y)
      BY <3>1
    <3> QED BY <1>4, <1>5, <3>3, <3>4
  <2>2. Above(y) \in Aboves /\ Above(y) \in SUBSET S /\ T \in SUBSET S
    OBVIOUS
  <2>3. <<Above(y), T>> \in StrictSubsetOrdering(S)
    BY <2>1, <2>2 DEF StrictSubsetOrdering
  <2> QED BY <1>3, <2>2, <2>3
<1>6. \A y \in S : y <= x
  BY <1>5
<1> QED BY <1>6 DEF Max

\* Of a part of an interval, and of two numbers
LEMMA ExtremesInInterval ==
  ASSUME NEW a \in Int, NEW b \in Int, NEW S \in SUBSET (a .. b), S # {}
  PROVE  /\ Min(S) \in S /\ \A y \in S : Min(S) <= y
         /\ Max(S) \in S /\ \A y \in S : y <= Max(S)
<1>1. IsFiniteSet(a .. b)
  BY FS_Interval
<1>2. IsFiniteSet(S)
  BY <1>1, FS_Subset
<1>3. S \in SUBSET Int
  OBVIOUS
<1> QED BY <1>2, <1>3, HasMin, HasMax

\* The smaller and the greater of two numbers.
LEMMA ExtremesOfTwo ==
  ASSUME NEW a \in Int, NEW b \in Int
  PROVE  /\ Min({a, b}) = (IF a <= b THEN a ELSE b)
         /\ Max({a, b}) = (IF a <= b THEN b ELSE a)
<1>1. {a, b} \in SUBSET (a .. b) \/ {a, b} \in SUBSET (b .. a)
  OBVIOUS
<1>2. /\ Min({a, b}) \in {a, b} /\ \A y \in {a, b} : Min({a, b}) <= y
      /\ Max({a, b}) \in {a, b} /\ \A y \in {a, b} : y <= Max({a, b})
  BY <1>1, ExtremesInInterval
<1> QED BY <1>2

Piece == [start : Int, end : Int, upto : Int]

\* The pairs of characters that have to be in one chunk, and those that are
Apart == IF OverlapFits THEN given.overlap ELSE 0
DoneUpTo(limit) ==
  \A p \in Inked(0, Length) : p <= limit =>
    \A q \in Inked(p - 1, Min({p + Apart, Length})) :
      \E n \in DOMAIN cut : cut[n].start < p /\ q <= cut[n].end

\* What starts before the next chunk is in the chunks so far; and the next one, by
\* what the overlap takes back, ends after all of them.
ChunkInv ==
  /\ given \in [text : Seq(Characters), max : Int, overlap : Int]
  /\ cut \in Seq(Piece) /\ ChunkTypeOK /\ EveryChunkAddsText
  /\ call \in {"none", "refused"} => cut = <<>>
  /\ call = "none" => position = 0
  /\ call = "looping" =>
       /\ 0 <= given.overlap /\ given.overlap < given.max
       /\ DoneUpTo(position)
       /\ OverlapFits => \A n \in DOMAIN cut : /\ cut[n].upto <= position + given.overlap
                                             /\ cut[n].upto < Length
  /\ call = "returned" => DoneUpTo(Length)

\* A boundary is in the text that is searched, or its end.
LEMMA NicestWithin ==
  ASSUME NEW from \in Int, NEW to \in Int, from <= to
  PROVE  Nicest(from, to) \in (from + 1 .. to) \cup {to}
<1> DEFINE kinds == <<ParagraphEnds(from, to), SentenceEnds(from, to), SpaceEnds(from, to), {to}>>
           occurring == {n \in DOMAIN kinds : kinds[n] # {}}
           first == Min(occurring)
<1>1. \A n \in 1 .. 4 : kinds[n] \subseteq (from + 1 .. to) \cup {to}
  <2>1. /\ ParagraphEnds(from, to) \subseteq from + 1 .. to
        /\ SentenceEnds(from, to) \subseteq from + 1 .. to
        /\ SpaceEnds(from, to) \subseteq from + 1 .. to
    BY DEF ParagraphEnds, SentenceEnds, SpaceEnds
  <2> QED BY <2>1
<1>2. DOMAIN kinds = 1 .. 4 /\ kinds[4] = {to}
  OBVIOUS
<1>3. Nicest(from, to) = Max(kinds[first])
  BY DEF Nicest
<1> HIDE DEF kinds
<1>4. occurring \in SUBSET (1 .. 4) /\ occurring # {} /\ 1 \in Int /\ 4 \in Int
  BY <1>2
<1>5. first \in occurring
  BY <1>4, ExtremesInInterval
<1>6. kinds[first] \subseteq (from + 1 .. to) \cup {to} /\ kinds[first] # {}
  BY <1>1, <1>2, <1>5
<1>7. kinds[first] \in SUBSET (from .. to)
  BY <1>6
<1>8. Max(kinds[first]) \in kinds[first]
  BY <1>6, <1>7, ExtremesInInterval
<1> QED BY <1>3, <1>6, <1>8

\* A chunk ends after its start and not SearchWindow before its limit.
LEMMA FindBoundaryWithin ==
  ASSUME NEW start \in Int, NEW hard_end \in Int, start < hard_end
  PROVE  /\ FindBoundary(start, hard_end) \in start + 1 .. hard_end
         /\ FindBoundary(start, hard_end) >= hard_end - SearchWindow
<1> DEFINE from == Max({start + 1, hard_end - SearchWindow})
<1>1. SearchWindow \in Nat
  BY ChunkAssumption
<1>2. /\ from \in Int /\ start + 1 <= from /\ from <= hard_end
      /\ from >= hard_end - SearchWindow
  <2>1. start + 1 \in Int /\ hard_end - SearchWindow \in Int
    BY <1>1
  <2>2. from = IF start + 1 <= hard_end - SearchWindow THEN hard_end - SearchWindow ELSE start + 1
    BY <2>1, ExtremesOfTwo
  <2> QED BY <1>1, <2>1, <2>2
<1>3. FindBoundary(start, hard_end) = Nicest(from, hard_end)
  BY DEF FindBoundary
<1> HIDE DEF from
<1>4. Nicest(from, hard_end) \in (from + 1 .. hard_end) \cup {hard_end}
  BY <1>2, NicestWithin
<1> QED BY <1>1, <1>2, <1>3, <1>4

\* A chunk spans all the ink between its cuts.
LEMMA ChunkOfSpans ==
  ASSUME NEW from \in Int, NEW to \in Int
  PROVE  \/ ChunkOf(from, to) = <<>> /\ Inked(from, to) = {}
         \/ \E r \in Piece : /\ ChunkOf(from, to) = <<r>> /\ r.upto = to
                            /\ from <= r.start /\ r.start < r.end /\ r.end <= to
                            /\ r.start + 1 \in Inked(from, to) /\ r.end \in Inked(from, to)
                            /\ \A p \in Inked(from, to) : r.start < p /\ p <= r.end
<1> DEFINE ink == Inked(from, to)
<1>1. CASE ink = {}
  BY <1>1 DEF ChunkOf
<1>2. CASE ink # {}
  <2> DEFINE r == [start |-> Min(ink) - 1, end |-> Max(ink), upto |-> to]
  <2>1. ChunkOf(from, to) = <<r>>
    BY <1>2 DEF ChunkOf
  <2>2. ink \in SUBSET (from + 1 .. to) /\ from + 1 \in Int
    BY DEF Inked
  <2> HIDE DEF ink
  <2>3. /\ Min(ink) \in ink /\ \A y \in ink : Min(ink) <= y
        /\ Max(ink) \in ink /\ \A y \in ink : y <= Max(ink)
    BY <1>2, <2>2, ExtremesInInterval
  <2>4. \A p \in ink : p \in Int /\ from + 1 <= p /\ p <= to
    BY <2>2
  <2>5. /\ r \in Piece /\ r.upto = to /\ r.start = Min(ink) - 1 /\ r.end = Max(ink)
    BY <2>3, <2>4 DEF Piece
  <2> HIDE DEF r
  <2>6. /\ from <= r.start /\ r.start < r.end /\ r.end <= to
        /\ r.start + 1 \in ink /\ r.end \in ink
        /\ \A p \in ink : r.start < p /\ p <= r.end
    BY <2>3, <2>4, <2>5
  <2> QED BY <2>1, <2>5, <2>6 DEF ink
<1> QED BY <1>1, <1>2

\* A turn of the loop: its chunk covers what comes before the next one, which starts
\* further on and, when the overlap fits, ends further on too.
LEMMA CutChunkKeeps ==
  ASSUME ChunkInv, CutChunk
  PROVE  ChunkInv' /\ (call' = "looping" => position' > position)
<1> DEFINE hard_end == Min({position + given.max, Length})
           end == IF hard_end >= Length THEN hard_end ELSE FindBoundary(position, hard_end)
           last == end >= Length
<1>1. /\ given.text \in Seq(Characters) /\ Length \in Nat /\ given.max \in Int
      /\ given.overlap \in Int /\ 0 <= given.overlap /\ given.overlap < given.max
      /\ position \in Int /\ 0 <= position /\ position < Length /\ call = "looping"
      /\ SearchWindow \in Nat /\ cut \in Seq(Piece)
  BY ChunkAssumption DEF ChunkInv, ChunkTypeOK, CutChunk, Length
<1>2. /\ given' = given /\ cut' = cut \o ChunkOf(position, end)
      /\ last => call' = "returned" /\ position' = position
      /\ ~last => call' = "looping" /\ position' = NextPosition(end)
  BY <1>1 DEF CutChunk
<1>3. /\ hard_end \in Int /\ position < hard_end /\ hard_end <= Length
      /\ hard_end <= position + given.max
      /\ hard_end < Length => hard_end = position + given.max
  <2>1. hard_end = IF position + given.max <= Length THEN position + given.max ELSE Length
    BY <1>1, ExtremesOfTwo
  <2> QED BY <1>1, <2>1
<1>4. /\ end \in Int /\ position < end /\ end <= hard_end
      /\ ~last => hard_end < Length /\ end >= hard_end - SearchWindow
  <2> HIDE DEF hard_end
  <2>1. /\ FindBoundary(position, hard_end) \in position + 1 .. hard_end
        /\ FindBoundary(position, hard_end) >= hard_end - SearchWindow
    BY <1>1, <1>3, FindBoundaryWithin
  <2> QED BY <1>1, <1>3, <2>1
<1> HIDE DEF hard_end, end
<1>5. ASSUME ~last
      PROVE  /\ position' \in Int /\ position < position' /\ position' <= end
             /\ OverlapFits => position' + given.overlap = end
  <2>1. end - given.overlap \in Int /\ position + 1 \in Int
    BY <1>1, <1>4
  <2>2. NextPosition(end) = IF end - given.overlap <= position + 1 THEN position + 1
                            ELSE end - given.overlap
    BY <2>1, ExtremesOfTwo DEF NextPosition
  <2>3. position' = NextPosition(end)
    BY <1>2, <1>5
  <2>4. OverlapFits => end - given.overlap > position
    BY <1>1, <1>3, <1>4, <1>5 DEF OverlapFits
  <2>5. position < end /\ end \in Int /\ position' \in Int /\ position < position' /\ position' <= end
    BY <1>1, <1>4, <2>2, <2>3
  <2> QED BY <1>1, <2>2, <2>3, <2>4, <2>5
<1>6. /\ Length' = Length /\ OverlapFits' = OverlapFits /\ Apart' = Apart
      /\ \A a, b : Inked(a, b)' = Inked(a, b)
  BY <1>2 DEF Length, OverlapFits, Apart, Inked
<1>7. /\ cut' \in Seq(Piece) /\ Len(cut') \in {Len(cut), Len(cut) + 1} /\ Len(cut) \in Nat
      /\ \A n \in DOMAIN cut : n \in DOMAIN cut' /\ cut'[n] = cut[n]
      /\ \A n \in DOMAIN cut' : n \in DOMAIN cut \/ n = Len(cut) + 1
      /\ Len(cut') = Len(cut) + 1 =>
           LET r == cut'[Len(cut) + 1]
           IN /\ r \in Piece /\ r.upto = end
              /\ position <= r.start /\ r.start < r.end /\ r.end <= end
              /\ r.start + 1 \in Inked(position, end) /\ r.end \in Inked(position, end)
              /\ \A p \in Inked(position, end) : r.start < p /\ p <= r.end
      /\ Len(cut') = Len(cut) => Inked(position, end) = {}
  <2>1. CASE ChunkOf(position, end) = <<>> /\ Inked(position, end) = {}
    <3>1. cut' = cut
      BY <1>1, <1>2, <2>1
    <3> QED BY <1>1, <2>1, <3>1
  <2>2. ASSUME NEW r \in Piece, ChunkOf(position, end) = <<r>>
        PROVE  /\ cut' \in Seq(Piece) /\ Len(cut') = Len(cut) + 1 /\ Len(cut) \in Nat
               /\ \A n \in DOMAIN cut : n \in DOMAIN cut' /\ cut'[n] = cut[n]
               /\ \A n \in DOMAIN cut' : n \in DOMAIN cut \/ n = Len(cut) + 1
               /\ cut'[Len(cut) + 1] = r
    BY <1>1, <1>2, <2>2
  <2>3. PICK r \in Piece :
          \/ ChunkOf(position, end) = <<>> /\ Inked(position, end) = {}
          \/ /\ ChunkOf(position, end) = <<r>> /\ r.upto = end
             /\ position <= r.start /\ r.start < r.end /\ r.end <= end
             /\ r.start + 1 \in Inked(position, end) /\ r.end \in Inked(position, end)
             /\ \A p \in Inked(position, end) : r.start < p /\ p <= r.end
    <3>1. [start |-> 0, end |-> 0, upto |-> 0] \in Piece
      BY DEF Piece
    <3> QED BY <1>1, <1>4, <3>1, ChunkOfSpans
  <2>4. CASE ChunkOf(position, end) = <<r>> /\ ~(Inked(position, end) = {})
    BY <2>2, <2>3, <2>4
  <2>5. CASE ChunkOf(position, end) = <<r>> /\ Inked(position, end) = {}
    BY <2>2, <2>3, <2>5
  <2> QED BY <2>1, <2>3, <2>4, <2>5
<1>8. ChunkTypeOK'
  <2>1. position' \in 0 .. Length /\ (call' = "looping" => position' < Length)
        /\ call' \in {"looping", "returned"}
    <3>1. CASE last
      BY <1>1, <1>2, <3>1
    <3>2. CASE ~last
      BY <1>1, <1>2, <1>4, <1>5, <3>2
    <3> QED BY <3>1, <3>2
  <2>2. ASSUME NEW n \in DOMAIN cut'
        PROVE  /\ 0 <= cut'[n].start /\ cut'[n].start < cut'[n].end /\ cut'[n].end <= Length
               /\ {cut'[n].start + 1, cut'[n].end} \subseteq Inked(0, Length)
               /\ cut'[n].end - cut'[n].start <= given.max
    <3>1. CASE n \in DOMAIN cut
      BY <1>7, <3>1 DEF ChunkInv, ChunkTypeOK
    <3>2. CASE n = Len(cut) + 1 /\ Len(cut') = Len(cut) + 1
      <4> DEFINE r == cut'[Len(cut) + 1]
      <4>1. /\ r.start \in Int /\ r.end \in Int
            /\ position <= r.start /\ r.start < r.end /\ r.end <= end
            /\ r.start + 1 \in Inked(position, end) /\ r.end \in Inked(position, end)
        BY <1>7, <3>2 DEF Piece
      <4>2. Inked(position, end) \subseteq Inked(0, Length)
        BY <1>1, <1>3, <1>4 DEF Inked
      <4> HIDE DEF r
      <4>3. /\ 0 <= r.start /\ r.start < r.end /\ r.end <= Length
            /\ r.end - r.start <= given.max
        BY <1>1, <1>3, <1>4, <4>1
      <4> QED BY <3>2, <4>1, <4>2, <4>3 DEF r
    <3>3. Len(cut') = Len(cut) => n \in DOMAIN cut
      BY <1>1, <1>7
    <3> QED BY <1>7, <3>1, <3>2, <3>3
  <2> QED BY <1>2, <1>6, <2>1, <2>2 DEF ChunkTypeOK
<1>9. /\ EveryChunkAddsText'
      /\ OverlapFits /\ ~last =>
           \A n \in DOMAIN cut' : cut'[n].upto <= position' + given.overlap /\ cut'[n].upto < Length
  <2> SUFFICES ASSUME OverlapFits
               PROVE  /\ \A n \in 2 .. Len(cut') : cut'[n - 1].upto < cut'[n].upto
                      /\ ~last => \A n \in DOMAIN cut' :
                                    cut'[n].upto <= position' + given.overlap /\ cut'[n].upto < Length
    BY <1>6 DEF EveryChunkAddsText
  <2>1. ASSUME NEW n \in DOMAIN cut
        PROVE  cut[n].upto \in Int /\ cut[n].upto < end
    <3>1. /\ cut[n].upto \in Int /\ cut[n].upto <= position + given.overlap
          /\ cut[n].upto < Length
      <4>1. cut[n] \in Piece
        BY <1>1
      <4> QED BY <1>1, <4>1 DEF ChunkInv, Piece
    <3>2. CASE last
      BY <1>1, <1>4, <3>1, <3>2
    <3>3. CASE ~last
      BY <1>1, <1>3, <1>4, <3>1, <3>3 DEF OverlapFits
    <3> QED BY <3>2, <3>3
  <2>2. \A n \in DOMAIN cut' \ DOMAIN cut :
          n = Len(cut) + 1 /\ Len(cut') = Len(cut) + 1 /\ cut'[n].upto = end
    BY <1>1, <1>7
  <2>3. ASSUME NEW n \in 2 .. Len(cut') PROVE cut'[n - 1].upto < cut'[n].upto
    <3>1. n - 1 \in DOMAIN cut /\ n \in DOMAIN cut' /\ cut'[n - 1] = cut[n - 1]
      BY <1>1, <1>7
    <3>2. CASE n \in DOMAIN cut
      <4>1. n \in 2 .. Len(cut)
        BY <1>1, <3>2
      <4> QED BY <1>7, <3>1, <3>2, <4>1 DEF ChunkInv, EveryChunkAddsText
    <3>3. CASE n \notin DOMAIN cut
      BY <2>1, <2>2, <3>1, <3>3
    <3> QED BY <3>2, <3>3
  <2>4. ASSUME ~last, NEW n \in DOMAIN cut'
        PROVE  cut'[n].upto <= position' + given.overlap /\ cut'[n].upto < Length
    <3>1. cut'[n].upto \in Int /\ cut'[n].upto <= end
      <4>1. CASE n \in DOMAIN cut
        BY <1>4, <1>7, <2>1, <4>1
      <4>2. CASE n \notin DOMAIN cut
        BY <1>4, <2>2, <4>2
      <4> QED BY <4>1, <4>2
    <3> QED BY <1>1, <1>4, <1>5, <2>4, <3>1
  <2> QED BY <2>3, <2>4
<1>10. ASSUME NEW limit \in Int, limit <= end, NEW p \in Inked(0, Length), p <= limit,
             ~last => limit = position',
             NEW q \in Inked(p - 1, Min({p + Apart, Length}))
      PROVE  \E n \in DOMAIN cut' : cut'[n].start < p /\ q <= cut'[n].end
  <2>1. CASE p <= position
    <3>1. PICK n \in DOMAIN cut : cut[n].start < p /\ q <= cut[n].end
      BY <1>1, <1>10, <2>1 DEF ChunkInv, DoneUpTo
    <3> QED BY <1>7, <3>1
  <2>2. CASE p > position
    <3>1. /\ p \in Int /\ given.text[p] \notin Whitespace
          /\ q \in Int /\ given.text[q] \notin Whitespace /\ p <= q
          /\ q <= Length /\ q <= p + Apart
      <4>1. p \in Int /\ given.text[p] \notin Whitespace
        BY <1>1 DEF Inked
      <4>2. p + Apart \in Int
        BY <1>1, <4>1 DEF Apart
      <4>3. Min({p + Apart, Length}) = IF p + Apart <= Length THEN p + Apart ELSE Length
        BY <1>1, <4>2, ExtremesOfTwo
      <4> QED BY <1>1, <4>1, <4>2, <4>3 DEF Inked
    <3>2. p <= end /\ q <= end
      <4>1. CASE last
        BY <1>1, <1>4, <1>10, <3>1, <4>1
      <4>2. CASE ~last /\ OverlapFits
        BY <1>1, <1>4, <1>5, <1>10, <3>1, <4>2 DEF Apart
      <4>3. CASE ~last /\ ~OverlapFits
        BY <1>1, <1>4, <1>5, <1>10, <3>1, <4>3 DEF Apart
      <4> QED BY <4>1, <4>2, <4>3
    <3>3. p \in Inked(position, end) /\ q \in Inked(position, end)
      BY <1>1, <1>4, <2>2, <3>1, <3>2 DEF Inked
    <3>4. Len(cut') = Len(cut) + 1 /\ Len(cut) + 1 \in DOMAIN cut'
      BY <1>1, <1>7, <3>3
    <3> QED BY <1>7, <3>3, <3>4
  <2> QED BY <1>1, <1>10, <2>1, <2>2 DEF Inked
<1>11. /\ last => DoneUpTo(Length)'
       /\ ~last => DoneUpTo(position)'
  <2>1. CASE last
    <3>1. Length <= end
      BY <2>1
    <3>2. \A p \in Inked(0, Length) : p <= Length =>
            \A q \in Inked(p - 1, Min({p + Apart, Length})) :
              \E n \in DOMAIN cut' : cut'[n].start < p /\ q <= cut'[n].end
      BY <1>1, <1>10, <2>1, <3>1
    <3>3. DoneUpTo(Length)'
      BY <1>6, <3>2 DEF DoneUpTo
    <3> QED BY <2>1, <3>3
  <2>2. CASE ~last
    BY <1>1, <1>5, <1>6, <1>10, <2>2 DEF DoneUpTo
  <2> QED BY <2>1, <2>2
<1>12. CASE last
  BY <1>1, <1>2, <1>6, <1>7, <1>8, <1>9, <1>11, <1>12 DEF ChunkInv
<1>13. CASE ~last
  BY <1>1, <1>2, <1>5, <1>6, <1>7, <1>8, <1>9, <1>11, <1>13 DEF ChunkInv
<1> QED BY <1>12, <1>13

\* A text comes to be, and is cut or refused: there are no chunks yet.
LEMMA CallKeeps ==
  ASSUME ChunkInv, Write \/ ChunkText
  PROVE  ChunkInv' /\ (call = "none" \/ call' # "looping")
<1>1. /\ given \in [text : Seq(Characters), max : Int, overlap : Int] /\ Length \in Nat
      /\ call = "none" /\ cut = <<>> /\ position = 0 /\ UNCHANGED <<position, cut>>
  <2>1. given \in [text : Seq(Characters), max : Int, overlap : Int]
    BY DEF ChunkInv
  <2>2. Length \in Nat
    BY <2>1 DEF Length
  <2>3. call = "none" /\ UNCHANGED <<position, cut>>
    BY DEF Write, ChunkText
  <2> QED BY <2>1, <2>2, <2>3 DEF ChunkInv
<1>2. <<>> \in Seq(Piece) /\ DOMAIN <<>> = {} /\ Len(<<>>) = 0
  OBVIOUS
<1>3. EveryChunkAddsText'
  <2>1. Len(cut') = 0
    BY <1>1, <1>2
  <2>2. 2 .. Len(cut') = {}
    BY <2>1
  <2> QED BY <2>2 DEF EveryChunkAddsText
<1>4. CASE Write
  <2>1. PICK c \in Characters : given' = [given EXCEPT !.text = Append(@, c)]
    BY <1>4 DEF Write
  <2>2. given' \in [text : Seq(Characters), max : Int, overlap : Int] /\ Length' \in Nat
    <3>1. Append(given.text, c) \in Seq(Characters)
      BY <1>1
    <3>2. given' \in [text : Seq(Characters), max : Int, overlap : Int]
      BY <1>1, <2>1, <3>1
    <3> QED BY <3>2 DEF Length
  <2>3. call' = "none"
    BY <1>1, <1>4 DEF Write
  <2>4. ChunkTypeOK'
    BY <1>1, <1>2, <2>2, <2>3 DEF ChunkTypeOK
  <2> QED BY <1>1, <1>2, <1>3, <2>2, <2>3, <2>4 DEF ChunkInv
<1>5. CASE ChunkText
  <2>1. PICK p \in Parameters :
          /\ given' = [given EXCEPT !.max = p[1], !.overlap = p[2]]
          /\ call' = IF Refused(p[1], p[2]) THEN "refused"
                     ELSE IF Inked(0, Length) = {} THEN "returned"
                     ELSE "looping"
    BY <1>5 DEF ChunkText
  <2>2. /\ given' \in [text : Seq(Characters), max : Int, overlap : Int]
        /\ given'.text = given.text /\ given'.max = p[1] /\ given'.overlap = p[2]
        /\ p[1] \in Int /\ p[2] \in Int
    BY <1>1, <2>1, ChunkAssumption
  <2>3. Length' = Length /\ \A a, b : Inked(a, b)' = Inked(a, b)
    BY <2>2 DEF Length, Inked
  <2>4. call' = "looping" => /\ 0 <= given'.overlap /\ given'.overlap < given'.max
                            /\ Inked(0, Length) # {}
    BY <2>1, <2>2 DEF Refused
  <2>5. call' = "looping" => 0 < Length
    BY <1>1, <2>4 DEF Inked
  <2>6. DoneUpTo(position)' /\ (call' = "returned" => DoneUpTo(Length)')
    <3>1. \A q \in Inked(0, Length) : ~(q <= position')
      BY <1>1 DEF Inked
    <3>2. call' = "returned" => Inked(0, Length) = {}
      BY <2>1
    <3> QED BY <2>3, <3>1, <3>2 DEF DoneUpTo
  <2>7. call' \in {"refused", "returned", "looping"}
    BY <2>1
  <2>8. ChunkTypeOK'
    BY <1>1, <1>2, <2>3, <2>5, <2>7 DEF ChunkTypeOK
  <2> QED BY <1>1, <1>2, <1>3, <2>2, <2>4, <2>6, <2>7, <2>8 DEF ChunkInv
<1> QED BY <1>1, <1>4, <1>5

\* Nothing is cut before chunk_text is called.
LEMMA ChunkStarts == ChunkInit => ChunkInv
BY DEF ChunkInit, ChunkInv, ChunkTypeOK, EveryChunkAddsText, Length

\* Every turn of the loop, and its checks, keep the invariant (chunk_text).
LEMMA ChunkStep == ChunkInv /\ [ChunkNext]_chunkVars => ChunkInv'
<1>1. ChunkInv /\ UNCHANGED chunkVars => ChunkInv'
  <2> SUFFICES ASSUME ChunkInv, UNCHANGED chunkVars PROVE ChunkInv'
    OBVIOUS
  <2> USE DEF chunkVars
  <2>1. /\ Length' = Length /\ OverlapFits' = OverlapFits /\ Apart' = Apart
        /\ \A a, b : Inked(a, b)' = Inked(a, b)
    BY DEF Length, OverlapFits, Apart, Inked
  <2>2. ChunkTypeOK' /\ EveryChunkAddsText'
    BY <2>1 DEF ChunkInv, ChunkTypeOK, EveryChunkAddsText
  <2>3. DoneUpTo(position)' = DoneUpTo(position) /\ DoneUpTo(Length)' = DoneUpTo(Length)
    BY <2>1 DEF DoneUpTo
  <2> QED BY <2>1, <2>2, <2>3 DEF ChunkInv
<1> QED BY <1>1, CallKeeps, CutChunkKeeps DEF ChunkNext

\* A pair of characters that starts before the end is one that starts anywhere.
LEMMA AllIsDone == ChunkInv => ChunksCoverTheText
<1> SUFFICES ASSUME ChunkInv, call = "returned", NEW p \in Inked(0, Length),
                    NEW q \in Inked(p - 1, Min({p + Apart, Length}))
             PROVE  \E n \in DOMAIN cut : cut[n].start < p /\ q <= cut[n].end
  BY DEF ChunksCoverTheText, FactsStayTogether, Apart, ChunkInv
<1>1. p <= Length
  BY DEF Inked, ChunkInv, Length
<1> QED BY <1>1 DEF ChunkInv, DoneUpTo

\* Every text and every parameters that chunk_text does not refuse.
THEOREM ChunkInvariance == ChunkSpec => []ChunkInv
BY ChunkStarts, ChunkStep, PTL DEF ChunkSpec

\* Chunks are spans of ink within the text and no longer than max_chars, and the
\* loop never starts one beyond the text (chunk_text).
THEOREM ChunkTyped == ChunkSpec => []ChunkTypeOK
<1>1. ChunkInv => ChunkTypeOK
  BY DEF ChunkInv
<1> QED BY <1>1, ChunkInvariance, PTL

\* Wherever the boundaries fall, what the overlap is to keep together is together in
\* a chunk, nothing is lost, and no chunk is inside of the one before (chunk_text,
\* _find_boundary).
THEOREM ChunksCover == ChunkSpec => []ChunksCoverTheText
BY AllIsDone, ChunkInvariance, PTL

\* Every turn of the loop starts its chunk further on (chunk_text).
THEOREM TurnsAdvance == ChunkSpec => EveryTurnAdvances
<1>1. ChunkInv /\ [ChunkNext]_chunkVars =>
        [call = "looping" /\ call' = "looping" => position' > position]_chunkVars
  BY CallKeeps, CutChunkKeeps DEF ChunkNext, Write, ChunkText
<1> QED BY <1>1, ChunkInvariance, PTL DEF ChunkSpec, EveryTurnAdvances
=============================================================================
