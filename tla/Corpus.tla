------------------------------- MODULE Corpus --------------------------------
(***************************************************************************)
(* The knowledge base and what is derived from it: the vector store, the   *)
(* table `documents`, the in-memory snapshot of the store behind lexical   *)
(* search, and the semantic cache of answers                               *)
(* (backend/app/services: rag_service.py, vector_store.py,                 *)
(* answer_cache.py, retrieval.py; endpoints/documents.py).                 *)
(*                                                                         *)
(* A job is one call on its own worker thread: an upload, a deletion or a  *)
(* question.  The two stores share no transaction and the snapshot has no  *)
(* lock, so every call into one of them is a step.  A crash loses the      *)
(* snapshot, the cache and the jobs, and keeps the stores.                 *)
(*                                                                         *)
(* The content of a corpus is abstracted to the set of documents that have *)
(* chunks in it.  corpus_revision hashes the sorted chunk ids: it is the   *)
(* set itself here.  Retrieval is abstracted to the documents it searches. *)
(***************************************************************************)
EXTENDS Naturals, FiniteSets, Functions

CONSTANTS
    Docs,          \* document ids
    Files,         \* contents of uploads, told apart by their checksum
    Questions,     \* texts of questions
    Similar,       \* pairs of questions with similarity above the threshold
    Jobs,
    Seeded,        \* Seeded[d]: the file of a document indexed before the start
    Nobody,        \* no file, no document, no question
    NoCopy,        \* Python's None where a copy of the corpus may stand
    MaxEntries,    \* answer_cache.MAX_ENTRIES
    MaxCrashes     \* bound on server restarts

ASSUME CorpusAssumption ==
    /\ Nobody \notin Files \cup Docs \cup Questions
    /\ \A s \in SUBSET Docs : s # NoCopy
    /\ Similar \subseteq Questions \X Questions
    /\ Seeded \in [Docs -> Files \cup {Nobody}]
    /\ MaxEntries \in Nat \ {0} /\ MaxCrashes \in Nat

VARIABLES
    \* on disk
    vectors,    \* documents with chunks in the collection
    row,        \* row[d]: checksum of the row in `documents`; Nobody without one
    minted,     \* document ids given out so far
    \* in memory
    snapshot,   \* _corpus_cache
    cache,      \* answer_cache._entries, by question
    older,      \* its order: <<p, q>> when p was used less recently than q
    \* the jobs
    pc,
    file,       \* file[j]: what an upload indexes
    doc,        \* doc[j]: the document an upload creates or a deletion removes
    question,   \* question[j]: the question a query asks
    seen,       \* seen[j]: the corpus the last get_corpus() returned to j
    copy,       \* copy[j]: what get_corpus() read and has not yet stored
    searched,   \* searched[j]: the documents retrieval has found chunks of
    crashes,
    raced       \* history: a question and a change were in flight together

storeVars == <<vectors, row, minted>>
cacheVars == <<cache, older>>
memoryVars == <<snapshot, cacheVars>>
inputVars == <<file, doc, question>>
localVars == <<seen, copy, searched>>
vars == <<vectors, row, minted, snapshot, cache, older, pc, file, doc, question,
          seen, copy, searched, crashes, raced>>

\* The calls of get_corpus() and where their callers go on.
AfterCorpus == [lookup_corpus   |-> "lookup",
                lexical         |-> "candidates",
                candidates      |-> "generate",
                remember_corpus |-> "store"]

Asking == DOMAIN AfterCorpus \cup {"lookup", "dense", "generate", "store"}
Uploading == {"index", "indexed", "insert"}
Deleting == {"unindex", "unindexed", "drop_row"}
Changing == Uploading \cup Deleting \cup {"invalidate"}
\* A conflict is an upload whose row the UNIQUE checksum refused.
Outcomes == {"answered", "cached", "failed", "conflict", "lost"}

In(labels) == {j \in Jobs : pc[j] \in labels}

Entry == [revision : SUBSET Docs, searched : SUBSET Docs, expired : BOOLEAN]

NoEntries == [q \in {} |-> q]

TypeOK ==
    /\ minted \subseteq Docs
    /\ vectors \subseteq minted
    /\ row \in [Docs -> Files \cup {Nobody}]
    /\ snapshot \in {NoCopy} \cup SUBSET Docs
    /\ DOMAIN cache \subseteq Questions /\ cache \in [DOMAIN cache -> Entry]
    /\ IsFiniteSet(DOMAIN cache) /\ Cardinality(DOMAIN cache) <= MaxEntries
    /\ older \subseteq (DOMAIN cache) \X (DOMAIN cache)
    /\ pc \in [Jobs -> {"new"} \cup Asking \cup Changing \cup Outcomes]
    /\ file \in [Jobs -> Files \cup {Nobody}]
    /\ doc \in [Jobs -> Docs \cup {Nobody}]
    /\ question \in [Jobs -> Questions \cup {Nobody}]
    /\ seen \in [Jobs -> SUBSET Docs]
    /\ copy \in [Jobs -> {NoCopy} \cup SUBSET Docs]
    /\ searched \in [Jobs -> SUBSET Docs]
    /\ crashes \in 0..MaxCrashes
    /\ raced \in BOOLEAN

\* A server that starts on the stores an earlier one left.
Init ==
    /\ vectors = {d \in Docs : Seeded[d] # Nobody}
    /\ row = Seeded
    /\ minted = vectors
    /\ snapshot = NoCopy
    /\ cache = NoEntries /\ older = {}
    /\ pc = [j \in Jobs |-> "new"]
    /\ file = [j \in Jobs |-> Nobody]
    /\ doc = [j \in Jobs |-> Nobody]
    /\ question = [j \in Jobs |-> Nobody]
    /\ seen = [j \in Jobs |-> {}]
    /\ copy = [j \in Jobs |-> NoCopy]
    /\ searched = [j \in Jobs |-> {}]
    /\ crashes = 0
    /\ raced = FALSE

-----------------------------------------------------------------------------
Goto(j, label) == pc' = [pc EXCEPT ![j] = label]

\* The job ends and its local variables are gone.
Finish(j, outcome) ==
    /\ Goto(j, outcome)
    /\ seen' = [seen EXCEPT ![j] = {}]
    /\ copy' = [copy EXCEPT ![j] = NoCopy]
    /\ searched' = [searched EXCEPT ![j] = {}]

-----------------------------------------------------------------------------
(***************************************************************************)
(* Uploads: RAGService.ingest_file                                         *)
(***************************************************************************)

\* POST /documents up to the end of parsing: the checksum is looked up, and a
\* file that is known is answered at once; a file without text is refused.
Upload(j, f) ==
    /\ pc[j] = "new"
    /\ file' = [file EXCEPT ![j] = f]
    /\ IF \E d \in Docs : row[d] = f
       THEN Goto(j, "answered")
       ELSE Goto(j, "index") \/ Goto(j, "failed")
    /\ raced' = (raced \/ In(Asking) # {})
    /\ UNCHANGED <<storeVars, memoryVars, doc, question, localVars, crashes>>

\* add_chunks up to the collection's add: all chunks under a fresh document
\* id, or nothing when embedding fails.
Index(j) ==
    /\ pc[j] = "index"
    /\ \/ \E d \in Docs \ minted :
             /\ minted' = minted \cup {d}
             /\ vectors' = vectors \cup {d}
             /\ doc' = [doc EXCEPT ![j] = d]
             /\ Goto(j, "indexed")
       \/ Goto(j, "failed") /\ UNCHANGED <<minted, vectors, doc>>
    /\ UNCHANGED <<row, memoryVars, file, question, localVars, crashes, raced>>

\* create_document; the loser of a race for the checksum raises, and nobody
\* takes its chunks back.
InsertRow(j) ==
    /\ pc[j] = "insert"
    /\ IF \E d \in Docs : row[d] = file[j]
       THEN Goto(j, "conflict") /\ UNCHANGED row
       ELSE Goto(j, "invalidate") /\ row' = [row EXCEPT ![doc[j]] = file[j]]
    /\ UNCHANGED <<vectors, minted, memoryVars, inputVars, localVars, crashes, raced>>

-----------------------------------------------------------------------------
(***************************************************************************)
(* Deletions: RAGService.delete_document                                   *)
(***************************************************************************)

\* DELETE /documents/{id}, for a document the client has seen listed once.
Delete(j, d) ==
    /\ pc[j] = "new"
    /\ d \in minted
    /\ doc' = [doc EXCEPT ![j] = d]
    /\ Goto(j, IF row[d] = Nobody THEN "failed" ELSE "unindex")
    /\ raced' = (raced \/ In(Asking) # {})
    /\ UNCHANGED <<storeVars, memoryVars, file, question, localVars, crashes>>

\* Slip: the filter of the collection's delete matches nothing.
UnindexNothing(j) ==
    /\ pc[j] = "unindex"
    /\ Goto(j, "unindexed")
    /\ UNCHANGED <<storeVars, memoryVars, inputVars, localVars, crashes, raced>>

\* The collection's delete.
Unindex(j) ==
    /\ pc[j] = "unindex"
    /\ vectors' = vectors \ {doc[j]}
    /\ Goto(j, "unindexed")
    /\ UNCHANGED <<row, minted, memoryVars, inputVars, localVars, crashes, raced>>

\* Slip: the row stays.
KeepRow(j) ==
    /\ pc[j] = "drop_row"
    /\ Goto(j, "invalidate")
    /\ UNCHANGED <<storeVars, memoryVars, inputVars, localVars, crashes, raced>>

DropRow(j) ==
    /\ pc[j] = "drop_row"
    /\ row' = [row EXCEPT ![doc[j]] = Nobody]
    /\ Goto(j, "invalidate")
    /\ UNCHANGED <<vectors, minted, memoryVars, inputVars, localVars, crashes, raced>>

-----------------------------------------------------------------------------
(***************************************************************************)
(* The ends of both: _invalidate_corpus_cache, _on_corpus_change           *)
(***************************************************************************)

AfterChange == [indexed |-> "insert", unindexed |-> "drop_row"]

\* Slip: the snapshot is left to the next restart.
DropSnapshotNever(j) ==
    /\ pc[j] \in DOMAIN AfterChange
    /\ Goto(j, AfterChange[pc[j]])
    /\ UNCHANGED <<storeVars, memoryVars, inputVars, localVars, crashes, raced>>

DropSnapshot(j) ==
    /\ pc[j] \in DOMAIN AfterChange
    /\ snapshot' = NoCopy
    /\ Goto(j, AfterChange[pc[j]])
    /\ UNCHANGED <<storeVars, cacheVars, inputVars, localVars, crashes, raced>>

\* answer_cache.invalidate; what the endpoint answers does not matter here.
Invalidate(j) ==
    /\ pc[j] = "invalidate"
    /\ cache' = NoEntries /\ older' = {}
    /\ Goto(j, "answered")
    /\ UNCHANGED <<storeVars, snapshot, inputVars, localVars, crashes, raced>>

-----------------------------------------------------------------------------
(***************************************************************************)
(* get_corpus()                                                            *)
(***************************************************************************)

\* What a caller does with the corpus: a lookup and a store take its revision;
\* a lexical hit becomes a candidate when a second call still finds its chunk.
Returns(j, corpus) ==
    /\ seen' = [seen EXCEPT ![j] = corpus]
    /\ searched' = IF pc[j] # "candidates" THEN searched
                   ELSE [searched EXCEPT ![j] = @ \cup (seen[j] \cap corpus)]
    /\ Goto(j, AfterCorpus[pc[j]])

ReadSnapshot(j) ==
    /\ pc[j] \in DOMAIN AfterCorpus
    /\ copy[j] = NoCopy
    /\ snapshot # NoCopy
    /\ Returns(j, snapshot)
    /\ UNCHANGED <<storeVars, memoryVars, inputVars, copy, crashes, raced>>

ReadCollection(j) ==
    /\ pc[j] \in DOMAIN AfterCorpus
    /\ copy[j] = NoCopy
    /\ snapshot = NoCopy
    /\ copy' = [copy EXCEPT ![j] = vectors]
    /\ UNCHANGED <<storeVars, memoryVars, pc, inputVars, seen, searched, crashes, raced>>

\* The assignment to _corpus_cache, whatever happened since the read.
FillSnapshot(j) ==
    /\ copy[j] # NoCopy
    /\ snapshot' = copy[j]
    /\ Returns(j, copy[j])
    /\ copy' = [copy EXCEPT ![j] = NoCopy]
    /\ UNCHANGED <<storeVars, cacheVars, inputVars, crashes, raced>>

-----------------------------------------------------------------------------
(***************************************************************************)
(* Questions: lookup_cached_answer, then answer or stream_answer           *)
(***************************************************************************)

\* An empty collection, or a question that cannot be embedded, is a miss.
Ask(j, q) ==
    /\ pc[j] = "new"
    /\ question' = [question EXCEPT ![j] = q]
    /\ Goto(j, "dense") \/ (vectors # {} /\ Goto(j, "lookup_corpus"))
    /\ raced' = (raced \/ In(Changing) # {})
    /\ UNCHANGED <<storeVars, memoryVars, file, doc, localVars, crashes>>

\* The order of `keys` once q is the most recently used of them.
UsedLast(keys, q) ==
    {pair \in older : pair \in (keys \ {q}) \X (keys \ {q})} \cup ((keys \ {q}) \X {q})

\* answer_cache.lookup: purge, then serve a similar entry and make it the most
\* recently used one.
Lookup(j) ==
    LET kept == {q \in DOMAIN cache : ~cache[q].expired /\ cache[q].revision = seen[j]}
        hits == {q \in kept : <<question[j], q>> \in Similar}
    IN  /\ pc[j] = "lookup"
        /\ cache' = Restrict(cache, kept)
        /\ \/ \E q \in hits : older' = UsedLast(kept, q) /\ Finish(j, "cached")
           \/ /\ hits = {}
              /\ older' = {pair \in older : pair \in kept \X kept}
              /\ Goto(j, "dense")
              /\ UNCHANGED localVars
        /\ UNCHANGED <<storeVars, snapshot, inputVars, crashes, raced>>

\* _prepare: the count and the dense search; without a hit, or when the
\* question cannot be embedded, there is no answer.
Dense(j) ==
    /\ pc[j] = "dense"
    /\ \/ Finish(j, "failed")
       \/ /\ vectors # {}
          /\ searched' = [searched EXCEPT ![j] = vectors]
          /\ Goto(j, "lexical")
          /\ UNCHANGED <<seen, copy>>
    /\ UNCHANGED <<storeVars, memoryVars, inputVars, crashes, raced>>

\* Gemini answers, fails, or answers with what is not remembered: an empty
\* stream, or a question that cannot be embedded afterwards.
Generate(j) ==
    /\ pc[j] = "generate"
    /\ \/ Goto(j, "remember_corpus") /\ UNCHANGED localVars
       \/ Finish(j, "answered")
       \/ Finish(j, "failed")
    /\ UNCHANGED <<storeVars, memoryVars, inputVars, crashes, raced>>

NewEntry(j) == [revision |-> seen[j], searched |-> searched[j], expired |-> FALSE]

KeysWith(j) == DOMAIN cache \cup {question[j]}

\* The entry of the same text is replaced and becomes the most recently used
\* one; the keys of `gone` are evicted.
StoreWithout(j, gone) ==
    LET keys == KeysWith(j) \ gone
    IN  /\ cache' = [q \in keys |-> IF q = question[j] THEN NewEntry(j) ELSE cache[q]]
        /\ older' = UsedLast(keys, question[j])

\* Slip: no eviction.
StoreUnbounded(j) ==
    /\ pc[j] = "store"
    /\ StoreWithout(j, {})
    /\ Finish(j, "answered")
    /\ UNCHANGED <<storeVars, snapshot, inputVars, crashes, raced>>

\* answer_cache.store: beyond the limit the least recently used entry goes.
Store(j) ==
    /\ pc[j] = "store"
    /\ IF Cardinality(KeysWith(j)) <= MaxEntries
       THEN StoreWithout(j, {})
       ELSE \E oldest \in KeysWith(j) :
                /\ \A q \in KeysWith(j) :
                       <<q, oldest>> \notin UsedLast(KeysWith(j), question[j])
                /\ StoreWithout(j, {oldest})
    /\ Finish(j, "answered")
    /\ UNCHANGED <<storeVars, snapshot, inputVars, crashes, raced>>

-----------------------------------------------------------------------------
\* An entry grows older than TTL_SECONDS.
Expire(q) ==
    /\ ~cache[q].expired
    /\ cache' = [cache EXCEPT ![q].expired = TRUE]
    /\ UNCHANGED <<storeVars, snapshot, older, pc, inputVars, localVars, crashes, raced>>

Crash ==
    LET running == In(Asking \cup Changing)
    IN  /\ crashes < MaxCrashes
        /\ running # {}
        /\ crashes' = crashes + 1
        /\ snapshot' = NoCopy
        /\ cache' = NoEntries /\ older' = {}
        /\ pc' = [j \in Jobs |-> IF j \in running THEN "lost" ELSE pc[j]]
        /\ seen' = [j \in Jobs |-> {}]
        /\ copy' = [j \in Jobs |-> NoCopy]
        /\ searched' = [j \in Jobs |-> {}]
        /\ raced' = FALSE
        /\ UNCHANGED <<storeVars, inputVars>>

\* The steps of a job after its first.
Step(j) ==
    \/ Index(j) \/ InsertRow(j) \/ Unindex(j) \/ DropRow(j)
    \/ DropSnapshot(j) \/ Invalidate(j)
    \/ ReadSnapshot(j) \/ ReadCollection(j) \/ FillSnapshot(j)
    \/ Lookup(j) \/ Dense(j) \/ Generate(j) \/ Store(j)

Next ==
    \/ \E j \in Jobs :
          \/ Step(j)
          \/ \E f \in Files : Upload(j, f)
          \/ \E d \in Docs : Delete(j, d)
          \/ \E q \in Questions : Ask(j, q)
    \/ \E q \in DOMAIN cache : Expire(q)
    \/ Crash

Spec == Init /\ [][Next]_vars

-----------------------------------------------------------------------------
(***************************************************************************)
(* Properties.                                                             *)
(***************************************************************************)

\* A document that is listed has its chunks in the collection, unless its
\* deletion is under way or a crash cut one short: the row is written after
\* the chunks and dropped after them, whatever else changes the stores.
ListedIsSearchable ==
    \A d \in Docs :
        row[d] # Nobody /\ d \notin vectors =>
            crashes > 0 \/ \E j \in In({"unindexed", "drop_row"}) : doc[j] = d

\* Chunks without a row, which no call can delete any more, come from an
\* upload in flight, one that lost the race for its checksum, or a crash.
OrphansAreExplained ==
    \A d \in vectors :
        row[d] = Nobody =>
            \/ crashes > 0
            \/ \E j \in In({"indexed", "insert", "conflict"}) : doc[j] = d

AtRest == In(Changing) = {}

\* What a lookup would take for the present revision.
PresentRevision == IF snapshot = NoCopy THEN vectors ELSE snapshot

Servable(e) == ~e.expired /\ e.revision = PresentRevision

\* "Cache entries are keyed by this so a document upload can never leave a
\* stale answer behind." (vector_store.py:211): once the changes are done, an
\* answer the cache would serve was found by searching the present corpus.
NoStaleAnswers ==
    AtRest => \A q \in DOMAIN cache :
                  Servable(cache[q]) => cache[q].searched = vectors

\* The same as long as no question was in flight during a change, whatever the
\* changes do to each other, and also after a change that failed half-way and
\* so never reached answer_cache.invalidate.
NoStaleAnswersUnraced == ~raced => NoStaleAnswers

-----------------------------------------------------------------------------
\* Why the properties hold.  An upload that has indexed owns its document: it
\* is in the collection without a row, and nobody else works on it.
UploadsOwnTheirDocument ==
    \A j \in In({"indexed", "insert"}) :
        /\ doc[j] \in vectors /\ row[doc[j]] = Nobody
        /\ \A k \in In({"indexed", "insert"} \cup Deleting) : doc[k] = doc[j] => k = j

\* A document id comes back to nobody, so what a deletion has removed from the
\* collection stays removed.
DeletionsRemove ==
    /\ \A d \in Docs : row[d] # Nobody => d \in minted
    /\ \A j \in In(Deleting) : doc[j] \in minted
    /\ \A j \in In({"unindexed", "drop_row"}) : doc[j] \notin vectors

JobsHaveTheirInput ==
    /\ \A j \in In(Uploading) : file[j] \in Files
    /\ \A j \in In(Asking) : question[j] \in Questions
    /\ \A j \in Jobs : copy[j] # NoCopy => pc[j] \in DOMAIN AfterCorpus

\* Without a race the corpus does not change under a question: a snapshot that
\* is not the present corpus is about to be dropped, and what a question has
\* read is the present corpus.
QuestionsReadThePresent ==
    /\ In(Asking) = {} \/ AtRest
    /\ snapshot \in {NoCopy, vectors} \/ In({"indexed", "unindexed"}) # {}
    /\ \A j \in Jobs :
          /\ copy[j] \in {NoCopy, vectors}
          /\ pc[j] \in {"lexical", "candidates", "generate", "remember_corpus", "store"}
                => searched[j] = vectors
          /\ pc[j] = "store" => seen[j] = vectors
    /\ \A q \in DOMAIN cache : cache[q].searched = cache[q].revision

CorpusInv ==
    /\ TypeOK
    /\ UploadsOwnTheirDocument /\ DeletionsRemove /\ JobsHaveTheirInput
    /\ ListedIsSearchable /\ OrphansAreExplained
    /\ ~raced => QuestionsReadThePresent
=============================================================================
